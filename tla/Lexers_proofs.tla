--------------------------- MODULE Lexers_proofs ---------------------------
(***************************************************************************)
(* Proofs about Lexers: the types of both lexers, and that the sign flag   *)
(* of Newton's never outlives the number it belongs to, unless a file ends *)
(* in a lone sign.                                                         *)
(***************************************************************************)
EXTENDS Lexers, SequenceTheorems, TLAPS

\* The files and the place in them.
Placed == /\ "main" \in DOMAIN files /\ files \in [DOMAIN files -> Seq(Seq(Symbols))]
          /\ open \in Seq([file : DOMAIN files, row : Nat \ {0}]) /\ open # <<>>
          /\ col \in Nat \ {0}

Inv == NewtonTypeOK /\ SignConsumed

(* The line under the cursor is a sequence of symbols.                     *)
LEMMA LineType ==
    ASSUME Placed, Lexing
    PROVE  /\ Last(open) \in [file : DOMAIN files, row : Nat \ {0}]
           /\ Line \in Seq(Symbols)
  <1>1. Last(open) \in [file : DOMAIN files, row : Nat \ {0}]
    <2> DEFINE S == [file : DOMAIN files, row : Nat \ {0}]
    <2>1. open \in Seq(S) /\ open # <<>>
      BY DEF Placed
    <2> HIDE DEF S
    <2>2. Last(open) \in S
      BY <2>1 DEF Last
    <2> QED  BY <2>2 DEF S
  <1>2. Lines \in Seq(Seq(Symbols))
    BY <1>1 DEF Placed, Lines
  <1>3. Line \in Seq(Symbols)
    BY <1>1, <1>2 DEF Lexing, Row, Line
  <1> QED  BY <1>1, <1>3

LEMMA InvPlaced == Inv => Placed
  BY DEF Inv, NewtonTypeOK, Placed

(* A digit under the cursor is in the line: the terminator is no digit.    *)
LEMMA DigitInLine ==
    ASSUME Lexing, NEW k \in Int, At(k) \in Digits
    PROVE  k \in 1..Len(Line)
  BY SymbolsAssumption DEF At

(* Only a number starts with a digit, and it takes the flag.               *)
LEMMA FlagCleared ==
    ASSUME NEW w \in Seq(Symbols), w # <<>>, w[1] \in Digits, NEW sign \in BOOLEAN
    PROVE  FlagAfter(w, sign) = FALSE
  BY SymbolsAssumption DEF FlagAfter, StartsNumber

\* Finishing a word does not raise the flag.
LEMMA FlagNotRaised ==
    ASSUME NEW w \in Seq(Symbols), NEW sign \in BOOLEAN
    PROVE  FlagAfter(w, sign) \in BOOLEAN /\ (FlagAfter(w, sign) => sign)
  BY DEF FlagAfter

\* What a number can be taken for.
LEMMA NumberTypes ==
    ASSUME NEW w PROVE NumberType(w) \in {"bad", "realConst", "integerConst"}
  BY Zenon DEF NumberType

\* The word in progress makes at most one token.
LEMMA FinishedType ==
    ASSUME NEW w \in Seq(Symbols), NEW sign \in BOOLEAN
    PROVE  Finished(w, sign) \in Seq(Token)
  <1>1. w # <<>> => TokenOf(w, sign) \in Token
    <2>1. makeNumericConst(w, sign).negative \in BOOLEAN
      BY DEF makeNumericConst
    <2>2. makeNumericConst(w, sign).type \in TokenTypes
      <3>1. makeNumericConst(w, sign).type = NumberType(w)
        BY DEF makeNumericConst
      <3>2. {"bad", "realConst", "integerConst"} \subseteq TokenTypes
        BY DEF TokenTypes
      <3> QED  BY <3>1, <3>2, NumberTypes
    <2>3. makeNumericConst(w, sign) =
              [type |-> makeNumericConst(w, sign).type, word |-> w,
               negative |-> makeNumericConst(w, sign).negative]
      BY DEF makeNumericConst
    <2>4. makeNumericConst(w, sign) \in Token
      BY <2>1, <2>2, <2>3 DEF Token
    <2>5. CASE w \in Reserved
      BY <2>5 DEF TokenOf, Token, TokenTypes
    <2>6. CASE w \notin Reserved /\ StartsNumber(w)
      BY <2>4, <2>6 DEF TokenOf
    <2>7. CASE w \notin Reserved /\ ~StartsNumber(w)
      BY <2>7 DEF TokenOf, Token, TokenTypes
    <2> QED  BY <2>5, <2>6, <2>7
  <1> QED  BY <1>1 DEF Finished

(* An operator under the cursor: while it is, no number waits for its      *)
(* sign, so that the flag, if set, goes to the word that ends here.        *)
Lowered(flag) == flag \in BOOLEAN /\ (NoLoneSign => flag = FALSE)

LEMMA WordEnds ==
    ASSUME Inv, Lexing, cur \notin Digits
    PROVE  Lowered(FlagAfter(word, negative))
  <1>1. word \in Seq(Symbols) /\ negative \in BOOLEAN
    BY DEF Inv, NewtonTypeOK
  <1>2. FlagAfter(word, negative) \in BOOLEAN
    BY <1>1, FlagNotRaised
  <1>3. ASSUME NoLoneSign PROVE FlagAfter(word, negative) = FALSE
    <2>1. CASE negative
      BY <1>1, <1>3, <2>1, FlagCleared DEF Inv, SignConsumed
    <2>2. CASE ~negative
      BY <1>1, <2>2 DEF FlagAfter
    <2> QED  BY <2>1, <2>2, <1>1
  <1> QED  BY <1>2, <1>3 DEF Lowered

\* Finishing the word lowers the flag.
LEMMA FinishKeeps ==
    ASSUME Inv, Lexing, cur \notin Digits, finishToken
    PROVE  /\ Lowered(negative') /\ word' \in Seq(Symbols)
           /\ tokens' \in Seq(Token)
  <1>1. Lowered(negative')
    BY WordEnds DEF finishToken
  <1>2. tokens \in Seq(Token) /\ Finished(word, negative) \in Seq(Token)
    BY FinishedType DEF Inv, NewtonTypeOK, Token
  <1> QED  BY <1>1, <1>2 DEF finishToken

\* An operator finishes the word in front of it.
LEMMA EmitKeeps ==
    ASSUME Inv, Lexing, cur \notin Digits,
           NEW type \in TokenTypes, NEW n \in Nat, Emit(type, n)
    PROVE  /\ Lowered(negative') /\ word' \in Seq(Symbols)
           /\ tokens' \in Seq(Token) /\ col' \in Nat \ {0}
  <1>1. Lowered(negative')
    BY WordEnds DEF Emit
  <1>2. tokens \in Seq(Token) /\ Finished(word, negative) \in Seq(Token)
    BY FinishedType DEF Inv, NewtonTypeOK, Token
  <1>3. <<Operator(type)>> \in Seq(Token)
    BY DEF Operator, Token
  <1>4. tokens' \in Seq(Token)
    <2> DEFINE f == Finished(word, negative)
               o == <<Operator(type)>>
    <2>1. tokens' = tokens \o f \o o
      BY DEF Emit
    <2> HIDE DEF f, o
    <2>2. f \in Seq(Token) /\ o \in Seq(Token)
      BY <1>2, <1>3 DEF f, o
    <2> QED  BY <1>2, <2>1, <2>2
  <1> QED  BY <1>1, <1>4 DEF Emit, Inv, NewtonTypeOK

(* The initial states. *)
LEMMA InitInv == newtonLexInit => Inv
  <1> SUFFICES ASSUME newtonLexInit PROVE Inv
    OBVIOUS
  <1>1. "main" \in DOMAIN files /\ files \in [DOMAIN files -> Seq(Seq(Symbols))]
    BY SymbolsAssumption DEF newtonLexInit
  <1>2. NewtonTypeOK
    <2>1. open \in Seq([file : DOMAIN files, row : Nat \ {0}]) /\ open # <<>>
      BY <1>1 DEF newtonLexInit
    <2>2. tokens = <<>> /\ word = <<>> /\ col = 1 /\ negative = FALSE /\ status = "lexing"
      BY DEF newtonLexInit
    <2>3. tokens \in Seq(Token) /\ word \in Seq(Symbols)
      BY <2>2
    <2>4. col \in Nat \ {0}
      BY <2>2
    <2>5. negative \in BOOLEAN /\ status \in {"lexing", "done", "fatal"}
      BY <2>2, Zenon
    <2> QED  BY <1>1, <2>1, <2>3, <2>4, <2>5, Zenon DEF NewtonTypeOK
  <1> QED  BY <1>2 DEF newtonLexInit, Inv, SignConsumed

\* No step changes the files.
LEMMA FilesStay == UNCHANGED files => NoLoneSign' = NoLoneSign
  BY DEF NoLoneSign

(* A step that finishes the word on a character that is no digit.          *)
LEMMA CalmStep ==
    ASSUME Inv, Lowered(negative'), word' \in Seq(Symbols), tokens' \in Seq(Token),
           col' \in Nat \ {0}, UNCHANGED <<files, open, status>>
    PROVE  Inv'
  <1>1. NewtonTypeOK'
    BY DEF Inv, NewtonTypeOK, Token, Lowered
  <1>2. NoLoneSign' = NoLoneSign
    BY FilesStay
  <1> QED  BY <1>1, <1>2 DEF Inv, SignConsumed, Lowered

(* The steps *)

(* The word goes on: it keeps its first symbol, and its sign.              *)
LEMMA WordGoesOn ==
    ASSUME Inv, NEW c \in Symbols, word' = Append(word, c), col' = col + 1,
           NoLoneSign /\ word = <<>> /\ negative => c \in Digits,
           UNCHANGED <<files, open, tokens, negative, status>>
    PROVE  Inv'
  <1>1. word \in Seq(Symbols) /\ col \in Nat \ {0}
    BY DEF Inv, NewtonTypeOK
  <1>2. /\ word' \in Seq(Symbols) /\ word' # <<>>
        /\ word'[1] = IF word = <<>> THEN c ELSE word[1]
    BY <1>1
  <1>3. NewtonTypeOK'
    <2>1. col' \in Nat \ {0}
      BY <1>1
    <2>2. /\ "main" \in DOMAIN files'
          /\ files' \in [DOMAIN files' -> Seq(Seq(Symbols))]
          /\ open' \in Seq([file : DOMAIN files', row : Nat \ {0}])
          /\ open' # <<>>
      BY Zenon DEF Inv, NewtonTypeOK
    <2>3. tokens' \in Seq(Token) /\ negative' \in BOOLEAN
      BY Zenon DEF Inv, NewtonTypeOK
    <2>4. status' \in {"lexing", "done", "fatal"}
      BY Zenon DEF Inv, NewtonTypeOK
    <2> QED  BY <1>2, <2>1, <2>2, <2>3, <2>4, Zenon DEF NewtonTypeOK
  <1>4. SignConsumed'
    BY <1>2, FilesStay DEF Inv, SignConsumed
  <1> QED  BY <1>3, <1>4 DEF Inv

\* A dot.
LEMMA DotStep == Inv /\ checkDot => Inv'
  <1> SUFFICES ASSUME Inv, checkDot PROVE Inv'
    OBVIOUS
  <1>1. Lexing /\ cur = "." /\ cur \notin Digits
    BY SymbolsAssumption DEF checkDot, InLine, Paired
  <1>2. CASE isDecimal(word)
    <2>1. "." \in Symbols
      BY <1>1, LineType, InvPlaced DEF checkDot, InLine, cur, At, Inv, NewtonTypeOK
    <2>2. NoLoneSign => ~ (word = <<>> /\ negative)
      BY <1>1 DEF Inv, SignConsumed
    <2> QED  BY <1>2, <2>1, <2>2, WordGoesOn DEF checkDot
  <1>3. CASE ~isDecimal(word)
    <2>1. Emit("dot", 1) /\ "dot" \in TokenTypes
      BY <1>3 DEF checkDot, TokenTypes
    <2> QED  BY <1>1, <2>1, EmitKeeps, CalmStep DEF checkDot
  <1> QED  BY <1>2, <1>3

\* The letter of the proportionality sign.
LEMMA ProportionalityStep == Inv /\ checkProportionality => Inv'
  <1> SUFFICES ASSUME Inv, checkProportionality PROVE Inv'
    OBVIOUS
  <1>1. Lexing /\ cur = "o" /\ cur \notin Digits
    BY SymbolsAssumption DEF checkProportionality, InLine
  <1>2. CASE At(col + 1) # "<"
    <2>1. "o" \in Symbols
      <3>1. cur \in Symbols
        BY LineType, InvPlaced DEF checkProportionality, InLine, cur, At, Inv, NewtonTypeOK
      <3> QED  BY <1>1, <3>1
    <2>2. NoLoneSign => ~ (word = <<>> /\ negative)
      BY <1>1 DEF Inv, SignConsumed
    <2> QED  BY <1>2, <2>1, <2>2, WordGoesOn DEF checkProportionality
  <1>3. CASE At(col + 1) = "<"
    <2>1. Emit("o<", 2) /\ "o<" \in TokenTypes
      BY <1>3 DEF checkProportionality, TokenTypes
    <2> QED  BY <1>1, <2>1, EmitKeeps, CalmStep DEF checkProportionality
  <1> QED  BY <1>2, <1>3

\* A character that joins the word.
LEMMA GatherStep == Inv /\ gather => Inv'
  <1> SUFFICES ASSUME Inv, gather PROVE Inv'
    OBVIOUS
  <1>1. Lexing /\ cur \in Symbols
    BY LineType, InvPlaced DEF gather, InLine, cur, At, Inv, NewtonTypeOK
  <1>2. NoLoneSign /\ word = <<>> /\ negative => cur \in Digits
    BY DEF Inv, SignConsumed
  <1> QED  BY <1>1, <1>2, WordGoesOn DEF gather

(* The sign of an exponent: when the flag is set, the number it belongs to *)
(* is the one whose exponent this is.                                      *)
LEMMA ExponentStep == Inv /\ checkExponentSign => Inv'
  <1> SUFFICES ASSUME Inv, checkExponentSign PROVE Inv'
    OBVIOUS
  <1>1. Lexing /\ cur \notin Digits
    BY SymbolsAssumption DEF checkExponentSign, InLine, Paired
  <1>2. PICK n \in 0..Len(Line) :
            /\ \A i \in 1..n : At(col + i) \in Digits
            /\ tokens' = tokens \o Finished(word \o SubSeq(Line, col, col + n), negative)
            /\ negative' = FlagAfter(word \o SubSeq(Line, col, col + n), negative)
            /\ word' = <<>> /\ col' = col + n + 2
    BY DEF checkExponentSign
  <1>3. /\ Line \in Seq(Symbols) /\ Len(Line) \in Nat /\ n \in Nat
        /\ col \in Nat \ {0} /\ col <= Len(Line) /\ word \in Seq(Symbols)
        /\ negative \in BOOLEAN
    <2>1. Line \in Seq(Symbols)
      BY <1>1, LineType, InvPlaced DEF Inv
    <2>2. col <= Len(Line) /\ n \in 0..Len(Line)
      BY <1>2 DEF checkExponentSign, InLine
    <2>3. col \in Nat \ {0} /\ word \in Seq(Symbols) /\ negative \in BOOLEAN
      BY DEF Inv, NewtonTypeOK
    <2> QED  BY <2>1, <2>2, <2>3
  <1>4. col + n <= Len(Line)
    <2>1. CASE n = 0
      BY <1>3, <2>1
    <2>2. CASE n > 0
      <3>1. n \in 1..n /\ col + n \in Int
        BY <1>3, <2>2
      <3>2. At(col + n) \in Digits
        BY <1>2, <3>1
      <3> QED  BY <1>1, <1>3, <3>1, <3>2, DigitInLine
    <2> QED  BY <1>3, <2>1, <2>2
  <1> DEFINE exponent == SubSeq(Line, col, col + n)
             w == word \o exponent
  <1>5. exponent \in Seq(Symbols) /\ Len(exponent) = n + 1
    BY <1>3, <1>4, SubSeqProperties
  <1>6. tokens' = tokens \o Finished(w, negative) /\ negative' = FlagAfter(w, negative)
    BY <1>2
  <1> HIDE DEF exponent
  <1>7. w \in Seq(Symbols) /\ w # <<>> /\ (word # <<>> => w[1] = word[1])
    BY <1>3, <1>5, ConcatProperties
  <1> HIDE DEF w
  <1>8. Lowered(negative')
    <2>1. negative' \in BOOLEAN
      BY <1>3, <1>6, <1>7, FlagNotRaised
    <2>2. ASSUME NoLoneSign, negative PROVE negative' = FALSE
      <3>1. word # <<>> /\ word[1] \in Digits
        BY <1>1, <2>2 DEF Inv, SignConsumed
      <3> QED  BY <1>3, <1>6, <1>7, <3>1, FlagCleared
    <2>3. CASE ~negative
      BY <1>6, <2>3, <2>1 DEF FlagAfter, Lowered
    <2> QED  BY <1>3, <2>1, <2>2, <2>3 DEF Lowered
  <1>9. tokens' \in Seq(Token)
    <2>1. tokens \in Seq(Token) /\ Finished(w, negative) \in Seq(Token)
      BY <1>3, <1>7, FinishedType DEF Inv, NewtonTypeOK
    <2> DEFINE f == Finished(w, negative)
    <2>2. f \in Seq(Token) /\ tokens' = tokens \o f
      BY <1>6, <2>1
    <2> HIDE DEF f
    <2> QED  BY <2>1, <2>2
  <1>10. word' \in Seq(Symbols) /\ col' \in Nat \ {0}
    BY <1>2, <1>3
  <1> QED  BY <1>8, <1>9, <1>10, CalmStep DEF checkExponentSign

(* The sign of a number sets the flag on the digit under the cursor, but   *)
(* on a line of one character, of which a text without lone signs has none.*)
LEMMA SignStep == Inv /\ checkSign => Inv'
  <1> SUFFICES ASSUME Inv, checkSign PROVE Inv'
    OBVIOUS
  <1>1. Lexing /\ col \in Nat \ {0} /\ SignsNumber
    BY DEF checkSign, InLine, Inv, NewtonTypeOK
  <1>2. tokens' \in Seq(Token)
    <2> DEFINE f == Finished(word, cur = "-")
    <2>1. (cur = "-") \in BOOLEAN /\ word \in Seq(Symbols) /\ tokens \in Seq(Token)
      BY DEF Inv, NewtonTypeOK
    <2>2. f \in Seq(Token) /\ tokens' = tokens \o f
      BY <2>1, FinishedType DEF checkSign
    <2> HIDE DEF f
    <2> QED  BY <2>1, <2>2
  <1>3. word' = <<>> /\ col' = col + 1 /\ negative' = TRUE /\ UNCHANGED <<files, open, status>>
    BY DEF checkSign
  <1>4. NewtonTypeOK'
    BY <1>1, <1>2, <1>3 DEF Inv, NewtonTypeOK
  <1>5. ASSUME NoLoneSign PROVE At(col + 1) \in Digits
    <2>1. /\ Last(open) \in [file : DOMAIN files, row : Nat \ {0}]
          /\ Line \in Seq(Symbols)
      BY <1>1, LineType, InvPlaced
    <2>2. Line \notin {<<"+">>, <<"-">>}
      <3>1. Row \in DOMAIN Lines
        <4>1. Lines \in Seq(Seq(Symbols))
          BY <2>1 DEF Lines, Inv, NewtonTypeOK
        <4> QED  BY <1>1, <2>1, <4>1 DEF Lexing, Row
      <3> QED  BY <1>5, <2>1, <3>1 DEF NoLoneSign, Lines, Line
    <2>3. ~ (Len(Line) < 2)
      <3>1. SUFFICES ASSUME Len(Line) < 2 PROVE FALSE
        OBVIOUS
      <3>2. col = 1 /\ Len(Line) = 1 /\ Line[1] \in {"+", "-"}
        <4>1. col <= Len(Line) /\ Len(Line) \in Nat /\ col \in Nat /\ col > 0
          BY <1>1, <2>1 DEF checkSign, InLine
        <4> DEFINE n == Len(Line)
        <4>2. col = 1 /\ n = 1
          <5>1. n < 2 /\ n \in Nat /\ col \in Nat /\ col > 0 /\ col <= n
            BY <3>1, <4>1
          <5> HIDE DEF n
          <5> QED  BY <5>1
        <4>3. cur = Line[1] /\ cur \in {"+", "-"}
          BY <4>2 DEF checkSign, cur, At
        <4> QED  BY <4>2, <4>3
      <3>3. Line = <<Line[1]>>
        BY <2>1, <3>2
      <3> QED  BY <2>2, <3>2, <3>3
    <2> QED  BY <1>1, <2>3 DEF SignsNumber
  <1>6. ASSUME NoLoneSign PROVE (InLine /\ cur \in Digits)'
    <2>1. col + 1 \in 1..Len(Line) /\ Line[col + 1] \in Digits
      BY <1>1, <1>5, <1>6, DigitInLine DEF At
    <2>2. Line' = Line /\ Lines' = Lines /\ Row' = Row
      BY <1>3 DEF Line, Lines, Row
    <2>3. Lexing'
      BY <1>1, <1>3, <2>2 DEF Lexing
    <2>4. col' \in 1..Len(Line') /\ Line'[col'] \in Digits
      BY <1>3, <2>1, <2>2
    <2> QED  BY <2>3, <2>4, <1>1 DEF InLine, cur, At
  <1> QED  BY <1>3, <1>4, <1>6, FilesStay DEF Inv, SignConsumed

\* A string.
LEMMA QuoteStep == Inv /\ checkDoubleQuote => Inv'
  <1> SUFFICES ASSUME Inv, checkDoubleQuote PROVE Inv'
    OBVIOUS
  <1>1. Lexing /\ cur \notin Digits
    BY SymbolsAssumption DEF checkDoubleQuote, InLine
  <1>2. Lowered(negative') /\ word' \in Seq(Symbols) /\ UNCHANGED <<files, open, status>>
    BY <1>1, WordEnds DEF checkDoubleQuote
  <1>3. Line \in Seq(Symbols) /\ tokens \in Seq(Token) /\ col \in Nat \ {0}
    BY <1>1, LineType, InvPlaced DEF Inv, NewtonTypeOK
  <1> DEFINE f == Finished(word, negative)
  <1>4. f \in Seq(Token)
    BY FinishedType DEF Inv, NewtonTypeOK
  <1>5. CASE Closing(col) # {}
    <2>1. PICK q \in Closing(col) :
              /\ tokens' = tokens \o f \o <<[type |-> "stringConst",
                                word |-> SubSeq(Line, col + 1, q - 1), negative |-> FALSE]>>
              /\ col' = q + 1
      BY <1>5 DEF checkDoubleQuote
    <2>2. q \in (col + 1)..Len(Line)
      BY DEF Closing
    <2>3. SubSeq(Line, col + 1, q - 1) \in Seq(Symbols)
      BY <1>3, <2>2, SubSeqProperties, SubSeqEmpty
    <2> DEFINE t == [type |-> "stringConst", word |-> SubSeq(Line, col + 1, q - 1),
                     negative |-> FALSE]
    <2>4. t \in Token
      BY <2>3 DEF Token, TokenTypes
    <2>5. tokens' = tokens \o f \o <<t>>
      BY <2>1
    <2> HIDE DEF f, t
    <2>6. tokens' \in Seq(Token)
      BY <1>3, <1>4, <2>4, <2>5
    <2>7. col' \in Nat \ {0}
      BY <1>3, <2>1, <2>2
    <2> QED  BY <1>2, <2>6, <2>7, CalmStep
  <1>6. CASE Closing(col) = {}
    <2> DEFINE o == <<Operator("badStringConst")>>
    <2>1. o \in Seq(Token)
      BY DEF Operator, Token, TokenTypes
    <2>2. (tokens' = tokens \/ tokens' = tokens \o f \o o) /\ col' = col
      BY <1>6 DEF checkDoubleQuote
    <2> HIDE DEF f, o
    <2>3. tokens \o f \o o \in Seq(Token)
      BY <1>3, <1>4, <2>1
    <2>4. tokens' \in Seq(Token) /\ col' \in Nat \ {0}
      BY <1>3, <2>2, <2>3
    <2> QED  BY <1>2, <2>4, CalmStep
  <1> QED  BY <1>5, <1>6

(* Where the lexer is in its files after an include, the end of a line and *)
(* the end of a file.                                                      *)
LEMMA IncludePlaced == Placed /\ include => Placed'
  <1> SUFFICES ASSUME Placed, include PROVE Placed'
    OBVIOUS
  <1> DEFINE S == [file : DOMAIN files, row : Nat \ {0}]
  <1>1. /\ open' = open \/ \E f \in DOMAIN files : open' = Append(open, [file |-> f, row |-> 1])
        /\ col' = 1 \/ col' = col
        /\ UNCHANGED files
    BY DEF include
  <1>2. \A f \in DOMAIN files : [file |-> f, row |-> 1] \in S
    OBVIOUS
  <1>3. open \in Seq(S) /\ open # <<>>
    BY DEF Placed
  <1> HIDE DEF S
  <1>4. open' \in Seq(S) /\ open' # <<>>
    <2>1. CASE open' = open
      BY <1>3, <2>1
    <2>2. CASE \E f \in DOMAIN files : open' = Append(open, [file |-> f, row |-> 1])
      <3>1. PICK s \in S : open' = Append(open, s)
        BY <1>2, <2>2
      <3> QED  BY <1>3, <3>1, AppendProperties
    <2> QED  BY <1>1, <2>1, <2>2
  <1> QED  BY <1>1, <1>4 DEF Placed, S

\* The next line.
LEMMA LinePlaced == Placed /\ nextLine => Placed'
  <1> SUFFICES ASSUME Placed, nextLine PROVE Placed'
    OBVIOUS
  <1> DEFINE S == [file : DOMAIN files, row : Nat \ {0}]
  <1>1. open \in Seq(S) /\ open # <<>>
    BY DEF Placed
  <1>2. /\ open' = [open EXCEPT ![Len(open)].row = @ + 1] /\ col' = 1
        /\ UNCHANGED files
    BY DEF nextLine
  <1>3. open[Len(open)] \in S /\ Len(open) \in 1..Len(open)
    <2> HIDE DEF S
    <2> QED  BY <1>1
  <1> DEFINE o == open[Len(open)]
             e == [o EXCEPT !.row = @ + 1]
  <1>4. e \in S
    <2>1. o \in [file : DOMAIN files, row : Nat \ {0}]
      BY <1>3
    <2> HIDE DEF o
    <2> QED  BY <2>1
  <1>5. open' = [open EXCEPT ![Len(open)] = e]
    BY <1>2
  <1> HIDE DEF S, e
  <1>6. open' \in Seq(S) /\ Len(open') = Len(open)
    BY <1>1, <1>3, <1>4, <1>5 DEF e
  <1>7. open' # <<>>
    BY <1>1, <1>6
  <1> QED  BY <1>2, <1>6, <1>7 DEF Placed, S

\* The end of a file.
LEMMA EndPlaced == Placed /\ endOfFile => Placed'
  <1> SUFFICES ASSUME Placed, endOfFile PROVE Placed'
    OBVIOUS
  <1> DEFINE S == [file : DOMAIN files, row : Nat \ {0}]
  <1>1. open \in Seq(S) /\ open # <<>> /\ UNCHANGED files
    BY DEF Placed, endOfFile
  <1>2. CASE Len(open) > 1
    <2>1. open' = [Front(open) EXCEPT ![Len(open) - 1].row = @ + 1] /\ col' = 1
      BY <1>2 DEF endOfFile
    <2> DEFINE front == Front(open)
               k == Len(open) - 1
               e == [front[k] EXCEPT !.row = @ + 1]
    <2> HIDE DEF S
    <2>2. front \in Seq(S) /\ Len(front) = k /\ k \in 1..k /\ front[k] \in S
      BY <1>1, <1>2 DEF Front
    <2>3. e \in S
      BY <2>2 DEF S
    <2>4. open' = [front EXCEPT ![k] = e]
      BY <2>1
    <2> HIDE DEF front, k, e
    <2>5. open' \in Seq(S) /\ Len(open') = k
      BY <2>2, <2>3, <2>4
    <2>6. open' # <<>>
      BY <2>2, <2>5
    <2>7. DOMAIN files' = DOMAIN files /\ col' \in Nat \ {0}
      BY <1>1, <2>1
    <2> QED  BY <1>1, <2>5, <2>6, <2>7 DEF Placed, S
  <1>3. CASE ~ (Len(open) > 1)
    BY <1>1, <1>3 DEF endOfFile, Placed
  <1> QED  BY <1>2, <1>3

(* An include opens its file with no word and no flag.                     *)
LEMMA IncludeStep == Inv /\ include => Inv'
  <1> SUFFICES ASSUME Inv, include PROVE Inv'
    OBVIOUS
  <1>1. NoLoneSign => ~negative
    BY SymbolsAssumption DEF include, Inv, SignConsumed, Include
  <1>2. /\ word' = <<>> /\ UNCHANGED <<files, tokens, negative>>
        /\ status' = status \/ status' = "fatal"
    BY DEF include
  <1>3. Placed'
    BY InvPlaced, IncludePlaced
  <1> QED  BY <1>1, <1>2, <1>3, FilesStay DEF Inv, NewtonTypeOK, SignConsumed, Placed

(* At the end of a line the number being read keeps its sign.              *)
LEMMA LineStep == Inv /\ nextLine => Inv'
  <1> SUFFICES ASSUME Inv, nextLine PROVE Inv'
    OBVIOUS
  <1>1. Placed' /\ UNCHANGED <<files, word, negative, tokens, status>>
    BY InvPlaced, LinePlaced DEF nextLine
  <1>2. NoLoneSign /\ negative => word # <<>> /\ word[1] \in Digits
    <2>1. Len(Line) \in Nat /\ col \in Nat /\ col > Len(Line)
      BY LineType, InvPlaced DEF nextLine, Placed
    <2> QED  BY <2>1 DEF Inv, SignConsumed, InLine, NewtonTypeOK
  <1>3. NewtonTypeOK'
    BY <1>1 DEF Inv, NewtonTypeOK, Placed
  <1>4. SignConsumed'
    BY <1>1, <1>2, FilesStay DEF SignConsumed
  <1> QED  BY <1>3, <1>4 DEF Inv

\* The end of a file.
LEMMA EndStep == Inv /\ endOfFile => Inv'
  <1> SUFFICES ASSUME Inv, endOfFile PROVE Inv'
    OBVIOUS
  <1>1. /\ Placed' /\ UNCHANGED <<files, word, negative>>
        /\ \/ UNCHANGED <<tokens, status>>
           \/ tokens' = Append(tokens, Operator("eof")) /\ status' = "done"
    BY InvPlaced, EndPlaced DEF endOfFile
  <1>2. NoLoneSign /\ negative => word # <<>> /\ word[1] \in Digits
    <2>1. Row \in Nat
      <3> DEFINE S == [file : DOMAIN files, row : Nat \ {0}]
      <3>1. open \in Seq(S) /\ open # <<>>
        BY DEF Inv, NewtonTypeOK
      <3>2. Last(open) \in S
        <4> HIDE DEF S
        <4> QED  BY <3>1 DEF Last
      <3> QED  BY <3>2 DEF Row
    <2>2. Len(Lines) \in Nat
      <3> DEFINE S == [file : DOMAIN files, row : Nat \ {0}]
      <3>1. open \in Seq(S) /\ open # <<>>
        BY DEF Inv, NewtonTypeOK
      <3>2. Last(open) \in S
        <4> HIDE DEF S
        <4> QED  BY <3>1 DEF Last
      <3>3. Lines \in Seq(Seq(Symbols))
        BY <3>2 DEF Lines, Inv, NewtonTypeOK
      <3> QED  BY <3>3
    <2>3. ~InLine
      BY <2>1, <2>2 DEF endOfFile, InLine, Lexing
    <2> QED  BY <2>3 DEF Inv, SignConsumed
  <1>3. tokens' \in Seq(Token)
    <2>1. tokens \in Seq(Token) /\ Operator("eof") \in Token
      BY DEF Inv, NewtonTypeOK, Operator, Token, TokenTypes
    <2> QED  BY <1>1, <2>1
  <1>4. status' \in {"lexing", "done", "fatal"}
    BY <1>1 DEF Inv, NewtonTypeOK
  <1>5. NewtonTypeOK'
    BY <1>1, <1>3, <1>4 DEF Inv, NewtonTypeOK, Placed
  <1>6. SignConsumed'
    BY <1>1, <1>2, FilesStay DEF SignConsumed
  <1> QED  BY <1>5, <1>6 DEF Inv

(* The handlers that end the word with an operator, or with nothing.       *)
LEMMA OperatorStep ==
    Inv /\ (checkSingle \/ checkColon \/ checkLt \/ checkGt \/ checkArrow \/ checkPlusMinus)
    => Inv'
  <1> SUFFICES ASSUME Inv, checkSingle \/ checkColon \/ checkLt \/ checkGt \/ checkArrow
                           \/ checkPlusMinus
               PROVE  Inv'
    OBVIOUS
  <1>1. Lexing /\ UNCHANGED <<files, open, status>>
    BY DEF checkSingle, checkColon, checkLt, checkGt, checkArrow, checkPlusMinus, InLine
  <1>2. cur \in Single \cup Paired
    BY DEF checkSingle, checkColon, checkLt, checkGt, checkArrow, checkPlusMinus, Single, Paired, Second
  <1>3. cur \notin Digits
    BY <1>2, SymbolsAssumption
  <1>4. \E type \in TokenTypes, n \in Nat : Emit(type, n)
    <2>1. CASE checkSingle
      BY <1>2, <2>1 DEF checkSingle, TokenTypes
    <2>2. CASE checkColon
      BY <1>2, <2>2 DEF checkColon, TokenTypes, PairOf, Second
    <2>3. CASE checkLt
      BY <2>3 DEF checkLt, TokenTypes, Paired
    <2>4. CASE checkGt
      <3> DEFINE skip == IF At(col + 1) = "<" THEN 2 ELSE 0
      <3>1. skip \in Nat
        OBVIOUS
      <3>2. Emit(">>", skip + 2) \/ Emit(">=", skip + 2) \/ Emit(">", skip + 1)
        BY <2>4 DEF checkGt
      <3>3. skip + 2 \in Nat /\ skip + 1 \in Nat /\ {">>", ">=", ">"} \subseteq TokenTypes
        BY <3>1 DEF TokenTypes, Paired
      <3> QED  BY <3>2, <3>3
    <2>5. CASE checkArrow
      BY <2>5 DEF checkArrow, TokenTypes
    <2>6. CASE checkPlusMinus
      BY <1>2, <2>6 DEF checkPlusMinus, TokenTypes
    <2> QED  BY <2>1, <2>2, <2>3, <2>4, <2>5, <2>6
  <1> QED  BY <1>1, <1>3, <1>4, EmitKeeps, CalmStep

\* Blanks and comments.
LEMMA BlankStep == Inv /\ (white \/ checkComment) => Inv'
  <1> SUFFICES ASSUME Inv, white \/ checkComment PROVE Inv'
    OBVIOUS
  <1>1. Lexing /\ UNCHANGED <<files, open, status>> /\ finishToken
        /\ cur \in Blanks \cup {"#"}
    BY DEF white, checkComment, InLine
  <1>2. cur \notin Digits
    BY <1>1, SymbolsAssumption
  <1>3. col' \in Nat \ {0}
    <2>1. Len(Line) \in Nat /\ col \in Nat \ {0}
      BY <1>1, LineType, InvPlaced DEF Inv, NewtonTypeOK
    <2> QED  BY <2>1 DEF white, checkComment
  <1> QED  BY <1>1, <1>2, <1>3, FinishKeeps, CalmStep

\* Every handler of Newton keeps the invariant.
LEMMA NewtonStep == Inv /\ newtonLex => Inv'
  BY OperatorStep, DotStep, ProportionalityStep, GatherStep, ExponentStep, SignStep,
     QuoteStep, BlankStep, IncludeStep, LineStep, EndStep DEF newtonLex

-----------------------------------------------------------------------------
(* The lexer of Noisy *)

LEMMA NoisyPlaced == NoisyTypeOK => Placed
  BY DEF NoisyTypeOK, Placed

\* The types of the tokens it makes.
LEMMA NoisyTypes ==
    /\ {"reserved", "identifier", "boolConst", "integerConst", "realConst", "charConst",
        "stringConst", "bad", "badCharConst", "badStringConst", "dot", "eof"} \subseteq NoisyTokenTypes
    /\ NoisySingle \cup Operators \subseteq NoisyTokenTypes
    /\ \A c \in Operators : \A i \in DOMAIN Continuations(c) :
          SpellingOf(<<c>> \o Continuations(c)[i]) \in NoisyTokenTypes
  <1>1. \A c \in Operators : \A i \in DOMAIN Continuations(c) :
            SpellingOf(<<c>> \o Continuations(c)[i]) \in LongerTypes
    BY DEF LongerTypes
  <1>2. WordTypes \subseteq NoisyTokenTypes /\ NoisySingle \cup Operators \subseteq NoisyTokenTypes
        /\ LongerTypes \subseteq NoisyTokenTypes
    BY DEF NoisyTokenTypes
  <1> QED  BY <1>1, <1>2 DEF WordTypes

LEMMA TokenWithType ==
    ASSUME NEW type \in NoisyTokenTypes, NEW w \in Seq(Symbols)
    PROVE  TokenWith(type, w) \in NoisyToken
  BY DEF TokenWith, NoisyToken

LEMMA NoisyFinishedType ==
    ASSUME word \in Seq(Symbols)
    PROVE  NoisyFinished \in Seq(NoisyToken)
  <1>1. noisyMakeNumericConst(word) \in NoisyToken
    <2>1. noisyMakeNumericConst(word) = TokenWith(NumberType(word), word)
      BY DEF noisyMakeNumericConst
    <2> QED  BY <2>1, NumberTypes, TokenWithType, NoisyTypes
  <1>2. /\ TokenWith("boolConst", word) \in NoisyToken /\ TokenWith("reserved", word) \in NoisyToken
        /\ TokenWith("identifier", word) \in NoisyToken
    BY TokenWithType, NoisyTypes
  <1>3. NoisyTokenOf(word) \in NoisyToken
    BY <1>1, <1>2, Zenon DEF NoisyTokenOf
  <1> QED  BY <1>3 DEF NoisyFinished

\* A token behind the word in progress.
LEMMA NoisyEmitStep ==
    ASSUME NoisyTypeOK, NEW type \in NoisyTokenTypes, NEW w \in Seq(Symbols), NEW n \in Nat,
           NoisyEmit(TokenWith(type, w), n)
    PROVE  NoisyTypeOK'
  <1> DEFINE f == NoisyFinished
             o == <<TokenWith(type, w)>>
  <1>1. f \in Seq(NoisyToken) /\ o \in Seq(NoisyToken) /\ tokens' = tokens \o f \o o
    BY NoisyFinishedType, TokenWithType DEF NoisyTypeOK, NoisyEmit
  <1> HIDE DEF f, o
  <1>2. tokens' \in Seq(NoisyToken)
    BY <1>1 DEF NoisyTypeOK
  <1> QED  BY <1>2 DEF NoisyTypeOK, NoisyEmit

\* A character that joins the word.
LEMMA JoinStep == NoisyTypeOK /\ InLine /\ Join => NoisyTypeOK'
  <1> SUFFICES ASSUME NoisyTypeOK, InLine, Join PROVE NoisyTypeOK'
    OBVIOUS
  <1>1. cur \in Symbols
    <2>1. Line \in Seq(Symbols) /\ col \in Nat \ {0} /\ col <= Len(Line)
      BY NoisyPlaced, LineType DEF InLine, NoisyTypeOK
    <2> QED  BY <2>1 DEF cur, At
  <1> QED  BY <1>1 DEF Join, NoisyTypeOK

\* The operator under the cursor.
LEMMA OperatorEmitStep ==
    ASSUME NoisyTypeOK, cur \in Operators, EmitOperator
    PROVE  NoisyTypeOK'
  <1>1. \/ \E i \in DOMAIN Continuations(cur) :
              NoisyEmit(TokenWith(SpellingOf(<<cur>> \o Continuations(cur)[i]), <<>>),
                        1 + Len(Continuations(cur)[i]))
        \/ NoisyEmit(TokenWith(cur, <<>>), 1)
    BY DEF EmitOperator
  <1>2. <<>> \in Seq(Symbols)
    OBVIOUS
  <1>3. ASSUME NEW i \in DOMAIN Continuations(cur)
        PROVE  1 + Len(Continuations(cur)[i]) \in Nat
    <2>1. Len(Continuations(cur)[i]) \in {1, 2}
      BY <1>3 DEF Continuations, Operators, Equatable, Doubled
    <2> QED  BY <2>1
  <1> QED  BY <1>1, <1>2, <1>3, NoisyTypes, NoisyEmitStep

\* The handlers of operators.
LEMMA NoisyOperatorStep ==
    NoisyTypeOK /\ (checkWeq \/ checkGtLt \/ checkWeq3 \/ checkMinus) => NoisyTypeOK'
  <1>1. /\ Equatable \subseteq Operators /\ DOMAIN Doubled \subseteq Operators
        /\ {">", "<", "-"} \subseteq Operators
    BY DEF Operators
  <1> QED  BY <1>1, OperatorEmitStep, JoinStep DEF checkWeq, checkGtLt, checkWeq3, checkMinus

\* Separators, dots and the characters of words.
LEMMA NoisySeparatorStep ==
    NoisyTypeOK /\ (noisyCheckSingle \/ noisyCheckDot \/ noisyGather) => NoisyTypeOK'
  <1>1. <<>> \in Seq(Symbols) /\ 1 \in Nat
    OBVIOUS
  <1> QED  BY <1>1, NoisyTypes, NoisyEmitStep, JoinStep
           DEF noisyCheckSingle, noisyCheckDot, noisyGather

\* Quotes.
LEMMA NoisyQuoteStep ==
    NoisyTypeOK /\ (checkSingleQuote \/ noisyCheckDoubleQuote) => NoisyTypeOK'
  <1> SUFFICES ASSUME NoisyTypeOK, checkSingleQuote \/ noisyCheckDoubleQuote
               PROVE  NoisyTypeOK'
    OBVIOUS
  <1>1. Line \in Seq(Symbols) /\ col \in Nat \ {0} /\ col <= Len(Line)
    BY NoisyPlaced, LineType DEF checkSingleQuote, noisyCheckDoubleQuote, InLine, NoisyTypeOK
  <1>2. CASE checkSingleQuote
    <2> DEFINE w == IF col = Len(Line) THEN <<>> ELSE <<At(col + 1)>>
    <2>1. w \in Seq(Symbols)
      BY <1>1 DEF At
    <2>2. NoisyEmit(TokenWith("charConst", w), 3) \/ NoisyEmit(TokenWith("badCharConst", <<>>), 1)
      BY <1>2 DEF checkSingleQuote
    <2>3. <<>> \in Seq(Symbols)
      OBVIOUS
    <2> HIDE DEF w
    <2> QED  BY <2>1, <2>2, <2>3, NoisyTypes, NoisyEmitStep
  <1>3. CASE noisyCheckDoubleQuote
    <2>1. CASE \E q \in Closing(col) :
                  NoisyEmit(TokenWith("stringConst", SubSeq(Line, col + 1, q - 1)), q + 1 - col)
      <3>1. PICK q \in Closing(col) :
                  NoisyEmit(TokenWith("stringConst", SubSeq(Line, col + 1, q - 1)), q + 1 - col)
        BY <2>1
      <3>2. q \in (col + 1)..Len(Line)
        BY DEF Closing
      <3>3. SubSeq(Line, col + 1, q - 1) \in Seq(Symbols)
        BY <1>1, <3>2, SubSeqProperties, SubSeqEmpty
      <3>4. q + 1 - col \in Nat
        BY <1>1, <3>2
      <3> QED  BY <3>1, <3>3, <3>4, NoisyTypes, NoisyEmitStep
    <2>2. CASE NoisyEmit(TokenWith("badStringConst", <<>>), 0)
      <3>1. <<>> \in Seq(Symbols) /\ 0 \in Nat
        OBVIOUS
      <3> QED  BY <2>2, <3>1, NoisyTypes, NoisyEmitStep
    <2>3. CASE UNCHANGED <<files, open, col, word, negative, tokens, status>>
      BY <2>3 DEF NoisyTypeOK
    <2> QED  BY <1>3, <2>1, <2>2, <2>3 DEF noisyCheckDoubleQuote
  <1> QED  BY <1>2, <1>3

\* Blanks and comments.
LEMMA NoisyBlankStep ==
    NoisyTypeOK /\ (noisyWhite \/ noisyCheckComment) => NoisyTypeOK'
  <1> SUFFICES ASSUME NoisyTypeOK, noisyWhite \/ noisyCheckComment PROVE NoisyTypeOK'
    OBVIOUS
  <1> DEFINE f == NoisyFinished
  <1>1. f \in Seq(NoisyToken) /\ tokens' = tokens \o f
    BY NoisyFinishedType DEF NoisyTypeOK, noisyWhite, noisyCheckComment, noisyFinishToken
  <1> HIDE DEF f
  <1>2. tokens' \in Seq(NoisyToken)
    BY <1>1 DEF NoisyTypeOK
  <1>3. col' \in Nat \ {0}
    <2>1. Len(Line) \in Nat /\ col \in Nat \ {0}
      BY NoisyPlaced, LineType DEF noisyWhite, noisyCheckComment, InLine, NoisyTypeOK
    <2> QED  BY <2>1 DEF noisyWhite, noisyCheckComment
  <1>4. word' = <<>> /\ UNCHANGED <<files, open, negative, status>>
    BY DEF noisyWhite, noisyCheckComment, noisyFinishToken
  <1>5. word' \in Seq(Symbols)
    BY <1>4
  <1> QED  BY <1>2, <1>3, <1>4, <1>5 DEF NoisyTypeOK

\* Included files, and the ends of lines and files.
LEMMA NoisyFileStep ==
    NoisyTypeOK /\ (noisyInclude \/ nextLine \/ endOfFile) => NoisyTypeOK'
  <1> SUFFICES ASSUME NoisyTypeOK, noisyInclude \/ nextLine \/ endOfFile PROVE NoisyTypeOK'
    OBVIOUS
  <1>1. Placed'
    BY NoisyPlaced, IncludePlaced, LinePlaced, EndPlaced DEF noisyInclude
  <1>2. /\ word' \in {word, <<>>} /\ UNCHANGED negative
        /\ tokens' \in {tokens, Append(tokens, Operator("eof"))}
        /\ status' \in {status, "fatal", "done"}
    BY DEF noisyInclude, include, nextLine, endOfFile
  <1>3. Operator("eof") \in NoisyToken
    BY NoisyTypes DEF Operator, NoisyToken
  <1>4. tokens \in Seq(NoisyToken) /\ word \in Seq(Symbols) /\ negative = FALSE
        /\ status \in {"lexing", "done", "fatal"}
    BY DEF NoisyTypeOK
  <1> DEFINE eof == Operator("eof")
  <1>5. tokens' \in Seq(NoisyToken)
    <2>1. eof \in NoisyToken /\ (tokens' = tokens \/ tokens' = Append(tokens, eof))
      BY <1>2, <1>3
    <2> HIDE DEF eof
    <2> QED  BY <1>4, <2>1
  <1>6. word' \in Seq(Symbols) /\ negative' = FALSE
    <2>1. (word' = word \/ word' = <<>>) /\ negative' = negative
      BY <1>2
    <2>2. <<>> \in Seq(Symbols)
      OBVIOUS
    <2> QED  BY <1>4, <2>1, <2>2
  <1>7. status' \in {"lexing", "done", "fatal"}
    <2>1. status' = status \/ status' = "fatal" \/ status' = "done"
      BY <1>2
    <2> QED  BY <1>4, <2>1
  <1> QED  BY <1>1, <1>5, <1>6, <1>7 DEF NoisyTypeOK, Placed

\* Every handler of Noisy keeps the types.
LEMMA NoisyStep == NoisyTypeOK /\ noisyLex => NoisyTypeOK'
  BY NoisyOperatorStep, NoisySeparatorStep, NoisyQuoteStep, NoisyBlankStep, NoisyFileStep
  DEF noisyLex

LEMMA NoisyInit == noisyLexInit => NoisyTypeOK
  <1> SUFFICES ASSUME noisyLexInit PROVE NoisyTypeOK
    OBVIOUS
  <1>1. "main" \in DOMAIN files /\ files \in [DOMAIN files -> Seq(Seq(Symbols))]
    BY NoisyAssumption DEF noisyLexInit
  <1>2. open \in Seq([file : DOMAIN files, row : Nat \ {0}]) /\ open # <<>>
    BY <1>1 DEF noisyLexInit
  <1>3. tokens = <<>> /\ word = <<>> /\ col = 1 /\ negative = FALSE /\ status = "lexing"
    BY DEF noisyLexInit
  <1>4. tokens \in Seq(NoisyToken) /\ word \in Seq(Symbols) /\ col \in Nat \ {0}
    BY <1>3
  <1>5. status \in {"lexing", "done", "fatal"}
    BY <1>3, Zenon
  <1> QED  BY <1>1, <1>2, <1>3, <1>4, <1>5, Zenon DEF NoisyTypeOK

-----------------------------------------------------------------------------
(* The two together *)

Lexed == /\ language \in {"newton", "noisy"}
         /\ IF newton THEN Inv ELSE NoisyTypeOK

LEMMA InitLexed == Init => Lexed
  BY InitInv, NoisyInit DEF Init, Lexed, newton

LEMMA LexedStep == Lexed /\ [Next]_vars => Lexed'
  <1> SUFFICES ASSUME Lexed, [Next]_vars PROVE Lexed'
    OBVIOUS
  <1>1. CASE UNCHANGED vars
    <2>1. CASE newton
      <3>1. Inv'
        BY <1>1, <2>1 DEF vars, Lexed, Inv, NewtonTypeOK, SignConsumed, NoLoneSign, InLine, Lexing,
                          Lines, Line, Row, cur, At
      <3> QED  BY <1>1, <2>1, <3>1 DEF vars, Lexed, newton
    <2>2. CASE ~newton
      <3>1. NoisyTypeOK'
        BY <1>1, <2>2 DEF vars, Lexed, NoisyTypeOK
      <3> QED  BY <1>1, <2>2, <3>1 DEF vars, Lexed, newton
    <2> QED  BY <2>1, <2>2
  <1>2. CASE newton /\ newtonLex /\ UNCHANGED language
    BY <1>2, NewtonStep DEF Lexed, newton
  <1>3. CASE ~newton /\ noisyLex /\ UNCHANGED language
    BY <1>3, NoisyStep DEF Lexed, newton
  <1> QED  BY <1>1, <1>2, <1>3 DEF Next

(* For every text: the lexers keep the types of their state.               *)
THEOREM LexerTypeCorrect == Spec => []TypeOK
  <1>1. Lexed => TypeOK
    BY DEF Lexed, TypeOK, Inv
  <1> QED  BY <1>1, InitLexed, LexedStep, PTL DEF Spec

(* For every text no file of which ends in a line that is a lone sign: a   *)
(* sign belongs to the number written right after it, never to one further *)
(* on.                                                                     *)
THEOREM SignNeverTravels == Spec => []SignConsumed
  <1>1. Lexed => SignConsumed
    BY DEF Lexed, NoisyTypeOK, Inv, SignConsumed
  <1> QED  BY <1>1, InitLexed, LexedStep, PTL DEF Spec

=============================================================================
