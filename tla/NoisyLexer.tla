----------------------------- MODULE NoisyLexer -----------------------------
(***************************************************************************)
(* The lexer of Noisy programs, src/noisy/noisy-lexer.c, one step per turn *)
(* of its character loop.  It has the state, the cursor, the numbers and   *)
(* the included files of the lexer of Newton, and no signed numbers: the   *)
(* flag stays down.  A symbol other than a keyword is one character here.  *)
(***************************************************************************)
EXTENDS NewtonLexer

CONSTANTS NoisyReserved,  \* the words of gNoisyTokenDescriptions
          NoisySources,   \* as Sources
          Truths          \* the words true and false

-----------------------------------------------------------------------------
(* Tokens *)

Apostrophe == "'"
NoisySingle == {"~", "(", ")", ";", "{", "}", "[", "]", ","}
Equatable == {"!", "%", "^", "*", "/"}
Doubled   == [c \in {"&", "|", ":", "+", "="} |-> IF c = "=" THEN ">" ELSE c]
NoisyOrdinary == Ordinary \cup {"o"}

(* What the handler of an operator looks for behind the character under    *)
(* the cursor, in this order; the type of the token that each makes.       *)
Continuations(c) ==
    CASE c \in Equatable -> <<<<"=">>>>
      [] c \in DOMAIN Doubled -> <<<<"=">>, <<Doubled[c]>>>>
      [] c = ">" -> <<<<"=">>, <<">", "=">>, <<">">>>>
      [] c = "<" -> <<<<"=">>, <<"<", "=">>, <<"-", "=">>, <<"<">>, <<"-">>>>
      [] c = "-" -> <<<<"=">>, <<"-">>, <<">">>>>
Operators == Equatable \cup DOMAIN Doubled \cup {">", "<", "-"}
SpellingOf(w) == CASE Len(w) = 1 -> w[1]
                   [] Len(w) = 2 -> w[1] \o w[2]
                   [] Len(w) = 3 -> w[1] \o w[2] \o w[3]

LongerTypes ==
    UNION {{SpellingOf(<<c>> \o Continuations(c)[i]) : i \in DOMAIN Continuations(c)} : c \in Operators}
WordTypes ==
    {"reserved", "identifier", "boolConst", "integerConst", "realConst", "charConst",
     "stringConst", "bad", "badCharConst", "badStringConst", "dot", "eof"}
NoisyTokenTypes == NoisySingle \cup Operators \cup LongerTypes \cup WordTypes
NoisyToken == [type : NoisyTokenTypes, word : Seq(Symbols), negative : {FALSE}]
TokenWith(type, w) == [type |-> type, word |-> w, negative |-> FALSE]

NoisyTypeOK ==
    /\ "main" \in DOMAIN files /\ files \in [DOMAIN files -> Seq(Seq(Symbols))]
    /\ open \in Seq([file : DOMAIN files, row : Nat \ {0}]) /\ open # <<>>
    /\ col \in Nat \ {0}
    /\ word \in Seq(Symbols)
    /\ negative = FALSE
    /\ tokens \in Seq(NoisyToken)
    /\ status \in {"lexing", "done", "fatal"}

ASSUME NoisyAssumption ==
    \A s \in NoisySources : "main" \in DOMAIN s /\ s \in [DOMAIN s -> Seq(Seq(Symbols))]

noisyMakeNumericConst(w) == TokenWith(NumberType(w), w)

NoisyTokenOf(w) == IF w \in Truths THEN TokenWith("boolConst", w)
                   ELSE IF w \in NoisyReserved THEN TokenWith("reserved", w)
                   ELSE IF w[1] \in Digits THEN noisyMakeNumericConst(w)
                   ELSE TokenWith("identifier", w)
NoisyFinished == IF word = <<>> THEN <<>> ELSE <<NoisyTokenOf(word)>>

noisyFinishToken == /\ word # Include
                    /\ tokens' = tokens \o NoisyFinished
                    /\ word' = <<>>

(* finishToken, gobble(n) and done: the word, then another token.          *)
NoisyEmit(token, n) == /\ word # Include
                       /\ tokens' = tokens \o NoisyFinished \o <<token>>
                       /\ word' = <<>>
                       /\ col' = col + n
                       /\ UNCHANGED <<files, open, negative, status>>

(* The operator under the cursor: the first continuation that is there.    *)
EmitOperator ==
    LET c == Continuations(cur)
        Fits(i) == \A k \in DOMAIN c[i] : At(col + k) = c[i][k]
    IN  \/ \E i \in DOMAIN c :
              /\ Fits(i) /\ \A j \in 1..(i - 1) : ~Fits(j)
              /\ NoisyEmit(TokenWith(SpellingOf(<<cur>> \o c[i]), <<>>), 1 + Len(c[i]))
        \/ (\A i \in DOMAIN c : ~Fits(i)) /\ NoisyEmit(TokenWith(cur, <<>>), 1)

(* The character under the cursor joins the word.                          *)
Join == /\ word' = Append(word, cur) /\ col' = col + 1
        /\ UNCHANGED <<files, open, negative, tokens, status>>

-----------------------------------------------------------------------------
(* The handlers of noisyLex, one per kind of character *)

noisyLexInit ==
    /\ files \in NoisySources
    /\ open = <<[file |-> "main", row |-> 1]>>
    /\ col = 1 /\ word = <<>> /\ negative = FALSE /\ tokens = <<>>
    /\ status = "lexing"

noisyCheckSingle == InLine /\ cur \in NoisySingle /\ NoisyEmit(TokenWith(cur, <<>>), 1)
checkWeq == InLine /\ cur \in Equatable /\ EmitOperator
checkGtLt == InLine /\ cur \in {">", "<"} /\ EmitOperator

(* A plus or a minus behind the e of a number goes on with the number when *)
(* what is before the e has a dot.                                         *)
(* Mutant: whatever is before the e.                                       *)
InRealExponent_Word(w) == w # <<>> /\ Last(w) = "e"
InRealExponent(w) ==
    /\ w # <<>> /\ Last(w) = "e"
    /\ \E i \in DOMAIN w : /\ w[i] = "e" /\ \A j \in 1..(i - 1) : w[j] # "e"
                           /\ DecimalsOrRealsAround(".", SubSeq(w, 1, i - 1))

checkWeq3  == /\ InLine /\ cur \in DOMAIN Doubled
              /\ IF cur = "+" /\ InRealExponent(word) THEN Join ELSE EmitOperator
checkMinus == /\ InLine /\ cur = "-"
              /\ IF InRealExponent(word) THEN Join ELSE EmitOperator

noisyCheckDot == /\ InLine /\ cur = "."
                 /\ IF isDecimal(word) THEN Join ELSE NoisyEmit(TokenWith("dot", <<>>), 1)

(* checkSingleQuote: one character up to the closing quote, or a bad token *)
(* and the cursor behind the opening quote.  What it compares with on the  *)
(* last character of a line without a newline is behind the terminator,    *)
(* and may be anything.                                                    *)
checkSingleQuote ==
    /\ InLine /\ cur = Apostrophe
    /\ \/ /\ Len(Line) >= 3 /\ (At(col + 2) = Apostrophe \/ col = Len(Line))
          /\ NoisyEmit(TokenWith("charConst", IF col = Len(Line) THEN <<>> ELSE <<At(col + 1)>>), 3)
       \/ /\ At(col + 2) # Apostrophe
          /\ NoisyEmit(TokenWith("badCharConst", <<>>), 1)

(* checkDoubleQuote: the endless bad tokens of a quote that is not closed  *)
(* are one token, as in NewtonLexer.                                       *)
noisyCheckDoubleQuote ==
    LET bad == TokenWith("badStringConst", <<>>)
    IN  /\ InLine /\ cur = Quote
        /\ \/ \E q \in Closing(col) :
                 NoisyEmit(TokenWith("stringConst", SubSeq(Line, col + 1, q - 1)), q + 1 - col)
           \/ /\ Closing(col) = {}
              /\ IF tokens # <<>> /\ Last(tokens) = bad
                 THEN UNCHANGED <<files, open, col, word, negative, tokens, status>>
                 ELSE NoisyEmit(bad, 0)

noisyCheckComment == /\ InLine /\ cur = "#" /\ noisyFinishToken
                     /\ col' = Len(Line) + 1
                     /\ UNCHANGED <<files, open, negative, status>>

noisyWhite == /\ InLine /\ cur \in Blanks /\ noisyFinishToken
              /\ col' = col + 1
              /\ UNCHANGED <<files, open, negative, status>>

noisyGather == InLine /\ cur \in NoisyOrdinary \cup {"include"} /\ Join

(* The included files, the lines and the ends of files are those of        *)
(* NewtonLexer; the two functions read them alike.                         *)
noisyInclude == InLine /\ cur # "o" /\ include

noisyLex == \/ noisyCheckSingle \/ checkWeq \/ checkGtLt \/ checkWeq3 \/ checkMinus
            \/ noisyCheckDot \/ checkSingleQuote \/ noisyCheckDoubleQuote
            \/ noisyCheckComment \/ noisyWhite \/ noisyGather
            \/ noisyInclude \/ nextLine \/ endOfFile

=============================================================================
