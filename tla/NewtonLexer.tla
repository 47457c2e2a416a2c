---------------------------- MODULE NewtonLexer ----------------------------
(***************************************************************************)
(* The lexer of Newton descriptions, src/newton/newton-lexer.c, one step   *)
(* per turn of its character loop.  A text is a sequence of symbols.  A    *)
(* symbol is an operator or separator character, a letter o, e or r, on    *)
(* which the code looks twice, a run of digits, or a run of other letters: *)
(* the lexer treats the characters inside such a run alike.  (Of the       *)
(* hexadecimal letters only e is told apart from the others.)              *)
(***************************************************************************)
EXTENDS Integers, Sequences, SequencesExt

CONSTANTS Symbols,      \* what a line consists of, quoted file names included
          Digits,       \* symbols that stand for runs of digits
          Letters,      \* symbols that stand for runs of letters other than o, e
          Reserved,     \* the words of gNewtonTokenDescriptions
          Sources       \* the inputs: functions from file names to lines

VARIABLES files,        \* the file system: file name -> sequence of lines
          open,         \* the files being read, innermost last: [file, row]
          col,          \* columnNumber
          word,         \* currentToken
          negative,     \* gMakeNextTokenNegative
          tokens,       \* tokenList
          status

-----------------------------------------------------------------------------
(* Characters *)

Quote  == "\""
Blanks == {" ", "\n"}
Single == {"~", "(", ")", "{", "}", "[", "]", "|", "%", "/", ",", ";", "@"}
Paired == {"+", "-", "*", "=", ">", "<", ":", "."}
Ordinary == Digits \cup Letters \cup {"e"}
Nul == "nul"

TokenTypes == Single \cup Paired \cup {"reserved", "identifier", "integerConst", "realConst",
                  "stringConst", "bad", "badStringConst", ":=", "==", "**", "<->", "<<", "<=",
                  ">>", ">=", "dot", "o<", "->", "eof"}
Token == [type : TokenTypes, word : Seq(Symbols), negative : BOOLEAN]

ASSUME SymbolsAssumption ==
    /\ Digits \cap Letters = {}
    /\ Digits \cap (Single \cup Paired \cup Blanks \cup {"o", "e", "include", "#", Quote, Nul}) = {}
    /\ \A w \in Reserved : w # <<>> /\ w[1] \notin Digits
    /\ \A s \in Sources : /\ "main" \in DOMAIN s
                        /\ s \in [DOMAIN s -> Seq(Seq(Symbols))]

(* The line under the cursor; lookahead past its end sees the terminator. *)
Row   == Last(open).row
Lines == files[Last(open).file]
Line  == Lines[Row]
At(k) == IF k \in 1..Len(Line) THEN Line[k] ELSE Nul
cur   == At(col)

NewtonTypeOK ==
          /\ "main" \in DOMAIN files /\ files \in [DOMAIN files -> Seq(Seq(Symbols))]
          /\ open \in Seq([file : DOMAIN files, row : Nat \ {0}]) /\ open # <<>>
          /\ col \in Nat \ {0}
          /\ word \in Seq(Symbols)
          /\ negative \in BOOLEAN
          /\ tokens \in Seq(Token)
          /\ status \in {"lexing", "done", "fatal"}

(* isDecimal holds of the empty string as well. *)
isDecimal(w) == \A i \in DOMAIN w : w[i] \in Digits \cup {"+", "-"}
DecimalsAround(c, w) ==
    \E i \in DOMAIN w : /\ w[i] = c
                        /\ \A j \in 1..(i - 1) : w[j] # c
                        /\ isDecimal(SubSeq(w, 1, i - 1))
                        /\ isDecimal(SubSeq(w, i + 1, Len(w)))
isRealConst(w) == DecimalsAround(".", w)
DecimalsOrRealsAround(c, w) ==
    \E i \in DOMAIN w :
        /\ w[i] = c
        /\ \A j \in 1..(i - 1) : w[j] # c
        /\ \A s \in {SubSeq(w, 1, i - 1), SubSeq(w, i + 1, Len(w))} :
               isDecimal(s) \/ isRealConst(s)
isEngineeringRealConst(w) == DecimalsOrRealsAround("e", w)

(* Decimals around the first r, the second of them hexadecimal.            *)
isRadixConst(w) ==
    \E i \in DOMAIN w :
        /\ w[i] = "r" /\ \A j \in 1..(i - 1) : w[j] # "r"
        /\ isDecimal(SubSeq(w, 1, i - 1))
        /\ \/ isDecimal(SubSeq(w, i + 1, Len(w)))
           \/ \A j \in (i + 1)..Len(w) : w[j] \in Digits \cup {"e"}

-----------------------------------------------------------------------------
(* Tokens *)

Operator(type) == [type |-> type, word |-> <<>>, negative |-> FALSE]

StartsNumber(w) == w \notin Reserved /\ w # <<>> /\ w[1] \in Digits

(* What makeNumericConst takes a word for, the same in both lexers.        *)
NumberType(w) ==
    IF w[1] = "0" /\ Len(w) > 1 /\ w[2] # "." THEN "bad"
    ELSE IF isEngineeringRealConst(w) \/ isRealConst(w) THEN "realConst"
    ELSE IF isRadixConst(w) \/ isDecimal(w) THEN "integerConst" ELSE "bad"

makeNumericConst(w, sign) ==
    [type |-> NumberType(w), word |-> w, negative |-> sign /\ w # <<"0">>]

TokenOf(w, sign) ==
    IF w \in Reserved THEN [type |-> "reserved", word |-> w, negative |-> FALSE]
    ELSE IF StartsNumber(w) THEN makeNumericConst(w, sign)
    ELSE [type |-> "identifier", word |-> w, negative |-> FALSE]

(* finishToken: the word read so far becomes a token; a number takes the   *)
(* sign the flag holds, and clears the flag.                               *)
Include == <<"include">>
Finished(w, sign) == IF w = <<>> THEN <<>> ELSE <<TokenOf(w, sign)>>

(* Mutant: the flag is not cleared.                                        *)
FlagAfter_Kept(w, sign) == sign
FlagAfter(w, sign) == sign /\ ~StartsNumber(w)

finishToken ==
    /\ word # Include
    /\ tokens' = tokens \o Finished(word, negative)
    /\ negative' = FlagAfter(word, negative)
    /\ word' = <<>>

(* finishToken, gobble(n) and done: the word, then the operator. *)
Emit(type, n) ==
    /\ word # Include
    /\ tokens' = tokens \o Finished(word, negative) \o <<Operator(type)>>
    /\ negative' = FlagAfter(word, negative)
    /\ word' = <<>>
    /\ col' = col + n
-----------------------------------------------------------------------------
(* The handlers of newtonLex, one per kind of character *)

Lexing == status = "lexing" /\ Row <= Len(Lines)
InLine == Lexing /\ col <= Len(Line)

newtonLexInit ==
    /\ files \in Sources
    /\ open = <<[file |-> "main", row |-> 1]>>
    /\ col = 1 /\ word = <<>> /\ negative = FALSE /\ tokens = <<>>
    /\ status = "lexing"

checkSingle == InLine /\ cur \in Single /\ Emit(cur, 1)
               /\ UNCHANGED <<files, open, status>>

(* checkColon, checkEqual and checkMul: a pair of characters or the first. *)
Second == [c \in {":", "=", "*"} |-> IF c = "*" THEN "*" ELSE "="]
PairOf == [c \in {":", "=", "*"} |-> IF c = "*" THEN "**" ELSE IF c = "=" THEN "==" ELSE ":="]
checkColon == /\ InLine /\ cur \in DOMAIN Second
              /\ IF At(col + 1) = Second[cur] THEN Emit(PairOf[cur], 2) ELSE Emit(cur, 1)
              /\ UNCHANGED <<files, open, status>>

checkLt == /\ InLine /\ cur = "<"
           /\ IF At(col + 1) = "-" /\ At(col + 2) = ">" THEN Emit("<->", 3)
              ELSE IF At(col + 1) = "<" THEN Emit("<<", 2)
              ELSE IF At(col + 1) = "=" THEN Emit("<=", 2)
              ELSE Emit("<", 1)
           /\ UNCHANGED <<files, open, status>>

(* checkGt: the branch of "><" gobbles two characters and does not end the *)
(* chain of tests, which goes on from the character after them.            *)
checkGt ==
    LET skip == IF At(col + 1) = "<" THEN 2 ELSE 0
    IN  /\ InLine /\ cur = ">"
        /\ IF At(col + skip + 1) = ">" THEN Emit(">>", skip + 2)
           ELSE IF At(col + skip + 1) = "=" THEN Emit(">=", skip + 2)
           ELSE Emit(">", skip + 1)
        /\ UNCHANGED <<files, open, status>>

(* checkDot: a decimal so far goes on with the dot; so does an empty word. *)
checkDot == /\ InLine /\ cur = "."
            /\ IF isDecimal(word)
               THEN /\ word' = Append(word, ".") /\ col' = col + 1
                    /\ UNCHANGED <<tokens, negative>>
               ELSE Emit("dot", 1)
            /\ UNCHANGED <<files, open, status>>

(* checkProportionality: an o before a < is taken for the operator o<.     *)
checkProportionality ==
    /\ InLine /\ cur = "o"
    /\ IF At(col + 1) = "<" THEN Emit("o<", 2)
       ELSE word' = Append(word, "o") /\ col' = col + 1 /\ UNCHANGED <<tokens, negative>>
    /\ UNCHANGED <<files, open, status>>

gather == /\ InLine /\ cur \in Ordinary \cup {"include"}
          /\ word' = Append(word, cur) /\ col' = col + 1
          /\ UNCHANGED <<files, open, tokens, negative, status>>

(* checkPlusMinus: the arrow, the sign of an exponent, the operator, or    *)
(* the sign of a number.  The sign of an exponent takes its digits along   *)
(* and drops the character after them.  The sign of a number sets the flag *)
(* before the word in front of it is finished, and again afterwards.  The  *)
(* test for the operator asks for a line of two characters.  On a line of  *)
(* one, which can only be the last of a file without a newline at its end, *)
(* a plus or a minus makes no token: it is taken for the sign of a number, *)
(* and the flag waits for the next one, past the end of an included file.  *)
checkArrow == /\ InLine /\ cur = "-" /\ At(col + 1) = ">"
              /\ Emit("->", 2)
              /\ UNCHANGED <<files, open, status>>

IsArrow == cur = "-" /\ At(col + 1) = ">"
InExponent == At(col - 2) \in Digits /\ At(col - 1) = "e"
SignsNumber == Len(Line) < 2 \/ At(col + 1) \in Digits

checkExponentSign ==
    /\ InLine /\ cur \in {"+", "-"} /\ ~IsArrow /\ InExponent
    /\ \E n \in 0..Len(Line) :
          LET w == word \o SubSeq(Line, col, col + n)
          IN  /\ \A i \in 1..n : At(col + i) \in Digits
              /\ At(col + n + 1) \notin Digits
              /\ tokens' = tokens \o Finished(w, negative)
              /\ negative' = FlagAfter(w, negative)
              /\ word' = <<>>
              /\ col' = col + n + 2
    /\ UNCHANGED <<files, open, status>>

checkPlusMinus ==
    /\ InLine /\ cur \in {"+", "-"} /\ ~IsArrow /\ ~InExponent
    /\ ~SignsNumber
    /\ Emit(cur, 1)
    /\ UNCHANGED <<files, open, status>>

checkSign ==
    /\ InLine /\ cur \in {"+", "-"} /\ ~IsArrow /\ ~InExponent
    /\ SignsNumber
    /\ word # Include
    /\ tokens' = tokens \o Finished(word, cur = "-")
    /\ negative' = TRUE
    /\ word' = <<>>
    /\ col' = col + 1
    /\ UNCHANGED <<files, open, status>>

(* checkDoubleQuote: up to the closing quote.  When there is none on the   *)
(* line a bad token is appended and the cursor stays on the quote; the     *)
(* endless tokens that follow are one token here.                          *)
Closing(k) == {i \in (k + 1)..Len(Line) :
                   Line[i] = Quote /\ \A j \in (k + 1)..(i - 1) : Line[j] # Quote}
checkDoubleQuote ==
    /\ InLine /\ cur = Quote /\ word # Include
    /\ negative' = FlagAfter(word, negative)
    /\ word' = <<>>
    /\ \/ \E q \in Closing(col) :
             /\ tokens' = tokens \o Finished(word, negative)
                   \o <<[type |-> "stringConst", word |-> SubSeq(Line, col + 1, q - 1),
                         negative |-> FALSE]>>
             /\ col' = q + 1
       \/ /\ Closing(col) = {}
          /\ tokens' = IF tokens # <<>> /\ Last(tokens) = Operator("badStringConst")
                       THEN tokens
                       ELSE tokens \o Finished(word, negative)
                                   \o <<Operator("badStringConst")>>
          /\ UNCHANGED col
    /\ UNCHANGED <<files, open, status>>

(* checkComment finishes the word and leaves the rest of the line out.     *)
(* Mutant: the cursor stays on the number sign.                            *)
checkComment_Stays == /\ InLine /\ cur = "#" /\ finishToken
                      /\ UNCHANGED <<files, open, col, status>>
checkComment == /\ InLine /\ cur = "#" /\ finishToken
                /\ col' = Len(Line) + 1
                /\ UNCHANGED <<files, open, status>>

white == /\ InLine /\ cur \in Blanks /\ finishToken
         /\ col' = col + 1
         /\ UNCHANGED <<files, open, status>>

(* An include statement: the name after it is read between quotes, without *)
(* a look at the opening one, and the file is lexed in place.  A name that *)
(* opens no file ends the program.  So does, here, an include that is not  *)
(* followed by a blank: what its handler does with the line that the       *)
(* included file has replaced is left out, and no input has one.           *)
include ==
    /\ InLine /\ word = Include
    /\ cur \notin Ordinary /\ (cur = "o" => At(col + 1) = "<")
    /\ \/ \E f \in DOMAIN files, q \in Closing(col + 1) :
             /\ cur \in Blanks /\ SubSeq(Line, col + 2, q - 1) = <<f>>
             /\ open' = Append(open, [file |-> f, row |-> 1])
             /\ col' = 1
             /\ UNCHANGED status
       \/ /\ ~ \E f \in DOMAIN files, q \in Closing(col + 1) :
                cur \in Blanks /\ SubSeq(Line, col + 2, q - 1) = <<f>>
          /\ status' = "fatal"
          /\ UNCHANGED <<open, col>>
    /\ word' = <<>>
    /\ UNCHANGED <<files, tokens, negative>>

(* getline: the next line; the word goes on across the end of a line that  *)
(* has no newline.                                                         *)
(* Mutant: columns are counted from zero.                                  *)
nextLine_Column == /\ Lexing /\ col > Len(Line)
                   /\ open' = [open EXCEPT ![Len(open)].row = @ + 1]
                   /\ col' = 0
                   /\ UNCHANGED <<files, word, negative, tokens, status>>
nextLine == /\ Lexing /\ col > Len(Line)
            /\ open' = [open EXCEPT ![Len(open)].row = @ + 1]
            /\ col' = 1
            /\ UNCHANGED <<files, word, negative, tokens, status>>

(* The end of an included file resumes its includer on the line after the  *)
(* include; the end of the input appends the end token, whatever the word. *)
endOfFile ==
    /\ status = "lexing" /\ Row > Len(Lines)
    /\ IF Len(open) > 1
       THEN /\ open' = [Front(open) EXCEPT ![Len(open) - 1].row = @ + 1]
            /\ col' = 1 /\ UNCHANGED <<tokens, status>>
       ELSE /\ tokens' = Append(tokens, Operator("eof"))
            /\ status' = "done" /\ UNCHANGED <<open, col>>
    /\ UNCHANGED <<files, word, negative>>

newtonLex == \/ checkSingle \/ checkColon \/ checkLt \/ checkGt \/ checkDot
             \/ checkProportionality \/ gather \/ checkArrow \/ checkExponentSign
             \/ checkPlusMinus \/ checkSign \/ checkDoubleQuote \/ checkComment
             \/ white \/ include \/ nextLine \/ endOfFile


=============================================================================
