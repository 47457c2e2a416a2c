------------------------------- MODULE Lexers -------------------------------
(***************************************************************************)
(* The two lexers side by side, each against one reference: the tokens of  *)
(* a text are what longest match gives.                                    *)
(***************************************************************************)
EXTENDS NoisyLexer, FiniteSets

VARIABLE language

vars == <<language, files, open, col, word, negative, tokens, status>>

newton == language = "newton"

Init == \/ language = "newton" /\ newtonLexInit
        \/ language = "noisy" /\ noisyLexInit
Next == /\ \/ newton /\ newtonLex
           \/ ~newton /\ noisyLex
        /\ UNCHANGED language
Spec == Init /\ [][Next]_vars /\ WF_vars(Next)

TypeOK == /\ language \in {"newton", "noisy"}
          /\ IF newton THEN NewtonTypeOK ELSE NoisyTypeOK

(* No file ends in a line that is a plus or a minus and no newline: such a *)
(* sign goes to a number further on, of the including file if there is one *)
(* (newton-lexer.c:1043), and not to the constant that begins behind it,   *)
(* as the comment at 1050 has it.                                          *)
NoLoneSign == \A f \in DOMAIN files : \A r \in DOMAIN files[f] :
                  files[f][r] \notin {<<"+">>, <<"-">>}

(* While the flag is set, its number is under the cursor or being read: a  *)
(* sign reaches no number further on, whatever blanks, comments, line ends *)
(* or included files come between.  The exception is a file that ends in a *)
(* lone sign.                                                              *)
SignConsumed ==
    NoLoneSign /\ negative
    => \/ word = <<>> /\ InLine /\ cur \in Digits
       \/ word # <<>> /\ word[1] \in Digits

-----------------------------------------------------------------------------
(* The symbols read, the included files in place of the include lines,     *)
(* whose rest is left out.                                                 *)
textFrom[at \in (DOMAIN files) \X (Nat \ {0})] ==
    LET rows == files[at[1]]
        line == rows[at[2]]
        includes == {i \in DOMAIN line : line[i] = "include" /\ line[i + 3] \in DOMAIN files}
    IN  IF at[2] > Len(rows) THEN <<>>
        ELSE (IF includes = {} THEN line
              ELSE LET i == CHOOSE i \in includes : TRUE
                   IN  SubSeq(line, 1, i - 1) \o textFrom[<<line[i + 3], 1>>])
             \o textFrom[<<at[1], at[2] + 1>>]

Text == textFrom[<<"main", 1>>]

-----------------------------------------------------------------------------
(* Longest match *)

WordSymbols == Ordinary \cup {"o"}
NewtonSpellings ==
    {<<c>> : c \in Single \cup (Paired \ {"."})}
    \cup {<<"<", "-", ">">>, <<"<", "<">>, <<"<", "=">>, <<">", "<">>, <<">", ">">>,
          <<">", "=">>, <<":", "=">>, <<"=", "=">>, <<"*", "*">>, <<"-", ">">>, <<"o", "<">>}
NoisySpellings ==
    {<<c>> : c \in NoisySingle \cup Operators}
    \cup {<<c, "=">> : c \in Operators} \cup {<<c, c>> : c \in {"&", "|", ":", "+", "-", ">", "<"}}
    \cup {<<"=", ">">>, <<"-", ">">>, <<"<", "-">>, <<">", ">", "=">>, <<"<", "<", "=">>, <<"<", "-", "=">>}
Spellings == IF newton THEN NewtonSpellings ELSE NoisySpellings

IsWord(w) == w # <<>> /\ \A i \in DOMAIN w : w[i] \in WordSymbols
IsNumber(w) == \E k \in 2..Len(w) :
                   /\ w[k] = "." /\ \A i \in 1..(k - 1) : w[i] \in Digits
                   /\ \A i \in (k + 1)..Len(w) : w[i] \in WordSymbols
IsExponent(w, Behind) ==
    \E k \in 2..(Len(w) - 1) :
        /\ w[1] \in Digits /\ w[k] = "e" /\ w[k + 1] \in {"+", "-"}
        /\ IsWord(SubSeq(w, 1, k)) \/ IsNumber(SubSeq(w, 1, k))
        /\ \A i \in (k + 2)..Len(w) : w[i] \in Behind
IsSignedExponent(w) == /\ IsExponent(w, IF newton THEN Digits ELSE WordSymbols)
                       /\ newton => Last(w) \in Digits
IsSigned(w) == /\ newton /\ Len(w) > 1 /\ w[1] \in {"+", "-"} /\ w[2] \in Digits
               /\ LET n == Tail(w) IN IsWord(n) \/ IsNumber(n) \/ IsSignedExponent(n)
IsString(w) == Len(w) > 1 /\ w[1] = Quote /\ Last(w) = Quote
               /\ \A i \in 2..(Len(w) - 1) : w[i] # Quote
IsChar(w) == ~newton /\ Len(w) = 3 /\ w[1] = Apostrophe /\ w[3] = Apostrophe /\ w[2] # "\n"
IsComment(w) == w[1] = "#" /\ \A i \in DOMAIN w : w[i] # "\n"
IsBlank(w) == Len(w) = 1 /\ w[1] \in Blanks

Legal(w) == \/ w \in Spellings \/ w = <<".">> \/ IsWord(w) \/ IsNumber(w)
            \/ IsSignedExponent(w) \/ IsSigned(w) \/ IsString(w) \/ IsChar(w)
            \/ IsComment(w) \/ IsBlank(w) \/ (~newton /\ w = <<Apostrophe>>)

Plain(w) == IF newton THEN TokenOf(w, FALSE) ELSE NoisyTokenOf(w)
TokensOf(w) ==
    IF IsBlank(w) \/ IsComment(w) THEN <<>>
    ELSE IF w = <<".">> THEN <<Operator("dot")>>
    ELSE IF w \in Spellings THEN <<Operator(SpellingOf(w))>>
    ELSE IF IsString(w) THEN <<TokenWith("stringConst", SubSeq(w, 2, Len(w) - 1))>>
    ELSE IF IsChar(w) THEN <<TokenWith("charConst", <<w[2]>>)>>
    ELSE IF w = <<Apostrophe>> THEN <<TokenWith("badCharConst", <<>>)>>
    ELSE IF IsSigned(w) THEN <<TokenOf(Tail(w), w[1] = "-")>>
    ELSE <<Plain(w)>>

LongestMatch(t) ==
    LET match[k \in 1..(Len(t) + 1)] ==
            LET ends == {j \in k..Len(t) : Legal(SubSeq(t, k, j))}
                j == CHOOSE j \in ends : \A i \in ends : i <= j
            IN  IF k > Len(t) THEN <<Operator("eof")>>
                ELSE TokensOf(SubSeq(t, k, j)) \o match[j + 1]
    IN  match[1]

-----------------------------------------------------------------------------
(* What a text must keep clear of for the lexer to give the longest match. *)
(* Each names a disagreement with a comment or the grammar.                *)

Next2(t, c, d) == \E i \in 1..(Len(t) - 1) : t[i] \in c /\ t[i + 1] \in d
InNumber(t, i) == \E k \in 1..i : /\ t[k] \in Digits /\ (k = 1 \/ t[k - 1] \notin WordSymbols)
                                  /\ \A j \in k..i : t[j] \in WordSymbols \cup {"."}

NoPlusSign(t) == \A i \in 1..(Len(t) - 1) :
    t[i] = "+" /\ t[i + 1] \in Digits => i > 2 /\ t[i - 2] \in Digits /\ t[i - 1] = "e"
NoSignAfterNumber(t) ==
    \A i \in 1..(Len(t) - 2) :
        InNumber(t, i) /\ t[i + 1] = "-" /\ t[i + 2] \in Digits
        => i > 1 /\ t[i - 1] \in Digits /\ t[i] = "e"
NoMutualInf(t)     == ~Next2(t, {">"}, {"<"})
SignedExponentsApart(t) ==
    \A i \in 1..(Len(t) - 2) :
        t[i] \in Digits /\ t[i + 1] = "e" /\ t[i + 2] \in {"+", "-"}
        => /\ InNumber(t, i)
           /\ \E k \in (i + 3)..(Len(t) - 1) : /\ \A j \in (i + 3)..k : t[j] \in Digits
                                               /\ t[k + 1] \in Blanks
NoGluedProportional(t) == ~ \E i \in 2..(Len(t) - 1) :
                              /\ t[i - 1] \in WordSymbols \cup {"."}
                              /\ t[i] = "o" /\ t[i + 1] = "<"
NoLeadingDot(t) == \A i \in DOMAIN t : t[i] = "." => i > 1 /\ t[i - 1] \in WordSymbols
StringsClosed(t) == LET quotes == {i \in DOMAIN t : t[i] = Quote}
                    IN  /\ Cardinality(quotes) % 2 = 0
                        /\ quotes # {} => \A i \in DOMAIN t : t[i] \notin {"#", Apostrophe}
EndsInBlank(t) == t # <<>> /\ Last(t) \in Blanks
NoMissingFile(t) == \A i \in DOMAIN t : t[i] # "include"

(* In Noisy a signed exponent is one only behind a number with a dot.      *)
RealExponents(t) ==
    \A i \in 2..(Len(t) - 1) :
        t[i] = "e" /\ t[i + 1] \in {"+", "-"} /\ InNumber(t, i)
        => \E k \in 1..(i - 1) : /\ t[k] \in Digits /\ (k = 1 \/ t[k - 1] \notin WordSymbols)
                                 /\ isRealConst(SubSeq(t, k, i - 1))

NewtonTrusted(t) == /\ NoPlusSign(t) /\ NoSignAfterNumber(t) /\ NoMutualInf(t)
                    /\ SignedExponentsApart(t) /\ NoGluedProportional(t) /\ NoLoneSign
Trusted(t) == /\ NoMissingFile(t) /\ NoLeadingDot(t) /\ StringsClosed(t) /\ EndsInBlank(t)
              /\ IF newton THEN NewtonTrusted(t) ELSE RealExponents(t)

(* The tokens of a text that keeps clear of those are those of longest     *)
(* match: no character is dropped or read twice, no word is cut or glued   *)
(* to its neighbour, the sign of a number is its own, and the tokens of an *)
(* included file stand in the place of its include.                        *)
AsWritten == status = "done" /\ Trusted(Text) => tokens = LongestMatch(Text)

(* Every such text is lexed to its end.                                    *)
EveryTextIsLexed == (status = "lexing" /\ Trusted(Text)) ~> (status = "done")

=============================================================================
