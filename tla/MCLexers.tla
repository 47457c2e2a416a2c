------------------------------ MODULE MCLexers ------------------------------
EXTENDS Lexers

MCReserved == {<<"t", "o">>}
MCTruths == {<<"t">>}

Alphabet == {"t", "o", "e", "5", ".", "+", "-", "*", "=", "<", ">", ":", "#", " ", Quote, ";"}
NoisyAlphabet == {"r", "e", "5", ".", "+", "-", "=", "<", ">", "!", "#", " ", Quote, Apostrophe}
MCSymbols == Alphabet \cup NoisyAlphabet \cup {"(", ")", "&", "|", "~", "\n", "include", "f", "g"}
Main(t) == [main |-> <<t \o <<"\n">>>>]

(* Every text of MaxLength symbols, and some with included files.          *)
MaxLength == 4
Included == [main |-> <<<<"t", " ", "include", " ", Quote, "f", Quote, " ", "o", "\n">>, <<"t", "\n">>>>,
             f |-> <<<<"5", ":", "\n">>, <<"include", " ", Quote, "g", Quote, "\n">>, <<"e", "\n">>>>,
             g |-> <<<<"t", "o", " ">>, <<"-", "5", "\n">>>>]
Missing == [main |-> <<<<"include", " ", Quote, "f", Quote, "\n">>>>]
Texts(alphabet) == {Main(t) : t \in [1..MaxLength -> alphabet]}

(* Files that end in a sign and no newline: included, and the main file.   *)
LoneSign(c) == [main |-> <<<<"include", " ", Quote, "f", Quote, "\n">>, <<"t", " ", "5", ";", "\n">>>>,
                f |-> <<<<"t", "\n">>, <<c>>>>]
LoneSignLast == [main |-> <<<<"t", "\n">>, <<"-">>>>]
Radix == Main(<<"-", "5", "r", "e", "5", " ">>)
MCSources == Texts(Alphabet) \cup {Included, Missing, LoneSign("-"), LoneSign("+"), LoneSignLast, Radix}

(* Longer numbers and operators, the keywords and the separators; the text *)
(* of the last has no newline at its end.                                  *)
Longer == {<<"5", ".", "5", "e", "-", "5", "-", "5", " ">>, <<"5", "r", "e", "5", "(", "t", ")", " ">>,
           <<">", ">", "=", "<", "<", "=", "<", "-", "=", " ">>, <<"t", "o", "&", "&", ":", ":", "~", " ">>,
           <<"5", ".", "5", "e", "+", "=", "|", "|", "*", "=", " ">>}
Unended == [main |-> <<<<"t", " ", Apostrophe>>>>]
MCNoisySources == Texts(NoisyAlphabet) \cup {Main(t) : t \in Longer} \cup {Included, Missing, Unended}

=============================================================================
