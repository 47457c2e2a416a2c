-------------------------- MODULE NoisyParserCheck --------------------------
(***************************************************************************)
(* NoisyParser against the documented language: what a program means is    *)
(* read here off its tokens and the grammar of NoisyGrammar, without a     *)
(* look at how the parser proceeds.                                        *)
(***************************************************************************)
EXTENDS NoisyParser, NoisyGrammar, FiniteSetsExt

Ended == outcome # "running"
Accepted == outcome = "accepted"

-----------------------------------------------------------------------------
(* The language that is spoken: the documented one but for some productions *)
(* that the parser reads in another way, or not at all.                    *)

(* What is never read: tokens without a row in the table of what may       *)
(* follow them, and productions the parser does not get to.                *)
Unspoken ==
    {"centralmoment", "charConst", "complement", "for", "from", "log", "max", "min", "nrt",
     "powerset", "product", "rawmem", "strongdominates", "sum", "to", "uncertainty",
     "weakdominates", "with"}
    \cup {"valfnSignature", "chanEventExpr", "quantizeExpression", "sampleExpression",
          "complexCastExpr", "rationalCastExpr", "probdefDecl", "predStmt"}

OtherProductions ==
    [predicateFnDefn |->
        {All(<<"identifier", "colon", "predicate", "signature", "arrow", "signature", "implies",
               "scopedPredStmtList">>)},
     vectorTypeDecl |->
        {All(<<"vector", "leftBracket", "integerConst", "rightBracket", "leftBracket",
               "integerConst", "rightBracket", "of", "typeExpr">>)},
     sequenceStatement |-> {All(<<"sequence", "orderingHead", "scopedStatementList">>)},
     unitsArithExpr |-> {All(<<"unitsArithTerm">>)},
     basicSignalDimension |->
        {<<Among({"current", "distance", "luminosity", "mass", "material", "temperature",
                  "time"})>>}]

Spoken == LeavingOut(OtherProductions @@ Grammar, Unspoken)

(* A text is a program when a phrase ends before its last token, which is  *)
(* Zeof.                                                                   *)
Sentence(w) == w[Len(w)].type = "Zeof" /\ Len(w) \in EndsOf(Spoken, w, 1, "program")

(* Whether the types of some tokens in a row are in these sets.            *)
Has(w, row) ==
    \E i \in 0 .. Len(w) - Len(row) : \A k \in DOMAIN row : w[i + k].type \in row[k]
Places(w, types) == {i \in DOMAIN w : w[i].type \in types}

(* What the rows of the table leave out: nil inside of an expression, some *)
(* operands in front of a bracket, a signal in front of "and", a second    *)
(* case that does not begin with a name.                                   *)
NotTaken(w) ==
    \/ \E i \in Places(w, {"nil"}) :
          \/ w[i - 1].type \notin AssignmentOperators
                \cup {"leftBrace", "rightBrace", "semicolon", "leftParens", "comma"}
          \/ w[i + 1].type \notin AssignmentOperators
                \cup {"colon", "semicolon", "rightParens", "comma"}
    \/ Has(w, <<{"realConst", "rightParens"}, {"rightBracket", "colon"}>>)
    \/ Has(w, <<{"signal"}, {"identifier"}, {"and"}>>)
    \/ /\ Places(w, {"match", "matchseq", "iterate"}) # {}
       /\ Has(w, <<{"rightBrace"}, TokenTypes \ {"rightBrace", "semicolon", "identifier"}>>)

(* Sentences that the parser gives up without a message: nil in the place  *)
(* of a name that is declared or of an element of an array, an assignment  *)
(* that is not looked for at the end of the file, a function that is       *)
(* defined twice, a type that stands for itself.                           *)
Crashing(w) ==
    \/ Has(w, <<{"nil"}, {"colon", "comma"}>>)
    \/ Places(w, {"array"}) # {} /\ Has(w, <<{"comma"}, {"nil"}>>)
    \/ Places(w, {"leftShiftAssign", "rightShiftAssign"}) # {}
    \/ \E i, j \in DOMAIN w : i < j /\ w[i].name = w[j].name /\ \A k \in {i, j} :
            /\ w[k].type = "identifier" /\ k + 2 <= Len(w)
            /\ w[k + 2].type \in {"function", "probdef", "predicate"}
    \/ \E i \in 1 .. Len(w) - 3 :
            w[i + 2].type = "type" /\ w[i].type = "identifier" /\ w[i].name = w[i + 3].name

(* What the parser takes is the language that is spoken, and it answers    *)
(* every program of it.                                                    *)
LanguageTaken ==
    Ended =>
        /\ Accepted => Sentence(text)
        /\ (Sentence(text) /\ outcome = "syntax error") => NotTaken(text)
        /\ (Sentence(text) /\ outcome \in {"null", "fatal", "endless"}) => Crashing(text)

(* The table of the tokens a production may begin with is that of the      *)
(* grammar, but for nil and for what sets and events begin with.  A list   *)
(* that may be empty has a mark of that.                                   *)
ASSUME FirstsOfTheGrammar ==
    \A p \in DOMAIN Grammar :
        /\ gNoisyFirsts[p] \ {"Zepsilon"} \subseteq FirstOf(Grammar, p)
        /\ FirstOf(Grammar, p) \ gNoisyFirsts[p] \subseteq
              CASE p \in {"element", "guardedExpressionList"} -> {"nil"}
                [] p = "guardedStatementList" -> {"nil", "latency", "distortions", "erasures"}
                [] p \in {"predStmtList", "predStmt", "predTerm", "predExpr"} ->
                      {"omega", "leftBrace", "powerset", "complement"}
                [] OTHER -> {}

-----------------------------------------------------------------------------
(* Names.  A block reaches from a brace to the one that closes it, and of  *)
(* a function from its keyword to the end of its body, or of its           *)
(* declaration; block 0 is the file.                                       *)

Matching(w, i) ==
    Min({k \in i .. Len(w) : /\ w[k].type = "rightBrace"
                             /\ Cardinality(Places(SubSeq(w, i, k), {"leftBrace"}))
                                  = Cardinality(Places(SubSeq(w, i, k), {"rightBrace"}))})
BodyOf(w, i) == Min({k \in i .. Len(w) : w[k].type \in {"leftBrace", "semicolon"}})
Openers(w) == Places(w, {"leftBrace", "function"})
Close(w, i) ==
    LET opening == IF w[i].type = "function" THEN BodyOf(w, i) ELSE i
    IN  IF w[opening].type = "semicolon" THEN opening ELSE Matching(w, opening)
BlocksAround(w, i) == {0} \cup {k \in Openers(w) : k < i /\ i <= Close(w, k)}
Block(w, i) == Max(BlocksAround(w, i))

(* A name is declared in front of a colon or an "in", as is each of a list *)
(* of names; and so is what := assigns to.                                 *)
Identifiers(w) == Places(w, {"identifier"})
Declares(w, i) ==
    \E k \in i + 1 .. Len(w) :
        /\ w[k].type \in {"colon", "in", "colonAssign"}
        /\ \A j \in i + 1 .. k - 1 : w[j].type = IF (j - i) % 2 = 1 THEN "comma" ELSE "identifier"
DeclaresFunction(w, i) == Declares(w, i) /\ w[i + 2].type = "function"

(* The declarations that a name may refer to: one in a block around it; in *)
(* no other file is the first module, whose names are known everywhere     *)
(* behind it.  The innermost counts, and of the first module's the last.   *)
FirstBody(w) == Min(Places(w, {"leftBrace"}))
Declarations(w, i) ==
    {d \in Identifiers(w) : d < i /\ Declares(w, d) /\ w[d].name = w[i].name}
Seen(w, i) == {d \in Declarations(w, i) : Block(w, d) \in BlocksAround(w, i)}
SeenInModule(w, i) ==
    {d \in Declarations(w, i) : Block(w, d) = FirstBody(w) /\ Close(w, FirstBody(w)) < i}
Referent(w, i) ==
    IF Seen(w, i) # {} THEN Max({Block(w, d) : d \in Seen(w, i)}) ELSE FirstBody(w)

NameRight(w, i) ==
    IF Declares(w, i) THEN \A d \in Declarations(w, i) : Block(w, d) # Block(w, i)
    ELSE Seen(w, i) \cup SeenInModule(w, i) # {}
NamesRight(w) == \A i \in Identifiers(w) : NameRight(w, i)

(* A program of declarations, assignments, loops and cases, where a name   *)
(* is not declared because of a colon further on.                          *)
WithoutColons == {"dot", "leftBracket", "of", "return", "leftShiftAssign", "rightShiftAssign",
                  "adt", "typeannote", "dimensions", "units", "signal", "probdef", "predicate"}
Calls(w) == {i \in Identifiers(w) : w[i + 1].type = "leftParens"}
ReadsByBlocks(w) ==
    /\ Sentence(w) /\ ~ NotTaken(w) /\ Places(w, WithoutColons) = {} /\ Calls(w) = {}
    /\ \A i \in Places(w, {"nil"}) : w[i - 1].type = "leftParens"
    /\ \A i, j \in Identifiers(w) : (i # j /\ DeclaresFunction(w, i)) => w[i].name # w[j].name

(* A scope is known by its number, the blocks are counted as they open.    *)
ScopeNumber(w, block) == 1 + Cardinality({k \in Openers(w) : k <= block})
ScopeOf(w, i) ==
    ScopeNumber(w, IF Declares(w, i) \/ DeclaresFunction(w, i) THEN Block(w, i) ELSE Referent(w, i))

InOrder(places, w) == SelectSeq([i \in DOMAIN w |-> i], LAMBDA i : i \in places)

(* A program is rejected when a name is used that no block around it has,  *)
(* or declared twice in a block, and only then; and each name refers to    *)
(* its innermost declaration.                                              *)
NamesDecide ==
    (Ended /\ ReadsByBlocks(text)) =>
        /\ Accepted <=> NamesRight(text)
        /\ Accepted =>
            LET places == InOrder(Identifiers(text), text)
                nodes == SelectSeq(tree, LAMBDA n : n.type = "identifier")
            IN  \A k \in DOMAIN places : nodes[k].symbol = ScopeOf(text, places[k])

-----------------------------------------------------------------------------
(* Signatures.                                                             *)

(* What stands between the k-th bracket behind a token and its partner.    *)
Within(w, i, k) ==
    LET opening == InOrder({j \in Places(w, {"leftParens"}) : j > i}, w)[k]
        closing == Min({j \in Places(w, {"rightParens"}) : j > opening})
    IN  SubSeq(w, opening + 1, closing - 1)

(* A type that has a name is written out.                                  *)
TypeNamed(w, name) ==
    LET d == Min({i \in Identifiers(w) : w[i].name = name /\ w[i + 2].type = "type"})
    IN  SubSeq(w, d + 3, Min({j \in Places(w, {"semicolon"}) : j > d}) - 1)
RECURSIVE WrittenOut(_, _)
WrittenOut(w, signature) ==
    FlattenSeq([k \in DOMAIN signature |->
        IF signature[k].type = "identifier" /\ k > 1 /\ signature[k - 1].type \in {"colon", "of"}
        THEN WrittenOut(w, TypeNamed(w, signature[k].name))
        ELSE <<signature[k]>>])

(* A function that is declared in the module and defined behind it.        *)
Functions(w) == {i \in Identifiers(w) : i + 2 <= Len(w) /\ DeclaresFunction(w, i)}
DeclaredOnce(w) ==
    /\ Cardinality(Functions(w)) = 2
    /\ Cardinality({w[i].name : i \in Functions(w)}) = 1
    /\ Cardinality(Places(w, {"module"})) = 1

(* Types the comparison is not made for, or made wrong: some have no       *)
(* representation, of the elements of an array the bounds are lost, and a  *)
(* name for a type that is made of others is taken for a null pointer.     *)
Incomparable(w) ==
    \/ Places(w, {"float4", "float8", "fixed", "list", "set", "rational", "complex"}) # {}
    \/ Has(w, <<{"of"}, {"array"}>>)
    \/ Has(w, <<{"type"}, {"array"}>>)
    \/ Crashing([i \in DOMAIN w |-> IF i \in Functions(w) THEN [w[i] EXCEPT !.type = ""] ELSE w[i]])

(* The definition of a function is accepted when its parameters and its    *)
(* results have the names and the types of the declaration, and only then. *)
SignaturesAgree ==
    (Ended /\ Sentence(text) /\ DeclaredOnce(text) /\ ~ Incomparable(text)) =>
        LET declared == Min(Functions(text))
            defined == Max(Functions(text))
        IN  Accepted <=> \A k \in {1, 2} :
                WrittenOut(text, Within(text, declared, k)) = WrittenOut(text, Within(text, defined, k))

-----------------------------------------------------------------------------
(* The tree.                                                               *)

Meaningful == {"identifier", "integerConst", "realConst", "stringConst", "boolConst"}
WordsBelow(n) ==
    LET below[i \in 0 .. Len(tree)] ==
            IF i = 0 THEN <<>>
            ELSE (IF tree[i].type \in Meaningful THEN <<i>> ELSE <<>>)
                 \o below[tree[i].left] \o below[tree[i].right]
    IN  below[n]

(* The names and constants of a program are found in its tree in the order *)
(* they are written in.  The copies that are made of the signatures of a   *)
(* problem or a predicate are not deep enough to keep its own tree as it   *)
(* was.                                                                    *)
TreeReadsAsText ==
    (Accepted /\ Places(text, {"probdef", "predicate"}) = {}) =>
        LET places == InOrder(Places(text, Meaningful), text)
            nodes == WordsBelow(1)
        IN  /\ Len(nodes) = Len(places)
            /\ \A i \in DOMAIN places :
                  /\ tree[nodes[i]].type = text[places[i]].type
                  /\ tree[nodes[i]].name = text[places[i]].name
                  /\ tree[nodes[i]].value = text[places[i]].value

-----------------------------------------------------------------------------
(* Every program is parsed to an end.                                      *)
Ends == <>Ended
=============================================================================
