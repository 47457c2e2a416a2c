------------------------- MODULE NewtonParserCheck -------------------------
(***************************************************************************)
(* NewtonParser against the documented language: what a file means is read *)
(* here off its tokens and the grammar of NewtonGrammar, without a look at *)
(* how the parser proceeds.                                                *)
(***************************************************************************)
EXTENDS NewtonParser, NewtonGrammar, FiniteSetsExt, SequencesExt

Ended == outcome # "running"
Accepted == outcome = "accepted"

(* Whether the types of some tokens in a row are in these sets.            *)
Has(w, row) ==
    \E i \in 0 .. Len(w) - Len(row) : \A k \in DOMAIN row : w[i + k].type \in row[k]

TypeOK ==
    /\ at \in 1 .. Len(text)
    /\ phase \in {"dimensions", "parse", "sensors"}
    /\ outcome \in {"running", "accepted", "syntax error", "semantic error", "assertion",
                    "null", "fatal"}
    /\ \A n \in DOMAIN tree :
          /\ {tree[n].left, tree[n].right} \subseteq 0 .. Len(tree)
          /\ tree[n].physics \in 0 .. Len(physics)
    /\ \A f \in DOMAIN stack : stack[f].node \in DOMAIN tree /\ stack[f].scope \in DOMAIN scopes
    /\ Range(physicsList) \subseteq DOMAIN physics
    /\ \A s \in DOMAIN scopes : scopes[s].parent < s
    /\ \A p \in DOMAIN physics : DOMAIN physics[p].exponents = DOMAIN dimensions

-----------------------------------------------------------------------------
(* The rules of a file: each starts with a name, a colon and a keyword.    *)

(* Some places of a sequence, in their order.                              *)
InOrder(places, w) == SelectSeq([i \in DOMAIN w |-> i], LAMBDA i : i \in places)

Keywords == {"signal", "constant", "invariant", "sensor"}
Starts(w) == {i \in 1 .. Len(w) - 2 : /\ w[i].type = "identifier" /\ w[i + 1].type = "colon"
                                      /\ w[i + 2].type \in Keywords}
Rules(w) ==
    LET starts == InOrder(Starts(w), w)
    IN  [r \in DOMAIN starts |->
            SubSeq(w, starts[r], IF r = Len(starts) THEN Len(w) - 1 ELSE starts[r + 1] - 1)]

Kind(rule) == rule[3].type
NameOf(rule) == rule[1].name

(* The index of the first token of a type in a rule, 0 if there is none.   *)
Place(rule, type) ==
    LET places == {i \in DOMAIN rule : rule[i].type = type}
    IN  IF places = {} THEN 0 ELSE Min(places)

(* What stands between a token and the first semicolon behind it.          *)
Behind(rule, i) ==
    SubSeq(rule, i + 1, Min({k \in i .. Len(rule) : rule[k].type = "semicolon"}) - 1)

SymbolOf(rule) == IF Place(rule, "symbol") = 0 THEN "" ELSE rule[Place(rule, "symbol") + 2].name
DerivationOf(rule) == Behind(rule, Place(rule, "derivation") + 1)
IsBase(rule) == Kind(rule) = "signal" /\ DerivationOf(rule)[1].type \in {"none", "dimensionless"}

UnitOf(rule) == Tail(Behind(rule, Place(rule, "assign")))   \* behind the number

(* The names of the parameters, those of a list in brackets at the start.  *)
ParametersOf(rule) ==
    LET end == Place(rule, "rightParen")
        names == {i \in 4 .. end : rule[i].type = "identifier" /\ rule[i + 1].type = "colon"}
    IN  InOrder(names, rule)

-----------------------------------------------------------------------------
(* Dimensions.  Bad is what a sum of different dimensions has.             *)

Bad == <<>>

(* How many brackets are open before the i-th token.                       *)
Depth(w, i) == Cardinality({k \in 1 .. i - 1 : w[k].type = "leftParen"})
               - Cardinality({k \in 1 .. i - 1 : w[k].type = "rightParen"})
(* A sign behind an operator belongs to the operand.                       *)
LastOutside(w, operators) ==
    LET places == {i \in 2 .. Len(w) : /\ w[i].type \in operators /\ Depth(w, i) = 0
                                       /\ w[i - 1].type \notin {"plus", "minus"}}
    IN  IF places = {} THEN 0 ELSE Max(places)

(* An exponent is a number, or a fraction in brackets.                     *)
ExponentOf(w) == IF Len(w) = 1 THEN w[1].value ELSE R!Over(w[2].value, w[4].value)

RECURSIVE Dimensions(_, _), Meaning(_, _)

(* The dimensions of an expression where names mean what a function says.  *)
Dimensions(w, meaning) ==
    LET sum == LastOutside(w, {"plus", "minus"})
        product == LastOutside(w, {"mul", "div"})
        power == LastOutside(w, {"exponentiation"})
        Left(i) == Dimensions(SubSeq(w, 1, i - 1), meaning)
        Right(i) == Dimensions(SubSeq(w, i + 1, Len(w)), meaning)
    IN  CASE sum # 0 -> IF Left(sum) = Right(sum) THEN Left(sum) ELSE Bad
          [] sum = 0 /\ w[1].type \in {"plus", "minus"} -> Dimensions(Tail(w), meaning)
          [] sum = 0 /\ w[1].type \notin {"plus", "minus"} /\ product # 0 ->
                IF Bad \in {Left(product), Right(product)} THEN Bad
                ELSE IF w[product].type = "mul" THEN AddExponents(Left(product), Right(product))
                ELSE SubtractExponents(Left(product), Right(product))
          [] OTHER ->
                IF power # 0
                THEN IF Left(power) = Bad THEN Bad
                     ELSE MultiplyExponents(Left(power), ExponentOf(SubSeq(w, power + 1, Len(w))))
                ELSE IF w[1].type = "leftParen"
                THEN Dimensions(SubSeq(w, 2, Len(w) - 1), meaning)
                ELSE meaning[w[1].name]


None(n) == [d \in 1 .. n |-> R!Zero]
Ordinal(rules, r) == Cardinality({k \in 1 .. r : IsBase(rules[k])})

(* What the names mean behind the first rules of a file; a name means what *)
(* its first definition says.  The name of a number is empty.              *)
DimensionsOf(rules, r) ==
    LET rule == rules[r]
        n == Ordinal(rules, Len(rules))
        meaning == Meaning(rules, r - 1)
    IN  CASE Kind(rule) = "constant" ->
                IF UnitOf(rule) = <<>> THEN None(n) ELSE Dimensions(UnitOf(rule), meaning)
          [] IsBase(rule) ->
                IF DerivationOf(rule)[1].type = "dimensionless" THEN None(n)
                ELSE [None(n) EXCEPT ![Ordinal(rules, r)] = R!Whole(1)]
          [] OTHER -> Dimensions(DerivationOf(rule), meaning)

Meaning(rules, r) ==
    IF r = 0 THEN "" :> None(Ordinal(rules, Len(rules)))
    ELSE Meaning(rules, r - 1) @@
         IF Kind(rules[r]) \notin {"signal", "constant"} THEN <<>>
         ELSE [name \in {NameOf(rules[r])} \cup
                        (IF Kind(rules[r]) = "signal" THEN {SymbolOf(rules[r])} \ {""} ELSE {})
               |-> DimensionsOf(rules, r)]

(* The rules whose dimensions can be read off: no call of a function.      *)
PlainTokens == NumericTokens \cup {"identifier", "plus", "minus", "mul", "div", "exponentiation",
                                   "leftParen", "rightParen"}
Plain(rule) ==
    \/ Kind(rule) = "constant"
    \/ IsBase(rule)
    \/ Kind(rule) = "signal" /\ \A i \in DOMAIN DerivationOf(rule) :
                                    DerivationOf(rule)[i].type \in PlainTokens
Defining(rules) == {r \in DOMAIN rules : Kind(rules[r]) \in {"signal", "constant"}}
AllPlain(rules) == \A r \in Defining(rules) : Plain(rules[r])

(* The units of a constant that are divided are multiplied (newton-symbol- *)
(* Table.c, newtonPhysicsAddExponentsRecursively).                         *)
DividedUnit(rule) == Kind(rule) = "constant" /\ Place(rule, "div") # 0

(* The dimensions of every signal and constant are those of its            *)
(* definition.                                                             *)
PhysicsOfRulesRight(Except(_)) ==
    Accepted =>
        LET rules == Rules(text)
        IN  AllPlain(rules) =>
              \A r \in Defining(rules) :
                  \/ \E k \in 1 .. r - 1 : NameOf(rules[r]) \in {NameOf(rules[k]), SymbolOf(rules[k])}
                  \/ \E k \in 1 .. r : Except(rules[k])
                  \/ physics[PhysicsForIdentifier(NameOf(rules[r]))].exponents
                       = DimensionsOf(rules, r)

DimensionsRight == PhysicsOfRulesRight(DividedUnit)
UnitsRight == PhysicsOfRulesRight(LAMBDA rule : FALSE)

(* A file of signals and constants, each dimension of which has a name and *)
(* no name of which is used twice, is rejected when it adds quantities of  *)
(* different dimensions, and only then.                                    *)
WellNamed(rules) ==
    /\ Ordinal(rules, Len(rules)) > 0
    /\ \A r \in DOMAIN rules :
          /\ IsBase(rules[r]) => Place(rules[r], "name") # 0
          /\ {Place(rules[r], "sensor"), Place(rules[r], "uncertainty")} = {0}
          /\ \A k \in 1 .. r - 1 : {NameOf(rules[r]), SymbolOf(rules[r])} \cap
                                   {NameOf(rules[k]), SymbolOf(rules[k])} \subseteq {""}
SumsDecide ==
    (Ended /\ Sentence(text)) =>
        LET rules == Rules(text)
        IN  (AllPlain(rules) /\ Defining(rules) = DOMAIN rules /\ WellNamed(rules)
             /\ \A r \in DOMAIN rules : ~ DividedUnit(rules[r]))
            => (Accepted <=> \A r \in DOMAIN rules : DimensionsOf(rules, r) # Bad)

-----------------------------------------------------------------------------
(* What the parser takes for the language.                                 *)

Symbols(xs) == [i \in DOMAIN xs |-> {xs[i]}]

(* Where the parser differs from the grammar, by the first tokens it does  *)
(* not take.                                                               *)
NotTaken(w) ==
    \/ Has(w, <<{"Weibull", "Erlang"}>>)
    \/ Has(w, Symbols(<<"atSign", "integerConst", "bits">>))
    \/ Has(w, Symbols(<<"rightBracket", "leftBracket">>))
    \/ Has(w, Symbols(<<"colon", "integerConst", "leftBracket">>))
    \/ \E rule \in {r \in Range(Rules(w)) : Kind(r) \in {"invariant", "signal"}} :
          \E i \in 2 .. Len(rule) - 2 :
             /\ rule[i - 1].type # "colon" /\ rule[i].type = "identifier"
             /\ rule[i + 1].type = "leftBracket" /\ rule[i + 2].type \in NumericTokens
    \/ Has(w, Symbols(<<"identifier", "read">>))
    \/ Has(w, Symbols(<<"identifier", "def", "integerConst">>))
    \/ Has(w, <<{"leftBrace", "semicolon"}, {"identifier"}, {"integerConst"}>>)
    \/ Has(w, <<{"leftBrace"}, {"comma"}>>)
    \/ Has(w, Symbols(<<"rightArrow", "leftBrace", "rightBrace">>))

(* Where the parser takes more than the grammar: a product where the       *)
(* documentation has a number of bits, the name of an index instead of a   *)
(* number, vector products of units, a signal without a symbol.            *)
TakenToo(w) ==
    \/ Has(w, Symbols(<<"mul", "bits">>))
    \/ Has(w, Symbols(<<"identifier", "leftBracket", "identifier">>))
    \/ Has(w, <<{"identifier"}, {"dot", "cross", "mutualinf"}, {"identifier"}>>)
    \/ \E r \in DOMAIN Rules(w) : Kind(Rules(w)[r]) = "signal" /\ SymbolOf(Rules(w)[r]) = ""

(* What the parser takes is the language of the grammar, but for those.    *)
LanguageTaken ==
    Ended =>
        /\ (Sentence(text) /\ outcome = "syntax error") => NotTaken(text)
        /\ Accepted => (Sentence(text) /\ ~ NotTaken(text)) \/ TakenToo(text)

(* The table of the tokens a production may begin with is that of the      *)
(* grammar, but for the list of constraints, which may be empty.           *)
ASSUME FirstsOfTheGrammar ==
    \A p \in (DOMAIN Grammar \cap DOMAIN gNewtonFirsts) \ {"constraintList"} :
        gNewtonFirsts[p] = FirstOf(Grammar, p)

(* "Activate this when Newton's FFI sets have been corrected": the calls   *)
(* of inFollow that the parser has commented out would refuse sentences.   *)
(* Behind these productions a sentence may have tokens that the table of   *)
(* gNewtonFollows does not list, among them its end behind the last rule,  *)
(* and behind the others it lists them all.                                *)
NotListed ==
    [p \in {"rule", "constantDefinition", "invariantDefinition", "baseSignalDefinition",
            "sensorDefinition"} |-> {"Zeof"}]
    @@ [subdimensionTuple |-> {"assign"},
        parameterTuple |-> {"assign", "semicolon"},
        distribution |-> {"semicolon"},
        highPrecedenceOperator |-> QuantityFactorTokens
            \ (NumericTokens \cup {"leftParen", "identifier"})]
    @@ [p \in {"quantity", "quantityFactor"} |-> QuantityFactorTokens]
    @@ [p \in {"numericConst", "numericFactor"} |->
            (QuantityFactorTokens \ {"leftParen", "identifier"})
            \cup FirstOf(Grammar, "comparisonOperator") \cup {"rightArrow"}]
    @@ [p \in DOMAIN Grammar |-> {}]

ASSUME FollowsOfTheGrammar ==
    LET follows == FollowsOf(Grammar, "newtonDescription", "Zeof")
    IN  \A p \in DOMAIN Grammar : follows[p] \ gNewtonFollows[p] = NotListed[p]
=============================================================================
