-------------------------- MODULE NewtonNamesCheck --------------------------
(***************************************************************************)
(* NewtonParser against what the names, the parameters, the calls and the  *)
(* sensors of a file mean, which is read off its tokens as in              *)
(* NewtonParserCheck.                                                      *)
(***************************************************************************)
EXTENDS NewtonParserCheck

RulesOf(rules, kind) == {r \in DOMAIN rules : Kind(rules[r]) = kind}

(* The tokens of a type in a rule.                                         *)
Those(rule, types) == {i \in DOMAIN rule : rule[i].type \in types}

-----------------------------------------------------------------------------
(* Scopes.                                                                 *)

Declarations(rule) ==
    {i \in Those(rule, {"identifier"}) :
        \/ i < Len(rule) /\ rule[i + 1].type \in {"colon", "def"}
        \/ i > 2 /\ rule[i - 2].type = "symbol"}
IsIndex(rule, i) == rule[i - 1].type = "leftBracket" /\ rule[i + 1].type = "rightBracket"
Uses(rule) == {i \in Those(rule, {"identifier"}) \ Declarations(rule) : ~ IsIndex(rule, i)}

(* The bracket a token is in.                                              *)
Bracket(rule, i) ==
    Max({0} \cup {j \in Those(rule, {"leftParen"}) : j < i /\ Depth(rule, j) = Depth(rule, i) - 1})
Closing(rule, i) ==
    Min({j \in Those(rule, {"rightParen"}) : j > i /\ Depth(rule, j) = Depth(rule, i)})

(* A parameter of a distribution is known in its brackets, what the        *)
(* interface of a sensor declares up to the end of its commands, any other *)
(* name in its rule.                                                       *)
KnownUpTo(rule, i) ==
    LET bracket == Bracket(rule, i)
        interfaces == {j \in Those(rule, {"interface"}) : j < i}
    IN  IF bracket > 0 /\ rule[bracket - 1].type \in DistributionTokens THEN Closing(rule, i)
        ELSE IF interfaces # {} THEN Min({j \in Those(rule, {"rightBrace"}) : j > Max(interfaces)})
        ELSE Len(rule)

(* The rules define their names, and signals their symbols, for the rest   *)
(* of the file.                                                            *)
Globals(rules, r) ==
    {NameOf(rules[k]) : k \in 1 .. r} \cup {SymbolOf(rules[k]) : k \in 1 .. r}
Locals(rule, i) ==
    {rule[k].name : k \in {d \in Declarations(rule) : d < i /\ i <= KnownUpTo(rule, d)}}

NamesInScope ==
    Accepted =>
        LET rules == Rules(text)
        IN  \A r \in DOMAIN rules : \A i \in Uses(rules[r]) :
                rules[r][i].name \in Globals(rules, r) \cup Locals(rules[r], i)

(* The calls of a rule, at the names of the invariants called.             *)
Calls(rule) ==
    {i \in Uses(rule) : i > Place(rule, "assign") /\ rule[i + 1].type = "leftParen"}

-----------------------------------------------------------------------------
(* The sentences the parser does not survive.                              *)

NumberBehind(rule, i) == Min({j \in Those(rule, NumericTokens) : j > i})

(* A bound or an accuracy without a unit; the sensors pass reads the cost  *)
(* or the bound past it.                                                   *)
UnitMissing(rule) ==
    \E i \in Those(rule, {"range", "accuracy"}) :
        \/ rule[NumberBehind(rule, i) + 1].type \in {"comma", "exponentiation"}
        \/ /\ rule[i].type = "range"
           /\ Has(SubSeq(rule, i, Min({j \in Those(rule, {"rightBracket"}) : j > i})),
                  <<NumericTokens, {"rightBracket"}>>)
(* The address of an interface stands in its parameters.                   *)
AddressMissing(rule) ==
    \E i \in Those(rule, {"i2c"}) : rule[i + 1].type # "leftParen"

(* In an invariant: a parameter that is a number or of the type of a       *)
(* constant or an invariant, or a quantity that is a signal and no         *)
(* parameter, or a name without dimensions.                                *)
NotASignal(rules, r) ==
    LET rule == rules[r]
        names == ParametersOf(rule)
        symbols == {SymbolOf(rules[k]) : k \in RulesOf(rules, "signal")}
        signals == {NameOf(rules[k]) : k \in RulesOf(rules, "signal")}
        own == {rule[i].name : i \in Range(names)}
    IN  \/ \E i \in Range(names) : rule[i + 2].type # "identifier"
                                   \/ rule[i + 2].name \notin signals \cup symbols
        \/ \E i \in Uses(rule) : rule[i].name \notin own \cup symbols

(* applyOperator has four operators.                                       *)
OddOperator(w) == Has(w, <<NumericTokens, {"dot", "cross", "mutualinf"}>>)

Crashing(w) ==
    LET rules == Rules(w)
    IN  \/ OddOperator(w)
        \/ \E r \in RulesOf(rules, "sensor") : UnitMissing(rules[r]) \/ AddressMissing(rules[r])
        \/ \E r \in RulesOf(rules, "invariant") : NotASignal(rules, r)

(* A sentence is no null pointer, no failed assertion and no fatal error,  *)
(* but for those.                                                          *)
NoCrash ==
    (outcome \in {"null", "assertion", "fatal"} /\ Sentence(text)) => Crashing(text)

(* The files that newtonParse takes are those of the documented language,  *)
(* and it has an answer for each of them.                                  *)
LanguageAnswered == LanguageTaken /\ NoCrash

-----------------------------------------------------------------------------
(* Invariants and their calls.                                             *)

(* A signal hides a parameter of its name.                                 *)
NameMeans(rules, r, name) ==
    LET global == Meaning(rules, r - 1)
        named == {i \in Range(ParametersOf(rules[r])) : rules[r][i].name = name}
        type == rules[r][Min(named) + 2].name
    IN  IF name \in DOMAIN global THEN global[name]
        ELSE IF named # {} /\ type \in DOMAIN global THEN global[type]
        ELSE Bad

Arguments(rule, call) ==
    InOrder({i \in Uses(rule) : call < i /\ i < Closing(rule, call + 2)}, rule)

(* The call names an invariant before this one and has for each of its     *)
(* parameters an argument of the same dimensions.                          *)
CallMatches(rules, r, call) ==
    LET arguments == Arguments(rules[r], call)
        callees == {k \in RulesOf(rules, "invariant") :
                        k < r /\ NameOf(rules[k]) = rules[r][call].name}
        callee == Min(callees)
        parameters == ParametersOf(rules[callee])
    IN  /\ callees # {}
        /\ Len(arguments) = Len(parameters)
        /\ \A i \in DOMAIN arguments :
              LET given == NameMeans(rules, r, rules[r][arguments[i]].name)
                  expected == NameMeans(rules, callee, rules[callee][parameters[i]].name)
              IN  given = expected /\ given # Bad
AllCallsMatch(rules) ==
    \A r \in RulesOf(rules, "invariant") : \A call \in Calls(rules[r]) : CallMatches(rules, r, call)

(* A file of signals, and of invariants that are empty or a call.          *)
OnlyCalls(rules) ==
    \A r \in DOMAIN rules :
        \/ /\ Kind(rules[r]) = "signal" /\ Plain(rules[r]) /\ DimensionsOf(rules, r) # Bad
           /\ Those(rules[r], {"sensor", "uncertainty"}) = {}
           /\ (IsBase(rules[r]) => \A type \in {"name", "symbol"} : Place(rules[r], type) # 0)
        \/ /\ Kind(rules[r]) = "invariant"
           /\ Those(rules[r], NumericTokens \cup {"piecewise", "leftBracket"}) = {}
           /\ Cardinality(Calls(rules[r])) <= 1
           /\ (Calls(rules[r]) = {} => rules[r][Len(rules[r]) - 1].type = "leftBrace")
           /\ ~ NotASignal([rules EXCEPT ![r] = SubSeq(@, 1, Place(@, "leftBrace"))], r)

(* An accepted file calls invariants as they are declared; and a file of   *)
(* signals and calls that does so is accepted.                             *)
CallsDecide ==
    Ended =>
        LET rules == Rules(text)
        IN  /\ (Accepted /\ AllPlain(rules)) => AllCallsMatch(rules)
            /\ (Sentence(text) /\ rules # <<>> /\ OnlyCalls(rules) /\ AllCallsMatch(rules)) => Accepted

RuleNodes == Children(tree, tree[1].left)

(* A quantity in an invariant that has the name of a parameter carries its *)
(* position, which the code for an invariant is generated from.            *)
NumbersMatch ==
    Accepted =>
        LET rules == Rules(text)
            n == Ordinal(rules, Len(rules))
        IN  AllPlain(rules) =>
            \A r \in RulesOf(rules, "invariant") :
                LET parameters == ParametersOf(rules[r])
                IN  \A q \in Range(NodesOfType(RuleNodes[r], "quantity")) :
                    \A i \in DOMAIN parameters :
                        LET name == rules[r][parameters[i]].name
                        IN  (tree[tree[q].left].name = name
                             /\ name \notin DOMAIN Meaning(rules, r - 1)
                             /\ NameMeans(rules, r, name) \notin {Bad, None(n)})
                            => tree[tree[q].left].number = i - 1

(* What an invariant is generated code from and called with is what it     *)
(* declares.                                                               *)
InvariantsAsDeclared == CallsDecide /\ NumbersMatch

-----------------------------------------------------------------------------
(* Subindices.                                                             *)

HasTuple(rule) == Kind(rule) = "signal" /\ rule[4].type = "leftParen"
FirstIndex(rule) == rule[7].value[1]
LastIndex(rule) == rule[9].value[1]

ThePhysics == {physics[p] : p \in Range(physicsList)}
IndicesOf(name) == {p.subindex : p \in {o \in ThePhysics : o.identifier = name}}

(* There is a signal for each subindex of a definition, with an id of its  *)
(* own.  The first subindex is 0 whatever the definition says.             *)
SubindicesThere ==
    Accepted =>
        LET rules == Rules(text)
        IN  /\ \A r \in {k \in RulesOf(rules, "signal") : HasTuple(rules[k])} :
                  \/ FirstIndex(rules[r]) # 0
                  \/ IndicesOf(NameOf(rules[r])) = FirstIndex(rules[r]) .. LastIndex(rules[r])
            /\ \A p, o \in Range(physicsList) :
                  (p # o /\ ~ physics[p].constant /\ ~ physics[o].constant)
                  => physics[p].id # physics[o].id

(* The signals and constants of an accepted file are those it defines,     *)
(* with the dimensions of their definitions, and a file is rejected when   *)
(* it adds quantities of different dimensions.                             *)
SignalsAsDefined == DimensionsRight /\ SumsDecide /\ SubindicesThere

-----------------------------------------------------------------------------
(* The tree.                                                               *)

Meaningful == NumericTokens \cup {"identifier", "stringConst"}

(* Left out of the tree are the subindices of a signal and of what is used *)
(* with one.                                                               *)
LeftOut(rule, i) ==
    \/ Kind(rule) = "signal" /\ HasTuple(rule) /\ i \in 5 .. Place(rule, "rightParen")
    \/ /\ rule[i - 1].type = "leftBracket" /\ rule[i - 2].type = "identifier"
       /\ (Kind(rule) # "sensor" \/ rule[i - 3].type = "colon")
WordsOf(rule) ==
    LET places == InOrder({i \in Those(rule, Meaningful) : i = 1 \/ ~ LeftOut(rule, i)}, rule)
    IN  [k \in DOMAIN places |-> rule[places[k]]]
WordsBelow(n) ==
    LET below[i \in 0 .. Len(tree)] ==
            IF i = 0 THEN <<>>
            ELSE (IF tree[i].type \in Meaningful THEN <<i>> ELSE <<>>)
                 \o below[tree[i].left] \o below[tree[i].right]
    IN  below[n]

(* The names, numbers and strings of a rule are found in its tree, in the  *)
(* order they are written in.                                              *)
TreeReadsAsText ==
    Accepted =>
        LET rules == Rules(text)
        IN  \A r \in DOMAIN rules : Kind(rules[r]) # "constant" =>
                LET words == WordsOf(rules[r])
                    nodes == WordsBelow(RuleNodes[r])
                IN  /\ Len(nodes) = Len(words)
                    /\ \A i \in DOMAIN words :
                          /\ tree[nodes[i]].type = words[i].type
                          /\ tree[nodes[i]].name = words[i].name
                          /\ tree[nodes[i]].value = words[i].value

-----------------------------------------------------------------------------
(* Sensors.                                                                *)

(* The first statement of a keyword about a modality, 0 if there is none.  *)
About(rule, keyword, name) ==
    Min({i \in Those(rule, {keyword}) : rule[i + 1].name = name} \cup {Len(rule) + 1})
There(rule, i) == i <= Len(rule)
CommaBehind(rule, i) == Min({j \in Those(rule, {"comma"}) : j > i})

(* What the statements say of a modality.                                  *)
AsWritten(rule, name) ==
    LET range == About(rule, "range", name)
        accuracy == About(rule, "accuracy", name)
        precision == About(rule, "precision", name)
        interface == About(rule, "interface", name)
        Says(i, offset) == IF There(rule, i) THEN rule[i + offset].value ELSE "unset"
        SaysBehind(i) == IF There(rule, i) THEN rule[CommaBehind(rule, i) + 1].value ELSE "unset"
    IN  [name |-> name,
         rangeLowerBound |-> Says(range, 4), rangeUpperBound |-> SaysBehind(range),
         accuracy |-> Says(accuracy, 5), accuracyCost |-> SaysBehind(accuracy),
         precisionBits |-> Says(precision, 5), precisionCost |-> SaysBehind(precision),
         registerAddress |-> IF There(rule, interface) /\ rule[interface + 3].type = "i2c"
                             THEN rule[interface + 7].value ELSE "unset"]

(* A number of bits with a unit: the cost is read from the unit.           *)
BitsWithUnit(rule) ==
    \E i \in Those(rule, {"precision"}) : rule[NumberBehind(rule, i) + 1].type # "comma"

SensorRead(sensor, rule) ==
    /\ sensor.name = NameOf(rule)
    /\ Len(sensor.modalities) = Len(ParametersOf(rule))
    /\ \A i \in DOMAIN sensor.modalities :
          sensor.modalities[i] = AsWritten(rule, rule[ParametersOf(rule)[i]].name)

(* Of the sensors of a file the last is kept, with the bounds, costs and   *)
(* addresses of the statements about each modality.                        *)
LastSensorRead ==
    Accepted =>
        LET rules == Rules(text)
            sensors == RulesOf(rules, "sensor")
            last == rules[Max(sensors)]
        IN  IF sensors = {} THEN sensorList = <<>>
            ELSE /\ Len(sensorList) = 1
                 /\ BitsWithUnit(last) \/ SensorRead(sensorList[1], last)

-----------------------------------------------------------------------------
(* A constant without its semicolon, a sensor or an invariant without its  *)
(* braces: the first pass looks for them behind the end of the file.       *)
Unclosed(w) ==
    LET Braces(type, i, k) == Cardinality({j \in i .. k : w[j].type = type})
    IN  \E i \in 1 .. Len(w) - 2 :
            /\ w[i].type = "identifier"
            /\ \/ w[i + 2].type = "constant" /\ Braces("semicolon", i, Len(w)) = 0
               \/ /\ w[i + 2].type \in {"sensor", "invariant"}
                  /\ \A k \in i .. Len(w) : \/ Braces("leftBrace", i, k) = 0
                                            \/ Braces("leftBrace", i, k) > Braces("rightBrace", i, k)

(* A file is parsed to an end, but for those, where the pass looks on       *)
(* behind the last token for ever.                                         *)
Ends == <>(Ended \/ (at = Len(text) /\ Unclosed(text)))
=============================================================================
