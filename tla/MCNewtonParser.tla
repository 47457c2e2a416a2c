--------------------------- MODULE MCNewtonParser ---------------------------
(***************************************************************************)
(* NewtonParser on files.  Those made from the grammar hold, for each      *)
(* production, each way to write it, with the shortest phrases for its     *)
(* parts, in the middle of the shortest file it may occur in; and the same *)
(* files with a token left out or written twice.  Those made by hand are   *)
(* about names, dimensions and sensors.                                    *)
(*                                                                         *)
(* A file is written as a sequence of words: a word is the type of a       *)
(* token, or it is a name, a number or a string.                           *)
(***************************************************************************)
EXTENDS NewtonNamesCheck

Numbers == ("0" :> <<0, 1>>) @@ ("1" :> <<1, 1>>) @@ ("2" :> <<2, 1>>) @@ ("3" :> <<3, 1>>)
           @@ ("4" :> <<4, 1>>) @@ ("5" :> <<5, 1>>) @@ ("0.5" :> <<1, 2>>)
Names == {"l", "m", "t", "s", "v", "w", "k", "x", "y", "q", "r", "d", "i", "V", "W"}
Strings == {"metre", "second"}

Spelt(w) ==
    CASE w \in DOMAIN Numbers ->
            [type |-> IF w = "0.5" THEN "realConst" ELSE "integerConst",
             name |-> "", value |-> Numbers[w]]
      [] w \in Names -> [type |-> "identifier", name |-> w, value |-> <<0, 1>>]
      [] w \in Strings -> [type |-> "stringConst", name |-> w, value |-> <<0, 1>>]
      [] OTHER -> [type |-> w, name |-> "", value |-> <<0, 1>>]

File(words) ==
    LET all == Append(words, "Zeof")
    IN  [i \in DOMAIN all |-> Spelt(all[i])]

-----------------------------------------------------------------------------
(* Parts of files.                                                         *)

Signal(name, body) ==
    <<name, "colon", "signal", "assign", "leftBrace">> \o body \o <<"rightBrace">>
NameIs(string) == <<"name", "assign", string, "English", "semicolon">>
SymbolIs(symbol) == <<"symbol", "assign", symbol, "semicolon">>
DerivesFrom(words) == <<"derivation", "assign">> \o words \o <<"semicolon">>

(* The signals l and t, with the symbols m and s.                          *)
Metre == Signal("l", NameIs("metre") \o SymbolIs("m") \o DerivesFrom(<<"none">>))
Second == Signal("t", NameIs("second") \o SymbolIs("s") \o DerivesFrom(<<"none">>))

(* The signals v and w, with the symbols V and W.                          *)
CapitalOf == ("v" :> "V") @@ ("w" :> "W")
Derived(name, expression) == Signal(name, SymbolIs(CapitalOf[name]) \o DerivesFrom(expression))
Invariant(name, parameters, body) ==
    <<name, "colon", "invariant">> \o parameters \o <<"assign", "leftBrace">> \o body
    \o <<"rightBrace">>
Sensor(name, parameters, body) ==
    <<name, "colon", "sensor">> \o parameters \o <<"assign", "leftBrace">> \o body
    \o <<"rightBrace">>
-----------------------------------------------------------------------------
(* Files made from the grammar.                                            *)

(* The phrase that stands for a production inside of others.               *)
Chosen ==
    [p \in {"quantityExpression", "quantityFactor", "expression", "numericExpression",
            "numericFactor"} |-> <<"2">>]
    @@ [p \in {"constraint", "constraintList"} |-> <<"2", "lt", "2">>]
    @@ ("unitExpression" :> <<"m">>) @@ ("parameter" :> <<"x", "colon", "m">>)
    @@ ("sensorInterfaceType" :> <<"spi">>) @@ ("sensorInterfaceCommand" :> <<"delay", "2">>)
    @@ ("distribution" :> <<"Gaussian">>)
    @@ ("identifier" :> <<"m">>) @@ ("integerConst" :> <<"2">>) @@ ("realConst" :> <<"0.5">>)
    @@ ("stringConst" :> <<"metre">>)

Short == Shorts(Grammar, Chosen)

(* Files around a phrase.                                                  *)

Constant(words) == <<"k", "colon", "constant", "assign">> \o words \o <<"semicolon">>
OfSignal(words) == Signal("v", words)
OfInvariant(words) == Invariant("q", <<"leftParen", "x", "colon", "l", "rightParen">>, words)
OfCase(words) == OfInvariant(<<"piecewise", "leftBrace">> \o words \o <<"rightBrace">>)
OfSensor(words) == Sensor("w", <<"leftParen", "x", "colon", "m", "rightParen">>, words)
OfInterface(words) ==
    OfSensor(<<"interface", "x", "equals", "spi", "leftParen", "x", "colon", "m", "rightParen",
               "leftBrace">> \o words \o <<"rightBrace">>)
OfExpression(words) == OfInterface(<<"x", "assign">> \o words \o <<"semicolon">>)
Symbol1 == SymbolIs("v")
Derivation1 == DerivesFrom(<<"m">>)
Below == <<"lt", "2">>

InFile(p, w) ==
    CASE p \in {"newtonDescription", "ruleList", "rule", "constantDefinition",
                "invariantDefinition", "baseSignalDefinition", "sensorDefinition"} -> w
      [] p \in {"nameStatement", "signalUncertaintyStatement", "sensorStatement"} ->
            OfSignal(w \o Symbol1 \o Derivation1)
      [] p = "symbolStatement" -> OfSignal(w \o Derivation1)
      [] p = "derivationStatement" -> OfSignal(Symbol1 \o w)
      [] p = "languageSetting" ->
            OfSignal(<<"name", "assign", "metre">> \o w \o <<"semicolon">> \o Symbol1 \o Derivation1)
      [] p = "subdimensionTuple" ->
            <<"v", "colon", "signal">> \o w \o <<"assign", "leftBrace">> \o Symbol1
            \o Derivation1 \o <<"rightBrace">>
      [] p = "parameterTuple" -> Invariant("q", w, <<>>)
      [] p = "parameter" -> Invariant("q", <<"leftParen">> \o w \o <<"rightParen">>, <<>>)
      [] p \in {"constraintList", "constraint", "piecewiseConstraint"} -> OfInvariant(w)
      [] p = "callParameterTuple" -> OfInvariant(<<>>) \o OfInvariant(<<"q">> \o w)
      [] p \in {"caseStatementList", "caseStatement"} -> OfCase(w)
      [] p \in {"quantityExpression", "quantityTerm", "quantityFactor", "quantity"} ->
            OfInvariant(w \o Below)
      [] p = "functionalOperator" -> OfInvariant(w \o <<"2", "2">> \o Below)
      [] p \in {"transcendental", "distribution"} ->
            OfInvariant(w \o <<"leftParen", "2", "rightParen">> \o Below)
      [] p \in {"lowPrecedenceOperator", "highPrecedenceOperator", "vectorOp",
                "highPrecedenceQuantityOperator", "exponentiationOperator"} ->
            OfInvariant(<<"2">> \o w \o <<"2">> \o Below)
      [] p = "unaryOp" -> OfInvariant(w \o <<"2">> \o Below)
      [] p = "comparisonOperator" -> OfInvariant(<<"2">> \o w \o <<"2">>)
      [] p \in {"unitFactor", "unit"} -> Constant(<<"2">> \o w)
      [] p \in {"unitExpression", "unitTerm"} ->
            Constant(<<"2", "leftParen">> \o w \o <<"rightParen">>)
      [] p \in {"numericFactor", "numericConst"} -> Constant(w)
      [] p \in {"numericExpression", "numericTerm"} ->
            Constant(<<"leftParen">> \o w \o <<"rightParen">>)
      [] p \in {"expression", "term", "factor", "distributionFactor"} -> OfExpression(w)
      [] p = "parameterValueList" -> OfExpression(<<"Gaussian">> \o w)
      [] p \in {"lowPrecedenceBinaryOp", "highPrecedenceBinaryOp"} ->
            OfExpression(<<"2">> \o w \o <<"2">>)
      [] p = "sensorInterfaceType" -> OfSensor(<<"interface", "x", "equals">> \o w)
      [] p = "sensorInterfaceCommandList" -> OfInterface(w)
      [] p \in {"sensorInterfaceCommand", "readRegisterCommand", "writeRegisterCommand",
                "delayCommand", "arithmeticCommand"} -> OfInterface(w \o <<"semicolon">>)
      [] p = "numericConstTupleList" -> OfSensor(<<"accuracy", "x", "equals">> \o w)
      [] p = "numericConstTuple" ->
            OfSensor(<<"accuracy", "x", "equals", "leftBrace">> \o w \o <<"rightBrace">>)
      [] OTHER -> OfSensor(w)

Sentences(p) == {Metre \o InFile(p, w) : w \in Phrases(Grammar, Short, p)}

(* With a token left out, or one written twice.                            *)
Spoilt(p) ==
    LET w == Short[p]
    IN  UNION {{Metre \o InFile(p, Without(w, i)), Metre \o InFile(p, Twice(w, i))}
               : i \in DOMAIN w}

GrammarFiles == {File(w) : w \in UNION {Sentences(p) : p \in DOMAIN Grammar}}
SpoiltFiles == {File(w) : w \in UNION {Spoilt(p) : p \in DOMAIN Grammar}}

-----------------------------------------------------------------------------
(* Derivations, over the signals l and t.                                  *)

Basic == {<<"m">>, <<"s">>, <<"2">>}
Operands == Basic \cup
    {<<"m", "exponentiation", "2">>, <<"leftParen", "m", "div", "s", "rightParen">>,
     <<"leftParen", "m", "mul", "s", "rightParen", "exponentiation",
       "leftParen", "1", "div", "2", "rightParen">>}
Signs == {"mul", "div", "plus", "minus"}
Expressions ==
    {a \o <<op>> \o b : a \in Operands, b \in Operands, op \in Signs}
    \cup {a \o <<op>> \o b \o <<o>> \o <<c>> : a \in Basic, b \in Basic, c \in {"m", "s"},
                                               op \in {"div", "minus"}, o \in Signs}
    \cup {<<"minus">> \o a \o <<"plus", "minus">> \o b : a \in Basic, b \in Basic}

DerivationFiles == {File(Metre \o Second \o Derived("v", e)) : e \in Expressions}

Units == {<<>>, <<"m">>, <<"m", "exponentiation", "2">>,
          <<"leftParen", "m", "mul", "s", "exponentiation", "2", "rightParen">>,
          <<"leftParen", "leftParen", "m", "mul", "m", "rightParen", "mul", "s", "rightParen">>}
ConstantFiles ==
    {File(Metre \o Second \o Constant(<<"3">> \o u) \o Derived("v", <<"k", "mul", "s">>)
          \o Derived("w", <<"v", "div", "k", "plus", "t">>)) : u \in Units}

-----------------------------------------------------------------------------
(* Invariants: their parameters, the quantities in them, and their calls.  *)

Listed(names) == FlattenSeq([i \in DOMAIN names |-> IF i = 1 THEN <<names[i]>>
                                                   ELSE <<"comma", names[i]>>])
Typed(names, types) ==
    <<"leftParen">>
    \o FlattenSeq([i \in DOMAIN types |-> (IF i = 1 THEN <<>> ELSE <<"comma">>)
                                          \o <<names[i], "colon", types[i]>>])
    \o <<"rightParen">>
Types == {<<"m">>, <<"m", "s">>, <<"l", "t">>, <<"v", "m">>}
Speed == Derived("v", <<"m", "div", "s">>)
XY == <<"x", "y">>

QuantityFiles ==
    {File(Metre \o Second \o Speed \o Invariant("q", Typed(XY, types), body \o Below))
     : types \in Types \cup {<<"k", "m">>},
       body \in {<<a, op, b>> : a \in {"x", "m", "2"}, b \in {"x", "y", "2", "w"},
                               op \in {"mul", "plus"}}}

CallFiles ==
    {File(Metre \o Second \o Speed \o Invariant("q", Typed(XY, types), <<>>)
          \o Invariant("r", Typed(XY, <<"v", "s">>),
                       <<"q", "leftParen">> \o Listed(arguments) \o <<"rightParen">>))
     : types \in Types,
       arguments \in UNION {[1 .. n -> {"x", "y", "m"}] : n \in 1 .. 2}
                    \cup {<<"x", "y", "m">>}}

ShortCallFiles ==
    {File(Metre \o Invariant("q", Typed(XY, types), <<>>)
          \o Invariant("r", Typed(<<"w">>, <<"m">>),
                       <<"q", "leftParen">> \o Listed(arguments) \o <<"rightParen">>))
     : types \in {<<"m">>, <<"m", "m">>}, arguments \in {<<"w">>, <<"w", "w">>, <<"w", "m">>}}

(* Names: of other invariants and signals, of the interface of a sensor,   *)
(* and of the parameters of a distribution, used in and behind their place.*)
Places(name) ==
    LET command == <<"y", "def", "read", "2", "semicolon">>
        interface == <<"interface", "x", "equals", "spi", "leftParen", "w", "colon", "m",
                       "rightParen", "leftBrace">>
        uses == <<name, "assign", name, "plus", "2", "semicolon">>
        value == <<"Gaussian", "leftParen", "i", "colon", "2", "comma", "k", "colon">>
    IN  {interface \o command \o uses \o <<"rightBrace">>,
         interface \o uses \o command \o <<"rightBrace">>,
         interface \o command \o <<"rightBrace", "comma", "range", name, "equals",
             "leftBracket", "0", "m", "comma", "2", "m", "rightBracket">>,
         <<"uncertainty", "x", "equals">> \o value \o <<name, "rightParen">>,
         <<"uncertainty", "x", "equals">> \o value \o <<"2", "rightParen", "comma",
           "erasureToken", name, "equals", "2">>}
ScopeFiles ==
    {File(Metre \o Sensor("d", Typed(XY, <<"m">>), place))
     : place \in UNION {Places(name) : name \in {"x", "y", "w", "i", "k", "d", "q"}}}
    \cup {File(Metre \o first \o Invariant("r", Typed(XY, <<"m", type>>), <<name>> \o Below))
          : first \in {Invariant("q", Typed(<<"w">>, <<"m">>), <<>>), Second},
            type \in {"m", "t", "l", "x"}, name \in {"x", "w", "q", "t"}}

(* A signal with subindices.                                               *)
SubindexFiles ==
    {File(Metre \o <<"v", "colon", "signal", "leftParen", "i", "colon", a, "to", b, "rightParen",
                     "assign", "leftBrace">> \o SymbolIs("V") \o DerivesFrom(<<"m">>)
          \o <<"rightBrace">> \o Speed1 \o Invariant("q", <<"leftParen", "x", "colon", "v", "leftBracket", n,
                                       "rightBracket", "rightParen">>, <<"x", "lt", "2", "mul", "x">>))
     : a \in {"0", "1", "3"}, b \in {"0", "1", "3"}, n \in {"0", "2"},
       Speed1 \in {Second, Derived("w", <<"v", "leftBracket", "i", "rightBracket", "mul", "m">>)}}

-----------------------------------------------------------------------------
(* Sensors with statements about two modalities, in any order.             *)

Bounds(x, low, high) == <<"range", x, "equals", "leftBracket", low, "m", "comma", high, "m",
                          "rightBracket">>
Accuracy(x, a, c) == <<"accuracy", x, "equals", "leftBrace", "leftParen", a, "m", "comma", c,
                       "rightParen", "rightBrace">>
Precision(x, a, unit, c) ==
    <<"precision", x, "equals", "leftBrace", "leftParen", a>> \o unit \o <<"comma", c,
      "rightParen", "rightBrace">>
I2C(x, a) == <<"interface", x, "equals", "i2c", "leftParen", "q", "colon", a, "rightParen">>
Statements(x, a, b, unit) == {Bounds(x, a, b), Accuracy(x, a, b), Precision(x, a, unit, b), I2C(x, a)}

OneSensor(name, p) == Sensor(name, Typed(XY, <<"m", "s">>), p)
SensorFiles ==
    {File(Metre \o Second \o OneSensor("w", p \o <<"comma">> \o o))
     : p \in Statements("x", "1", "2", <<>>) \cup {Precision("x", "1", <<"m">>, "2")},
       o \in Statements("y", "3", "4", <<>>) \cup Statements("x", "3", "0.5", <<>>)}
TwoSensors ==
    {File(Metre \o Second \o OneSensor("w", p) \o OneSensor("d", o))
     : p \in {Bounds("x", "1", "2")}, o \in Statements("x", "3", "4", <<>>)}

-----------------------------------------------------------------------------
MCLanguage == GrammarFiles \cup SpoiltFiles \cup {File(<<"m">>), File(<<>>)}
MCMeanings == DerivationFiles \cup ConstantFiles \cup QuantityFiles \cup CallFiles \cup ShortCallFiles
              \cup ScopeFiles \cup SubindexFiles \cup SensorFiles \cup TwoSensors
MCFiles == MCLanguage \cup MCMeanings

-----------------------------------------------------------------------------
(* A constant in a product and in a quotient of units.                     *)
MCDivided == {File(Metre \o Second \o Constant(<<"3", "leftParen", "m", op, "s", "rightParen">>))
              : op \in {"mul", "div"}}
=============================================================================
