--------------------------- MODULE NewtonGrammar ---------------------------
(***************************************************************************)
(* The Newton language as it is documented: the grammar of newton.grammar, *)
(* which the comments above the parser's functions repeat, production by   *)
(* production.  It is what the parser is compared with, and nothing in it  *)
(* comes from the parser's code.                                           *)
(***************************************************************************)
EXTENDS ContextFree

LOCAL INSTANCE NewtonTables

DefinitionProductions ==
    [newtonDescription |-> {All(<<"ruleList">>)},
     ruleList |-> {<<Rep(<<"rule">>)>>},
     rule |-> {<<Among({"constantDefinition", "invariantDefinition",
                        "baseSignalDefinition", "sensorDefinition"})>>},
     constantDefinition |->
        {All(<<"identifier", "colon", "constant", "assign", "numericFactor">>)
         \o <<Opt(<<"unitFactor">>), One("semicolon")>>},
     invariantDefinition |->
        {All(<<"identifier", "colon", "invariant", "parameterTuple", "assign", "leftBrace">>)
         \o <<Opt(<<"constraintList">>), One("rightBrace")>>},
     baseSignalDefinition |->
        {All(<<"identifier", "colon", "signal">>)
         \o <<Opt(<<"subdimensionTuple">>), One("assign"), One("leftBrace"),
              Opt(<<"nameStatement">>), Opt(<<"signalUncertaintyStatement">>),
              Opt(<<"sensorStatement">>), One("symbolStatement"),
              One("derivationStatement"), One("rightBrace")>>},
     sensorDefinition |->
        {All(<<"identifier", "colon", "sensor", "parameterTuple", "assign", "leftBrace",
               "sensorPropertyList", "rightBrace">>)},
     nameStatement |->
        {All(<<"name", "assign", "stringConst", "languageSetting", "semicolon">>)},
     signalUncertaintyStatement |->
        {<<One("uncertainty"), One("assign"), One("distribution"), Opt(<<"parameterTuple">>),
           One("semicolon")>>},
     sensorStatement |-> {All(<<"sensor", "assign", "identifier", "semicolon">>)},
     symbolStatement |-> {All(<<"symbol", "assign", "identifier", "semicolon">>)},
     derivationStatement |->
        {<<One("derivation"), One("assign"),
           Among({"none", "dimensionless", "quantityExpression"}), One("semicolon")>>},
     subdimensionTuple |->
        {All(<<"leftParen", "identifier", "colon", "numericExpression", "to",
               "numericExpression", "rightParen">>)},
     parameterTuple |-> {<<One("leftParen")>> \o List("parameter") \o <<One("rightParen")>>},
     parameter |->
        {<<One("identifier"), One("colon"), Among({"identifier", "numericExpression"}),
           Rep(<<"leftBracket", "integerConst", "rightBracket">>)>>},
     languageSetting |-> {All(<<"English">>)}]

ConstraintProductions ==
    [constraintList |-> {<<Opt(<<"constraint">>), Rep(<<"comma", "constraint">>)>>},
     constraint |->
        {All(<<"quantityExpression", "comparisonOperator", "quantityExpression">>),
         All(<<"identifier", "callParameterTuple">>), All(<<"piecewiseConstraint">>)},
     callParameterTuple |-> {<<One("leftParen")>> \o List("identifier") \o <<One("rightParen")>>},
     piecewiseConstraint |->
        {All(<<"piecewise", "leftBrace", "caseStatementList", "rightBrace">>)},
     caseStatementList |-> {List("caseStatement")},
     caseStatement |->
        {All(<<"case", "constraint", "rightArrow", "leftBrace", "constraintList", "rightBrace">>),
         All(<<"otherwise", "rightArrow", "leftBrace", "constraintList", "rightBrace">>)},
     quantityExpression |-> {<<One("quantityTerm"), Rep(<<"lowPrecedenceOperator", "quantityTerm">>)>>},
     quantityTerm |->
        {<<Opt(<<"unaryOp">>), One("quantityFactor"),
           Rep(<<"highPrecedenceQuantityOperator", "quantityFactor">>)>>},
     quantityFactor |->
        {<<One("quantity"), Opt(<<"exponentiationOperator", "numericFactor">>)>>,
         <<One("functionalOperator"), Rep(<<"functionalOperator">>),
           One("quantityFactor"), One("quantityFactor")>>,
         All(<<"distribution", "leftParen">>) \o List("quantityExpression") \o <<One("rightParen")>>,
         All(<<"transcendental", "leftParen", "quantityExpression", "rightParen">>),
         All(<<"leftParen", "quantityExpression", "rightParen">>)
            \o <<Opt(<<"exponentiationOperator", "numericFactor">>)>>,
         <<One("leftBrace")>> \o List("quantityExpression") \o <<One("rightBrace")>>},
     quantity |->
        {All(<<"numericConst">>),
         <<One("identifier"), Opt(<<"leftBracket", "numericFactor", "rightBracket">>)>>}]

OperatorProductions ==
    [highPrecedenceQuantityOperator |-> {<<Among({"highPrecedenceOperator", "vectorOp", "mutualinf"})>>},
     lowPrecedenceOperator |-> {<<Among({"plus", "minus"})>>},
     highPrecedenceOperator |-> {<<Among({"mul", "div"})>>},
     exponentiationOperator |-> {All(<<"exponentiation">>)},
     vectorOp |-> {<<Among({"dot", "cross"})>>},
     functionalOperator |-> {<<Among({"derivative", "integral"})>>},
     comparisonOperator |->
        {<<Among({"dimensionallyAgnosticProportional", "dimensionallyMatchingProportional",
                  "lt", "le", "gt", "ge", "equals", "related"})>>},
     highPrecedenceBinaryOp |-> {<<Among({"mul", "div", "percent", "exponentiation"})>>},
     lowPrecedenceBinaryOp |-> {<<Among({"plus", "minus", "rightShift", "leftShift", "bitwiseOr"})>>},
     unaryOp |-> {<<Among({"minus", "plus"})>>},
     distribution |-> {<<Among(DistributionTokens)>>},
     transcendental |-> {<<Among(TranscendentalTokens)>>}]

NumberProductions ==
    [unitExpression |-> {All(<<"unitTerm">>)},
     unitTerm |-> {<<One("unitFactor"), Rep(<<"highPrecedenceOperator", "unitFactor">>)>>},
     unitFactor |->
        {<<One("unit"), Opt(<<"exponentiationOperator", "numericFactor">>)>>,
         All(<<"leftParen", "unitExpression", "rightParen">>)},
     unit |-> {All(<<"identifier">>)},
     numericExpression |-> {<<One("numericTerm"), Rep(<<"lowPrecedenceOperator", "numericTerm">>)>>},
     numericTerm |-> {<<One("numericFactor"), Rep(<<"highPrecedenceOperator", "numericFactor">>)>>},
     numericFactor |->
        {<<One("numericConst"), Opt(<<"exponentiationOperator", "numericConst">>)>>,
         All(<<"leftParen", "numericExpression", "rightParen">>)},
     numericConst |-> {<<Among({"integerConst", "realConst"})>>},
     expression |-> {<<One("term"), Rep(<<"lowPrecedenceBinaryOp", "term">>)>>},
     term |->
        {<<Opt(<<"unaryOp">>), One("factor"), OptAmong({"plusPlus", "minusMinus"}),
           Rep(<<"highPrecedenceBinaryOp", "factor">>)>>},
     factor |->
        {<<Among({"numericConst", "distributionFactor"})>>,
         All(<<"leftParen", "expression", "rightParen">>),
         <<One("identifier"), Opt(<<"leftBracket", "numericExpression", "rightBracket">>)>>},
     distributionFactor |-> {All(<<"distribution", "parameterValueList">>)},
     parameterValueList |->
        {All(<<"leftParen", "identifier", "colon", "expression">>)
         \o <<Rep(<<"comma", "identifier", "colon", "expression">>), One("rightParen")>>}]

SensorProductions ==
    [sensorPropertyList |-> {List("sensorProperty")},
     sensorProperty |->
        {<<Among({"rangeStatement", "uncertaintyStatement", "erasureValueStatement",
                  "accuracyStatement", "precisionStatement", "sensorInterfaceStatement"})>>},
     sensorInterfaceStatement |->
        LET head == <<One("interface"), One("identifier"),
                      Opt(<<"atSign", "numericFactor", "bits">>), One("equals"),
                      One("sensorInterfaceType")>>
        IN  {head,
             head \o <<One("parameterTuple"),
                       Opt(<<"leftBrace", "sensorInterfaceCommandList", "rightBrace">>)>>},
     sensorInterfaceType |-> {<<Among({"i2c", "spi", "analog"})>>},
     sensorInterfaceCommandList |->
        {<<One("sensorInterfaceCommand"), One("semicolon"),
           Rep(<<"sensorInterfaceCommand", "semicolon">>)>>},
     sensorInterfaceCommand |->
        {<<Among({"readRegisterCommand", "writeRegisterCommand", "delayCommand",
                  "arithmeticCommand"})>>},
     readRegisterCommand |->
        {<<One("identifier"), OptAmong({"def", "assign"}), One("read"),
           Opt(<<"leftBracket", "numericExpression", "rightBracket", "comma">>),
           One("numericExpression")>>},
     writeRegisterCommand |->
        {All(<<"write", "numericExpression", "comma", "numericExpression">>)},
     delayCommand |-> {All(<<"delay", "numericExpression">>)},
     arithmeticCommand |-> {<<One("identifier"), OptAmong({"def", "assign"}), One("expression")>>},
     rangeStatement |->
        {All(<<"range", "identifier", "equals", "leftBracket", "numericFactor">>)
         \o <<Opt(<<"unitFactor">>), One("comma"), One("numericFactor"), Opt(<<"unitFactor">>),
              One("rightBracket")>>},
     uncertaintyStatement |->
        {All(<<"uncertainty", "identifier", "equals", "factor">>) \o <<Opt(<<"unitFactor">>)>>},
     erasureValueStatement |->
        {All(<<"erasureToken", "identifier", "equals", "numericFactor">>)
         \o <<Opt(<<"unitFactor">>)>>},
     accuracyStatement |-> {All(<<"accuracy", "identifier", "equals", "numericConstTupleList">>)},
     precisionStatement |-> {All(<<"precision", "identifier", "equals", "numericConstTupleList">>)},
     numericConstTupleList |->
        {<<One("leftBrace")>> \o List("numericConstTuple") \o <<One("rightBrace")>>},
     numericConstTuple |->
        {All(<<"leftParen", "numericFactor">>)
         \o <<Opt(<<"unitFactor">>), One("comma"), One("numericFactor"), One("rightParen")>>}]

Grammar ==
    DefinitionProductions @@ ConstraintProductions @@ OperatorProductions
    @@ NumberProductions @@ SensorProductions

-----------------------------------------------------------------------------
(* The language.                                                           *)

(* A text is a sentence when a description ends before its last token,     *)
(* which is Zeof.                                                          *)
Sentence(w) ==
    /\ w[Len(w)].type = "Zeof"
    /\ Len(w) \in EndsOf(Grammar, w, 1, "newtonDescription")
=============================================================================
