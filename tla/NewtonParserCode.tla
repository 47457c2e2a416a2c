-------------------------- MODULE NewtonParserCode --------------------------
(***************************************************************************)
(* The functions of the Newton parser: for each newtonParseX the           *)
(* statements it executes, as the data of the machine of RecursiveDescent. *)
(* "Do" names a computation with names, values or dimensions, which is an  *)
(* action of NewtonParser; "Name" is one of the three terminals that       *)
(* define or look up an identifier.                                        *)
(***************************************************************************)
EXTENDS RecursiveDescent, NewtonTables

First(p) == OneOf(gNewtonFirsts[p])

(* The tests and calls that occur over and over in the parser.             *)
Alternative(p) == <<First(p), <<Leaf(Call(p))>> >>
TokenAlternative(t) == <<Next1(t), <<Leaf(Token(t))>> >>
Then(separator, s) == Repeat(Next1(separator), <<Token(separator), s>>)
Exponent(action) ==
    When(First("exponentiationOperator"),
         <<Chain(Call("exponentiationOperator")), Chain(Call("numericFactor")), Do(action)>>)
Unit == When(First("unitFactor"), <<Chain(Call("unitFactor"))>>)

-----------------------------------------------------------------------------
(* Files and definitions.                                                  *)

newtonParseFile ==
    <<Leaf(Call("ruleList")), Either(Next1("Zeof"), <<>>, <<Fail>>)>>

newtonParseRuleList ==
    <<When(First("rule"), <<Leaf(Call("rule"))>>),
      Repeat(First("rule"), <<Chain(Call("rule"))>>)>>

newtonParseRule ==
    <<Switch(<< <<Ahead(3, "sensor"), <<Call("sensorDefinition")>> >>,
                <<Ahead(3, "signal"), <<Call("baseSignalDefinition")>> >>,
                <<Ahead(3, "constant"), <<Call("constantDefinition")>> >>,
                <<Ahead(3, "invariant"), <<Call("invariantDefinition")>> >> >>),
      Do("return it")>>

newtonParseConstant ==
    <<Leaf(Name("definition")), Token("colon"), Token("constant"), Token("assign"),
      Do("new physics"),
      Either(First("numericFactor"), <<Call("numericFactor"), Do("constant")>>, <<Fail>>),
      When(First("unitFactor"),
           <<Call("unitFactor"), Do("unit of constant"), Do("chain it"),
             Do("physics of constant")>>),
      Token("semicolon")>>

newtonParseInvariant ==
    <<Leaf(Name("definition")), Token("colon"), Token("invariant"), Do("open scope"),
      Call("parameterTuple"), Do("parameter list"), Do("chain it"),
      Token("assign"), Token("leftBrace"),
      When(First("constraint"), <<Chain(Call("constraintList")), Do("invariant id")>>),
      Token("rightBrace"), Do("close scope"), Do("add invariant")>>

newtonParseSubindexTuple ==
    <<Token("leftParen"), Leaf(Token("identifier")), Token("colon"),
      Call("numericExpression"), Token("to"), Call("numericExpression"),
      Do("subindex end"), Token("rightParen")>>

newtonParseParameterTuple ==
    <<Token("leftParen"), Leaf(Call("parameter")), Do("number it"),
      Repeat(Next1("comma"),
             <<Token("comma"), Chain(Call("parameter")), Do("number it")>>),
      Token("rightParen")>>

newtonParseParameter ==
    <<Leaf(Name("definition")), Token("colon"),
      Either(Next1("identifier"),
             <<Leaf(Name("usage")),
               When(Next1("leftBracket"),
                    <<Token("leftBracket"), Token("integerConst"), Do("subindex of parameter"),
                      Token("rightBracket")>>),
               Do("physics of parameter")>>,
             <<Leaf(Call("numericExpression"))>>)>>

newtonParseBaseSignal ==
    <<Leaf(Name("definition")), Do("new physics"), Token("colon"), Token("signal"),
      When(Ahead(5, "to"), <<Call("subdimensionTuple")>>),
      Token("assign"), Token("leftBrace"),
      When(First("nameStatement"), <<Chain(Call("nameStatement")), Do("alias")>>),
      When(First("signalUncertaintyStatement"), <<Chain(Call("signalUncertaintyStatement"))>>),
      When(First("sensorStatement"), <<Chain(Call("sensorStatement"))>>),
      When(First("symbolStatement"), <<Chain(Call("symbolStatement")), Do("abbreviation")>>),
      Call("derivationStatement"), Do("derivation"), Do("chain it"),
      Do("subindices"), Token("rightBrace")>>

newtonParseName ==
    <<Leaf(Token("name")), Chain(Token("assign")), Chain(Token("stringConst")), Do("take its name"),
      Chain(Call("languageSetting")), Token("semicolon")>>

newtonParseSignalUncertainty ==
    <<Leaf(Token("uncertainty")), Chain(Token("assign")), Call("distribution"),
      Do("open scope"), Do("chain it"),
      When(First("parameterTuple"), <<Chain(Call("parameterTuple"))>>),
      Token("semicolon"), Do("close scope")>>

newtonParseSignalSensor ==
    <<Leaf(Token("sensor")), Chain(Token("assign")), Chain(Name("usage")), Token("semicolon")>>

newtonParseLanguageSetting == <<Switch(<<TokenAlternative("English")>>)>>

newtonParseSymbol ==
    <<Token("symbol"), Token("assign"), Leaf(Name("definition")), Do("take its name"),
      Token("semicolon")>>

newtonParseDerivation ==
    <<Token("derivation"), Token("assign"),
      Either(OneOf({"none", "dimensionless"}),
             <<Leaf(AnyOf({"none", "dimensionless"}))>>,
             <<Leaf(Call("quantityExpression"))>>),
      Token("semicolon")>>

-----------------------------------------------------------------------------
(* Units and numbers.                                                      *)

newtonParseUnitExpression == <<Leaf(Call("unitTerm"))>>

(* Mutant: one operator at most.                                           *)
newtonParseUnitTerm_Once ==
    <<Leaf(Call("unitFactor")),
      When(First("highPrecedenceQuantityOperator"),
           <<Chain(Call("highPrecedenceQuantityOperator")), Chain(Call("unitFactor"))>>)>>

newtonParseUnitTerm ==
    <<Leaf(Call("unitFactor")),
      Repeat(First("highPrecedenceQuantityOperator"),
             <<Chain(Call("highPrecedenceQuantityOperator")), Chain(Call("unitFactor"))>>)>>

newtonParseUnitFactor ==
    <<Switch(<< <<First("unit"),
                  <<Leaf(Call("unit")), Exponent("raise to exponent")>> >>,
                <<Next1("leftParen"),
                  <<Token("leftParen"), Leaf(Call("unitExpression")), Token("rightParen")>> >> >>)>>

newtonParseUnit == <<Leaf(Name("usage")), Do("physics of unit")>>

newtonParseNumericExpression ==
    <<Leaf(Call("numericTerm")),
      Repeat(First("lowPrecedenceOperator"),
             <<Chain(Call("lowPrecedenceOperator")), Chain(Call("numericTerm"))>>),
      Do("fold")>>

newtonParseNumericTerm ==
    <<Leaf(Call("numericFactor")),
      Repeat(First("highPrecedenceQuantityOperator"),
             <<Chain(Call("highPrecedenceQuantityOperator")), Chain(Call("numericFactor"))>>),
      Do("fold")>>

newtonParseNumericFactor ==
    <<Switch(<< <<First("numericConst"),
                  <<Leaf(Call("numericConst")),
                    When(First("exponentiationOperator"),
                         <<Chain(Call("exponentiationOperator")), Chain(Call("numericConst"))>>)>> >>,
                <<Next1("leftParen"),
                  <<Token("leftParen"), Leaf(Call("numericExpression")), Token("rightParen")>> >> >>),
      Do("fold")>>

newtonParseNumericConst ==
    <<Switch(<<TokenAlternative("integerConst"), TokenAlternative("realConst")>>), Do("value")>>

-----------------------------------------------------------------------------
(* Quantities.                                                             *)

newtonParseQuantityExpression ==
    <<Switch(<< <<First("quantityTerm"),
                  <<Leaf(Call("quantityTerm")), Do("physics of first"),
                    Repeat(First("lowPrecedenceOperator"),
                           <<Chain(Call("lowPrecedenceOperator")), Chain(Call("quantityTerm")),
                             Do("same dimensions")>>)>> >> >>)>>

newtonParseQuantityTerm ==
    <<Do("no dimensions"),
      When(First("unaryOp"), <<Leaf(Call("unaryOp"))>>),
      Chain(Call("quantityFactor")), Do("multiply"),
      Repeat(First("highPrecedenceQuantityOperator"),
             <<Chain(Call("highPrecedenceQuantityOperator")), Chain(Call("quantityFactor")),
               Do("multiply or divide")>>)>>

newtonParseQuantityFactor ==
    <<Switch(<< <<First("quantity"),
                  <<Leaf(Call("quantity")), Exponent("raise to exponent"), Do("physics of first")>> >>,
                <<First("functionalOperator"),
                  <<Chain(Call("functionalOperator")),
                    Repeat(First("functionalOperator"), <<Chain(Call("functionalOperator"))>>),
                    Chain(Call("quantityFactor")), Chain(Call("quantityFactor"))>> >>,
                <<First("distribution"),
                  <<Chain(Call("distribution")), Token("leftParen"),
                    Chain(Call("quantityExpression")), Then("comma", Chain(Call("quantityExpression"))),
                    Token("rightParen")>> >>,
                <<First("transcendental"),
                  <<Chain(Call("transcendental")), Token("leftParen"),
                    Chain(Call("quantityExpression")), Token("rightParen")>> >>,
                <<Next1("leftParen"),
                  <<Token("leftParen"), Chain(Call("quantityExpression")), Token("rightParen"),
                    Exponent("raise to exponent"), Do("physics of first")>> >>,
                <<Next1("leftBrace"),
                  <<Token("leftBrace"), Chain(Call("quantityExpression")),
                    Then("comma", Chain(Call("quantityExpression"))), Token("rightBrace")>> >> >>)>>

newtonParseQuantity ==
    <<Switch(<<Alternative("numericConst"),
               <<Next1("identifier"),
                 <<Chain(Name("usage")), Do("copy physics"),
                   When(Next1("leftBracket"),
                        <<Token("leftBracket"), Token("identifier"), Do("current subindex"),
                          Token("rightBracket")>>),
                   Do("match parameter"), Do("physics of first")>> >> >>)>>

-----------------------------------------------------------------------------
(* Operators.                                                              *)

newtonParseFunctionalOperator ==
    <<Switch(<<TokenAlternative("derivative"), TokenAlternative("integral")>>)>>

newtonParseVectorOp == <<Switch(<<TokenAlternative("dot"), TokenAlternative("cross")>>)>>

newtonParseExponentiationOperator == <<Switch(<<TokenAlternative("exponentiation")>>)>>

newtonParseLowPrecedenceBinaryOp ==
    <<Switch(<<TokenAlternative("plus"), TokenAlternative("minus"), TokenAlternative("rightShift"),
               TokenAlternative("leftShift"), TokenAlternative("bitwiseOr")>>)>>

newtonParseUnaryOp == <<Switch(<<TokenAlternative("minus"), TokenAlternative("plus")>>)>>

newtonParseCompareOp ==
    <<Switch(<<TokenAlternative("dimensionallyAgnosticProportional"),
               TokenAlternative("dimensionallyMatchingProportional"),
               TokenAlternative("lt"), TokenAlternative("le"), TokenAlternative("ge"),
               TokenAlternative("gt"), TokenAlternative("equals"), TokenAlternative("related")>>)>>

newtonParseHighPrecedenceBinaryOp ==
    <<Switch(<<TokenAlternative("mul"), TokenAlternative("div"), TokenAlternative("percent"),
               TokenAlternative("exponentiation")>>)>>

newtonParseLowPrecedenceOperator ==
    <<Switch(<<TokenAlternative("plus"), TokenAlternative("minus")>>)>>

newtonParseHighPrecedenceOperator ==
    <<Switch(<<TokenAlternative("mul"), TokenAlternative("div")>>)>>

newtonParseHighPrecedenceQuantityOperator ==
    <<Switch(<<Alternative("highPrecedenceOperator"), Alternative("vectorOp"),
               TokenAlternative("mutualinf")>>)>>

newtonParseTranscendental ==
    <<Either(First("transcendental"), <<Leaf(AnyOf(TranscendentalTokens))>>, <<Fail>>)>>

(* Every branch but one takes the token it has seen; there is no branch    *)
(* for Erlang.                                                             *)
newtonParseDistribution ==
    LET taken == DistributionTokens \ {"Weibull", "Erlang"}
    IN  <<Switch(<< <<OneOf(taken), <<Leaf(AnyOf(taken))>> >>,
                    <<Next1("Weibull"), <<Leaf(Token("Erlang"))>> >> >>)>>

-----------------------------------------------------------------------------
(* Constraints.                                                            *)

newtonParseConstraint ==
    LET comparison == <<Leaf(Call("quantityExpression")), Chain(Call("comparisonOperator")),
                        Chain(Call("quantityExpression"))>>
    IN  <<Either(First("constraint"),
              <<Either(<< <<2, {"leftParen"}>>, <<1, {"identifier"}>> >>,
                  <<Leaf(Name("invariant")), Chain(Call("callParameterTuple"))>>,
                  <<Either(Next1("piecewise"), <<Leaf(Call("piecewiseConstraint"))>>,
                           comparison)>>)>>,
              <<Fail>>)>>

newtonParseCallParameterTuple ==
    <<Token("leftParen"), Do("first expected parameter"), Leaf(Name("usage")),
      Do("same physics as expected"),
      Repeat(Next1("comma"),
             <<Token("comma"), Do("next expected parameter"), Chain(Name("usage")),
               Do("same physics as expected")>>),
      Do("no more expected"), Token("rightParen")>>

newtonParsePiecewiseConstraint ==
    <<Token("piecewise"), Token("leftBrace"), Leaf(Call("caseStatementList")), Token("rightBrace")>>

newtonParseCaseStatementList ==
    <<Either(First("caseStatementList"),
             <<Leaf(Call("caseStatement")), Then("comma", Chain(Call("caseStatement")))>>,
             <<Fail>>)>>

newtonParseCaseStatement ==
    <<Either(First("caseStatement"),
             <<Either(Next1("case"), <<Token("case"), Leaf(Call("constraint"))>>,
                      <<Leaf(Token("otherwise"))>>),
               Token("rightArrow"), Token("leftBrace"), Chain(Call("constraintList")),
               Token("rightBrace")>>,
             <<Fail>>)>>

newtonParseConstraintList ==
    <<Either(First("constraintList"),
             <<Chain(Call("constraint")), Then("comma", Chain(Call("constraint")))>>,
             <<Fail>>)>>

-----------------------------------------------------------------------------
(* Sensors.                                                                *)

newtonParseSensorDefinition ==
    <<Leaf(Name("definition")), Token("colon"), Token("sensor"), Do("open scope"),
      Chain(Call("parameterTuple")), Do("parameter list"), Token("assign"), Token("leftBrace"),
      Chain(Call("sensorPropertyList")), Token("rightBrace"), Do("close scope")>>

newtonParseSensorPropertyList ==
    <<Leaf(Call("sensorProperty")), Then("comma", Chain(Call("sensorProperty")))>>

newtonParseSensorProperty ==
    <<Switch(<<Alternative("rangeStatement"), Alternative("uncertaintyStatement"),
               Alternative("erasureValueStatement"), Alternative("accuracyStatement"),
               Alternative("precisionStatement"), Alternative("sensorInterfaceStatement")>>)>>

newtonParseSensorInterfaceStatement ==
    <<Token("interface"), Leaf(Name("usage")),
      When(Next1("atSign"),
           <<Token("atSign"), Chain(Call("numericFactor")), Token("mul"), Token("bits")>>),
      Token("equals"), Do("open scope"), Chain(Call("sensorInterfaceType")),
      When(First("parameterTuple"), <<Chain(Call("parameterTuple"))>>),
      When(Next1("leftBrace"),
           <<Do("interface parameters"), Token("leftBrace"),
             Chain(Call("sensorInterfaceCommandList")), Token("rightBrace"), Do("close scope")>>)>>

newtonParseSensorInterfaceType ==
    <<Switch(<<TokenAlternative("i2c"), TokenAlternative("spi"), TokenAlternative("analog")>>)>>

newtonParseSensorInterfaceCommandList ==
    <<Leaf(Call("sensorInterfaceCommand")), Token("semicolon"),
      Repeat(First("sensorInterfaceCommand"),
             <<Chain(Call("sensorInterfaceCommand")), Token("semicolon")>>)>>

newtonParseSensorInterfaceCommand ==
    <<Switch(<< <<Ahead(3, "read"), <<Leaf(Call("readRegisterCommand"))>> >>,
                Alternative("writeRegisterCommand"), Alternative("delayCommand"),
                Alternative("arithmeticCommand")>>)>>

newtonParseReadRegisterCommand ==
    <<Either(Ahead(2, "def"), <<Leaf(Name("definition")), Token("def")>>,
             <<Leaf(Name("usage")), Token("assign")>>),
      Token("read"),
      When(Next1("leftBracket"),
           <<Token("leftBracket"), Chain(Call("numericExpression")), Token("rightBracket"),
             Token("comma")>>),
      Chain(Call("numericExpression"))>>

newtonParseWriteRegisterCommand ==
    <<Token("write"), Leaf(Call("numericExpression")), Token("comma"),
      Leaf(Call("numericExpression"))>>

newtonParseDelayCommand == <<Token("delay"), Leaf(Call("numericExpression"))>>

newtonParseArithmeticCommand ==
    <<Leaf(Name("usage")), Token("assign"), Leaf(Call("expression"))>>

newtonParseRangeStatement ==
    <<Token("range"), Leaf(Name("usage")), Token("equals"), Token("leftBracket"),
      Chain(Call("numericFactor")), Unit, Token("comma"), Leaf(Call("numericFactor")), Unit,
      Token("rightBracket")>>

newtonParseUncertaintyStatement ==
    <<Token("uncertainty"), Leaf(Name("usage")), Token("equals"), Chain(Call("factor")), Unit>>

newtonParseErasureValueStatement ==
    <<Token("erasureToken"), Leaf(Name("usage")), Token("equals"),
      Chain(Call("numericFactor")), Unit>>

newtonParseAccuracyStatement ==
    <<Token("accuracy"), Leaf(Name("usage")), Token("equals"), Leaf(Call("numericConstTupleList"))>>

newtonParsePrecisionStatement ==
    <<Token("precision"), Leaf(Name("usage")), Token("equals"), Leaf(Call("numericConstTupleList"))>>

newtonParseNumericConstTupleList ==
    <<Token("leftBrace"), Leaf(Call("numericConstTuple")),
      Then("comma", Leaf(Call("numericConstTuple"))), Token("rightBrace")>>

newtonParseNumericConstTuple ==
    <<Token("leftParen"), Leaf(Call("numericFactor")), Unit, Token("comma"),
      Leaf(Call("numericFactor")), Token("rightParen")>>

-----------------------------------------------------------------------------
(* Expressions.                                                            *)

newtonParseExpression ==
    <<Leaf(Call("term")),
      Repeat(First("lowPrecedenceBinaryOp"),
             <<Chain(Call("lowPrecedenceBinaryOp")), Chain(Call("term"))>>)>>

newtonParseTerm ==
    <<When(First("unaryOp"), <<Leaf(Call("unaryOp"))>>), Chain(Call("factor")),
      Either(Next1("plusPlus"), <<Chain(Token("plusPlus"))>>,
             <<When(Next1("minusMinus"), <<Chain(Token("minusMinus"))>>)>>),
      Repeat(First("highPrecedenceBinaryOp"),
             <<Chain(Call("highPrecedenceBinaryOp")), Chain(Call("factor"))>>)>>

newtonParseFactor ==
    <<Switch(<<Alternative("numericConst"),
               <<Next1("leftParen"),
                 <<Token("leftParen"), Leaf(Call("expression")), Token("rightParen")>> >>,
               Alternative("distributionFactor"),
               <<Next1("identifier"),
                 <<Leaf(Name("usage")),
                   When(Next1("leftBracket"),
                        <<Token("leftBracket"), Leaf(Call("numericExpression")),
                          Token("rightBracket")>>)>> >> >>)>>

newtonParseDistributionFactor ==
    <<Leaf(Call("distribution")), Do("open scope"), Do("same parameter list"),
      Leaf(Call("parameterValueList")), Do("close scope")>>

newtonParseParameterValueList ==
    <<Token("leftParen"), Leaf(Name("definition")), Token("colon"), Chain(Call("expression")),
      Repeat(Next1("comma"),
             <<Token("comma"), Chain(Name("definition")), Token("colon"),
               Chain(Call("expression"))>>),
      Token("rightParen")>>

-----------------------------------------------------------------------------
(* The first pass over a file, which only collects the dimensions: it      *)
(* junks everything but the definitions of signals, and of these the       *)
(* derivation.                                                             *)

newtonDimensionPassParseFile ==
    <<Call("prescanRuleList"), Either(Next1("Zeof"), <<>>, <<Fail>>)>>

newtonDimensionPassParseStatementList == <<Repeat(First("rule"), <<Call("prescanRule")>>)>>

(* Mutant: a constant is taken to end with a brace.                        *)
newtonDimensionPassParseStatement_Brace ==
    <<Switch(<< <<Ahead(3, "constant"), <<JunkThrough("rightBrace")>>>>,
                << << <<3, {"sensor", "invariant"}>> >>,
                   <<JunkThrough("leftBrace"), Do("count a brace"), Do("junk a block")>> >>,
                <<Ahead(3, "signal"), <<Call("prescanBaseSignalDefinition")>> >> >>)>>

newtonDimensionPassParseStatement ==
    <<Switch(<< <<Ahead(3, "constant"), <<JunkThrough("semicolon")>>>>,
                << << <<3, {"sensor", "invariant"}>> >>,
                   <<JunkThrough("leftBrace"), Do("count a brace"), Do("junk a block")>> >>,
                <<Ahead(3, "signal"), <<Call("prescanBaseSignalDefinition")>> >> >>)>>

newtonDimensionPassParseSubindex ==
    <<Token("identifier"), Token("colon"), Call("numericConst"), Token("to"), Call("numericConst")>>

newtonDimensionPassParseSubindexTuple ==
    <<Token("leftParen"), Call("prescanSubindex"), Token("rightParen")>>

newtonDimensionPassParseBaseSignal ==
    LET junked == gNewtonFirsts["unaryOp"] \cup gNewtonFirsts["lowPrecedenceBinaryOp"]
            \cup gNewtonFirsts["highPrecedenceOperator"] \cup gNewtonFirsts["highPrecedenceBinaryOp"]
            \cup gNewtonFirsts["quantityExpression"] \cup gNewtonFirsts["quantityTerm"]
            \cup gNewtonFirsts["quantityFactor"] \cup {"leftBracket", "rightBracket", "rightParen"}
    IN  <<Token("identifier"), Token("colon"), Token("signal"),
          When(Ahead(5, "to"), <<Call("prescanSubdimensionTuple")>>),
          Token("assign"), Token("leftBrace"),
          When(First("nameStatement"), <<Call("nameStatement")>>),
          When(First("signalUncertaintyStatement"), <<Call("signalUncertaintyStatement")>>),
          When(First("sensorStatement"), <<Call("sensorStatement")>>),
          When(First("symbolStatement"), <<Call("symbolStatement")>>),
          Token("derivation"), Token("assign"),
          Either(OneOf({"none", "dimensionless"}),
                 <<Do("has name and symbol"), AnyOf({"none", "dimensionless"}),
                   Do("add dimension")>>,
                 <<Repeat(OneOf(junked), <<Junk>>)>>),
          Token("semicolon"), Token("rightBrace")>>
-----------------------------------------------------------------------------
(* Which function parses which production.                                 *)

NewtonProcedures ==
    [newtonDescription |-> newtonParseFile, ruleList |-> newtonParseRuleList,
     rule |-> newtonParseRule, constantDefinition |-> newtonParseConstant,
     invariantDefinition |-> newtonParseInvariant, subdimensionTuple |-> newtonParseSubindexTuple,
     parameterTuple |-> newtonParseParameterTuple, parameter |-> newtonParseParameter,
     baseSignalDefinition |-> newtonParseBaseSignal, nameStatement |-> newtonParseName,
     signalUncertaintyStatement |-> newtonParseSignalUncertainty,
     sensorStatement |-> newtonParseSignalSensor, languageSetting |-> newtonParseLanguageSetting,
     symbolStatement |-> newtonParseSymbol, derivationStatement |-> newtonParseDerivation,
     unitExpression |-> newtonParseUnitExpression, unitTerm |-> newtonParseUnitTerm,
     unitFactor |-> newtonParseUnitFactor, unit |-> newtonParseUnit,
     numericExpression |-> newtonParseNumericExpression, numericTerm |-> newtonParseNumericTerm,
     numericFactor |-> newtonParseNumericFactor, numericConst |-> newtonParseNumericConst,
     quantityExpression |-> newtonParseQuantityExpression, quantityTerm |-> newtonParseQuantityTerm,
     quantityFactor |-> newtonParseQuantityFactor, quantity |-> newtonParseQuantity,
     functionalOperator |-> newtonParseFunctionalOperator, vectorOp |-> newtonParseVectorOp,
     exponentiationOperator |-> newtonParseExponentiationOperator,
     lowPrecedenceBinaryOp |-> newtonParseLowPrecedenceBinaryOp, unaryOp |-> newtonParseUnaryOp,
     comparisonOperator |-> newtonParseCompareOp,
     highPrecedenceBinaryOp |-> newtonParseHighPrecedenceBinaryOp,
     lowPrecedenceOperator |-> newtonParseLowPrecedenceOperator,
     highPrecedenceOperator |-> newtonParseHighPrecedenceOperator,
     highPrecedenceQuantityOperator |-> newtonParseHighPrecedenceQuantityOperator,
     transcendental |-> newtonParseTranscendental, distribution |-> newtonParseDistribution,
     constraint |-> newtonParseConstraint, callParameterTuple |-> newtonParseCallParameterTuple,
     piecewiseConstraint |-> newtonParsePiecewiseConstraint,
     caseStatementList |-> newtonParseCaseStatementList, caseStatement |-> newtonParseCaseStatement,
     constraintList |-> newtonParseConstraintList, sensorDefinition |-> newtonParseSensorDefinition,
     sensorPropertyList |-> newtonParseSensorPropertyList, sensorProperty |-> newtonParseSensorProperty,
     sensorInterfaceStatement |-> newtonParseSensorInterfaceStatement,
     sensorInterfaceType |-> newtonParseSensorInterfaceType,
     sensorInterfaceCommandList |-> newtonParseSensorInterfaceCommandList,
     sensorInterfaceCommand |-> newtonParseSensorInterfaceCommand,
     readRegisterCommand |-> newtonParseReadRegisterCommand,
     writeRegisterCommand |-> newtonParseWriteRegisterCommand,
     delayCommand |-> newtonParseDelayCommand, arithmeticCommand |-> newtonParseArithmeticCommand,
     rangeStatement |-> newtonParseRangeStatement,
     uncertaintyStatement |-> newtonParseUncertaintyStatement,
     erasureValueStatement |-> newtonParseErasureValueStatement,
     accuracyStatement |-> newtonParseAccuracyStatement,
     precisionStatement |-> newtonParsePrecisionStatement,
     numericConstTupleList |-> newtonParseNumericConstTupleList,
     numericConstTuple |-> newtonParseNumericConstTuple, expression |-> newtonParseExpression,
     term |-> newtonParseTerm, factor |-> newtonParseFactor,
     distributionFactor |-> newtonParseDistributionFactor,
     parameterValueList |-> newtonParseParameterValueList,
     prescanDescription |-> newtonDimensionPassParseFile,
     prescanRuleList |-> newtonDimensionPassParseStatementList,
     prescanRule |-> newtonDimensionPassParseStatement,
     prescanSubindex |-> newtonDimensionPassParseSubindex,
     prescanSubdimensionTuple |-> newtonDimensionPassParseSubindexTuple,
     prescanBaseSignalDefinition |-> newtonDimensionPassParseBaseSignal]
=============================================================================
