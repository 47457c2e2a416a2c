-------------------------- MODULE NoisyParserCode --------------------------
(***************************************************************************)
(* The functions of the Noisy parser: for each noisyParseX the statements  *)
(* it executes, as the data of the machine of RecursiveDescent.  "Do"      *)
(* names a computation with scopes, symbols or types, which is an action   *)
(* of NoisyParser; "Name" is one of the terminals that define or look up   *)
(* an identifier.                                                          *)
(*                                                                         *)
(* Nearly every function ends by looking whether the next token may come   *)
(* behind its production: that is Ending.                                  *)
(***************************************************************************)
EXTENDS RecursiveDescent, NoisyTables

First(p) == OneOf(gNoisyFirsts[p])

(* The tokens, among them those that have no row in gNoisyFollows.         *)
TokenTypes ==
    UNION {gNoisyFollows[x] : x \in DOMAIN gNoisyFollows}
    \cup {"charConst", "rawmem", "module", "typeannote"}
Unless(types) == OneOf(TokenTypes \ types)

Ending(p) == Either(OneOf(gNoisyFollows[p]), <<>>, <<Fail>>)

(* The tests and calls that occur over and over in the parser.             *)
Alternative(p) == <<First(p), <<Leaf(Call(p))>> >>
OneToken(types) == Either(OneOf(types), <<Leaf(AnyOf(types))>>, <<Fail>>)
CommaList(s) == <<Leaf(s), Repeat(Next1("comma"), <<Token("comma"), Chain(s)>>)>>
Bracketed(s) == <<Token("leftParens"), Leaf(s), Token("rightParens")>>
Joined(operand, operator) ==
    <<Leaf(Call(operand)),
      Repeat(First(operator), <<Chain(Call(operator)), Chain(Call(operand))>>)>>

-----------------------------------------------------------------------------
(* Programs and modules.                                                   *)

noisyParseProgram ==
    <<Leaf(Call("moduleDecl")),
      Repeat(Unless(gNoisyFollows["program"]),
             <<Switch([i \in 1 .. 4 |->
                   LET p == <<"moduleDecl", "functionDefn", "problemDefn", "predicateFnDefn">>[i]
                       word == <<"module", "function", "probdef", "predicate">>[i]
                   IN  <<Ahead(3, word), <<Chain(Call(p))>> >>])>>),
      Ending("program")>>

noisyParseModuleDecl ==
    <<Leaf(Name("definition")), Token("colon"), Token("module"), Token("leftParens"),
      Chain(Call("typeParameterList")), Token("rightParens"), Token("leftBrace"),
      Do("open scope"), Leaf(Call("moduleDeclBody")), Token("rightBrace"), Do("close scope"),
      Do("add module"), Ending("moduleDecl")>>

noisyParseModuleDeclBody ==
    <<Repeat(Unless(gNoisyFollows["moduleDeclBody"]),
             <<Chain(Call("moduleTypeNameDecl")), Token("semicolon")>>),
      Ending("moduleDeclBody")>>

noisyParseModuleTypeNameDecl ==
    <<Leaf(Name("definition")), Token("colon"),
      Switch(<<Alternative("constantDecl"), Alternative("typeDecl"),
               Alternative("typeAnnoteDecl"), Alternative("functionDecl"),
               Alternative("probdefDecl"), Alternative("predicateFnDecl")>>),
      Do("assign types"), Ending("moduleTypeNameDecl")>>

noisyParseConstantDecl ==
    <<Token("const"), OneToken({"integerConst", "realConst", "boolConst"}),
      Ending("constantDecl")>>

noisyParseTypeDecl ==
    <<Switch(<< <<Next1("type"), <<Leaf(Token("type")), Leaf(Call("typeExpr"))>> >>,
                <<Next1("adt"), <<Leaf(Call("adtTypeDecl"))>> >>,
                <<Next1("vector"), <<Leaf(Call("vectorTypeDecl"))>> >> >>),
      Ending("typeDecl")>>

noisyParseTypeAnnoteDecl == <<Token("typeannote"), Leaf(Call("typeAnnoteList"))>>

(* The fields are read up to the closing brace, a signature among them.    *)
noisyParseAdtTypeDecl ==
    <<Token("adt"), Token("leftBrace"), Do("open scope"),
      Leaf(Call("identifierList")), Token("colon"), Chain(Call("typeExpr")),
      Do("assign types"), Token("semicolon"),
      Repeat(Unless({"rightBrace"}),
             <<Chain(Call("identifierList")), Token("colon"), Chain(Call("typeExpr")),
               Do("assign types"), Token("semicolon")>>),
      When(First("valfnSignature"), <<Chain(Call("valfnSignature")), Token("semicolon")>>),
      Token("rightBrace"), Do("close scope"), Ending("adtTypeDecl")>>

noisyParseValfnSignature == <<Leaf(Name("usage")), Ending("valfnSignature")>>

noisyParseVectorTypeDecl ==
    <<Token("vector"), Token("leftBracket"), Leaf(Token("integerConst")), Token("rightBracket"),
      Token("leftBracket"), Chain(Token("integerConst")), Token("rightBracket"), Token("of"),
      Chain(Call("typeExpr")), Ending("vectorTypeDecl")>>

noisyParseFunctionDecl ==
    <<Token("function"), Do("open scope"), Leaf(Call("writeTypeSignature")), Token("arrow"),
      Leaf(Call("readTypeSignature")), Do("close scope"), Ending("functionDecl")>>

noisyParseProbdefDecl ==
    <<Token("probdef"), Do("open scope"), Leaf(Call("writeTypeSignature")), Token("arrow"),
      Leaf(Call("writeTypeSignature")), Do("close scope"), Ending("probdefDecl")>>

noisyParseReadTypeSignature == <<Leaf(Call("signature")), Ending("readTypeSignature")>>
noisyParseWriteTypeSignature == <<Leaf(Call("signature")), Ending("writeTypeSignature")>>

noisyParsePredicateFnDecl ==
    <<Token("predicate"), Do("open scope"), Leaf(Call("signature")), Do("close scope"),
      Ending("predicateFnDecl")>>

noisyParseIdentifierOrNil ==
    <<Switch(<< <<Next1("identifier"), <<Leaf(Call("qualifiedIdentifier"))>> >>,
                <<Next1("nil"), <<Leaf(Token("nil"))>> >> >>),
      Ending("identifierOrNil")>>

(* Mutant: a list has two names at most.                                   *)
noisyParseIdentifierOrNilList_Two ==
    <<Leaf(Call("identifierOrNil")),
      When(Next1("comma"), <<Token("comma"), Chain(Call("identifierOrNil"))>>),
      Ending("identifierOrNilList")>>

noisyParseIdentifierOrNilList ==
    CommaList(Call("identifierOrNil")) \o <<Ending("identifierOrNilList")>>

noisyParseIdentifierList == CommaList(Name("definition")) \o <<Ending("identifierList")>>

noisyParseTypeParameterList ==
    LET parameter(s) == <<s, Token("colon"), Token("type")>>
    IN  <<When(Next1("identifier"),
               parameter(Leaf(Name("definition")))
               \o <<Repeat(Next1("comma"),
                           <<Token("comma")>> \o parameter(Chain(Name("definition"))))>>),
          Ending("typeParameterList")>>

-----------------------------------------------------------------------------
(* Types.                                                                  *)

noisyParseTypeExpr ==
    LET ending == <<Ending("typeExpr")>>
    IN  <<Switch(<< <<First("basicType"),
                      <<Leaf(Call("basicType")),
                        Either(OneOf(gNoisyFollows["typeExpr"]), <<>>,
                               <<When(Next1("and"), <<Token("and"), Chain(Call("typeAnnoteList"))>>)>>
                               \o ending)>> >>,
                    <<First("anonAggregateType"), <<Leaf(Call("anonAggregateType"))>> \o ending>>,
                    <<First("typeName"), <<Leaf(Call("typeName"))>> \o ending>> >>)>>

noisyParseTypeAnnoteItem ==
    <<Switch(<<Alternative("dimensionsDesignation"), Alternative("unitsDesignation"),
               Alternative("signalDesignation"), Alternative("timeseriesDesignation"),
               Alternative("sigfigDesignation"), Alternative("tolerance")>>),
      Ending("typeAnnoteItem")>>

noisyParseTypeAnnoteList ==
    <<Leaf(Call("typeAnnoteItem")),
      Repeat(Next1("and"), <<Token("and"), Chain(Call("typeAnnoteItem"))>>),
      Ending("typeAnnoteList")>>

(* Behind an arrow a name is looked up where moduleName2scope says, that   *)
(* is, in no scope.                                                        *)
noisyParseTypeName ==
    <<Leaf(Name("usage")),
      When(Next1("arrow"), <<Token("arrow"), Leaf(Name("usage in module"))>>),
      Do("symbol of type"), Ending("typeName")>>

noisyParseDimensionsDesignation ==
    <<Token("dimensions"), Leaf(Call("dimensionArithExpr")), Ending("dimensionsDesignation")>>

noisyParseSigfigDesignation ==
    <<Token("sigfigs"), Leaf(Token("integerConst")), Ending("sigfigDesignation")>>

noisyParseSignalDesignation ==
    <<Token("signal"),
      Either(First("basicSignal"), <<Leaf(Call("basicSignal"))>>, <<Leaf(Name("definition"))>>),
      Ending("signalDesignation")>>

noisyParseTimeseriesDesignation ==
    <<OneToken({"timeseries", "measurement"}), Ending("timeseriesDesignation")>>

noisyParseUnitsDesignation ==
    <<Token("units"), Leaf(Call("unitsArithExpr")), Ending("unitsDesignation")>>

noisyParseDimensionArithFactor ==
    <<Switch(<<Alternative("basicSignalDimension"),
               <<Next1("leftParens"), Bracketed(Call("dimensionArithExpr"))>> >>),
      Ending("dimensionArithFactor")>>

noisyParseDimensionArithTerm ==
    Joined("dimensionArithFactor", "highPrecedenceArith2ArithOp") \o <<Ending("dimensionArithTerm")>>

noisyParseDimensionArithExpr ==
    Joined("dimensionArithTerm", "lowPrecedenceArith2ArithOp") \o <<Ending("dimensionArithExpr")>>

noisyParseUnitsArithFactor ==
    <<Switch(<< <<Next1("leftParens"), Bracketed(Call("unitsArithExpr"))>>,
                Alternative("basicSignalUnits"),
                <<Next1("identifier"), <<Leaf(Name("definition"))>> >>,
                Alternative("numericConst")>>),
      Ending("unitsArithFactor")>>

noisyParseUnitsArithTerm ==
    Joined("unitsArithFactor", "highPrecedenceArith2ArithOp") \o <<Ending("unitsArithTerm")>>

(* The operator is expected as a token, which no token is.                 *)
noisyParseUnitsArithExpr ==
    <<Leaf(Call("unitsArithTerm")),
      Repeat(First("lowPrecedenceArith2ArithOp"),
             <<Chain(Token("lowPrecedenceArith2ArithOp")), Chain(Call("unitsArithTerm"))>>),
      Ending("unitsArithExpr")>>

noisyParseBasicSignalDimension ==
    <<OneToken(Dimensions \ {"interrupt", "exception"}), Ending("basicSignalDimension")>>

noisyParseBasicSignalUnits == <<OneToken(UnitNames), Ending("basicSignalUnits")>>

noisyParseBasicSignal ==
    <<Either(First("basicSignalDimension"), <<Leaf(Call("basicSignalDimension"))>>,
             <<OneToken({"pressure", "acceleration", "magneticfluxdensity", "relativehumidity",
                         "anglerate"})>>),
      Ending("basicSignal")>>

noisyParseTolerance ==
    <<Switch(<<Alternative("accuracyTolerance"), Alternative("lossTolerance"),
               Alternative("latencyTolerance")>>),
      Ending("tolerance")>>

TwoReals == <<Token("leftParens"), Leaf(Token("realConst")), Token("comma"),
              Leaf(Token("realConst")), Token("rightParens")>>

noisyParseAccuracyTolerance == <<Token("epsilon")>> \o TwoReals \o <<Ending("accuracyTolerance")>>

noisyParseLossTolerance ==
    <<Do("accuracyTolerance"), Token("alpha")>> \o TwoReals \o <<Ending("lossTolerance")>>

noisyParseLatencyTolerance == <<Token("tau")>> \o TwoReals \o <<Ending("latencyTolerance")>>

noisyParseBasicType ==
    <<Switch(<< <<Next1("bool"), <<Leaf(Token("bool"))>> >>, Alternative("integerType"),
                Alternative("realType"), <<Next1("string"), <<Leaf(Token("string"))>> >> >>),
      Ending("basicType")>>

noisyParseIntegerType == <<OneToken(IntegerTypes), Ending("integerType")>>

noisyParseRealType ==
    <<Either(OneOf(RealTypes \ {"fixed"}), <<Leaf(AnyOf(RealTypes \ {"fixed"}))>>,
             <<Switch(<<Alternative("fixedType")>>)>>),
      Ending("realType")>>

noisyParseFixedType ==
    <<Token("fixed"), Leaf(Token("integerConst")), Token("dot"), Leaf(Token("integerConst")),
      Ending("fixedType")>>

noisyParseNumericType ==
    <<Switch(<<Alternative("integerType"), Alternative("realType"), Alternative("fixedType"),
               Alternative("rationalType")>>),
      Ending("numericType")>>

noisyParseComplexType == <<Token("complex"), Leaf(Call("numericType")), Ending("complexType")>>

noisyParseAnonAggregateType ==
    <<Switch(<<Alternative("arrayType"), Alternative("listType"), Alternative("tupleType"),
               Alternative("setType"), Alternative("rationalType"), Alternative("complexType")>>),
      Ending("anonAggregateType")>>

noisyParseArrayType ==
    <<Token("array"), Token("leftBracket"), Leaf(Token("integerConst")), Token("rightBracket"),
      Repeat(Next1("leftBracket"),
             <<Token("leftBracket"), Chain(Token("integerConst")), Token("rightBracket")>>),
      Token("of"), Chain(Call("typeExpr")),
      When(Next1("rawmem"), <<Token("rawmem"), Token("at"), Leaf(Call("intParamOrConst"))>>),
      Ending("arrayType")>>

noisyParseListType ==
    <<Token("list"), Token("of"), Leaf(Call("typeExpr")), Ending("listType")>>

noisyParseTupleType ==
    <<Token("leftParens")>> \o CommaList(Call("typeExpr"))
    \o <<Token("rightParens"), Ending("tupleType")>>

noisyParseSetType ==
    <<Token("set"), Token("leftBracket"), Leaf(Token("integerConst")), Token("rightBracket"),
      Token("of"), Leaf(Call("typeExpr")), Ending("setType")>>

noisyParseRationalType == <<Token("rational"), Leaf(Call("numericType")), Ending("rationalType")>>

noisyParseNumericConst == <<OneToken({"integerConst", "realConst"}), Ending("numericConst")>>

-----------------------------------------------------------------------------
(* Functions, problems and predicates.                                     *)

ElementList == CommaList(Call("element"))
InBraces(statements) == <<Token("leftBrace")>> \o statements \o <<Token("rightBrace")>>

noisyParseInitList == InBraces(CommaList(Call("expression"))) \o <<Ending("initList")>>

(* The node gets the type of an initList.                                  *)
noisyParseIdxInitList == <<Do("initList")>> \o InBraces(ElementList) \o <<Ending("idxInitList")>>

noisyParseStarInitList ==
    InBraces(<<Leaf(Call("element")),
               Repeat(Next1("comma"),
                      <<Token("comma"),
                        Either(First("element"), <<Chain(Call("element"))>>,
                        <<Either(Next1("asterisk"),
                                 <<Chain(Token("asterisk")), Token("implies"),
                                   Chain(Call("element"))>>,
                                 <<Do("fatal")>>)>>)>>)>>)
    \o <<Ending("starInitList")>>

noisyParseElement ==
    <<Leaf(Call("expression")),
      When(Next1("implies"), <<Token("implies"), Leaf(Call("expression"))>>), Ending("element")>>

Definition(word, between, types, behind, body) ==
    <<Leaf(Name("function")), Token("colon"), Token(word), Do("open scope"),
      Chain(Call("signature")), Token("arrow"), Chain(Call("signature")), Do(types),
      Token(behind), Leaf(Call(body)), Do("close scope"), Ending(between)>>

noisyParseFunctionDefn ==
    Definition("function", "functionDefn", "function types", "assign", "scopedStatementList")
noisyParseProblemDefn ==
    Definition("probdef", "problemDefn", "copied types", "implies", "scopedPredStmtList")
noisyParsePredicateFnDefn ==
    Definition("predicate", "predicateFnDefn", "copied types", "implies", "scopedPredStmtList")

noisyParseSignature ==
    LET parameter(s) == <<s, Token("colon"), Chain(Call("typeExpr")), Do("assign types")>>
    IN  <<Token("leftParens"),
          Switch(<< <<Next1("identifier"),
                      parameter(Leaf(Name("definition")))
                      \o <<Repeat(Next1("comma"),
                                  <<Token("comma")>> \o parameter(Chain(Name("definition"))))>> >>,
                    <<Next1("nil"), <<Leaf(Token("nil"))>> >> >>),
          Token("rightParens"), Ending("signature")>>

-----------------------------------------------------------------------------
(* Statements.                                                             *)

InScope(s) == <<Token("leftBrace"), Do("open scope"), Leaf(s), Token("rightBrace"), Do("close scope")>>

noisyParseScopedStatementList ==
    InScope(Call("statementList")) \o <<Ending("scopedStatementList")>>

(* Mutant: an empty statement is not consumed.                             *)
noisyParseStatementList_Stuck ==
    <<Repeat(First("statement"), <<When(Unless({"semicolon"}), <<Chain(Call("statement"))>>)>>),
      Ending("statementList")>>

noisyParseStatementList ==
    <<Repeat(First("statement"), <<Chain(Call("statement"))>>), Ending("statementList")>>

noisyParseStatement ==
    <<Either(Next1("semicolon"), <<Token("semicolon")>>,
             <<Switch(<<Alternative("assignmentStatement"), Alternative("matchStatement"),
                        Alternative("iterateStatement"), Alternative("sequenceStatement"),
                        Alternative("parallelStatement"), Alternative("scopedStatementList"),
                        Alternative("operatorToleranceDecl"), Alternative("returnStatement")>>),
               Token("semicolon"), Ending("statement")>>)>>

noisyParseAssignmentStatement ==
    LET assigned == <<Chain(Call("assignOp")), Chain(Call("expression"))>>
    IN  <<Do("scan"),
          Either(First("identifierOrNilList"),
                 <<Leaf(Call("identifierOrNilList")),
                   Switch(<< <<Next1("colon"),
                               <<Token("colon"),
                                 Switch(<<Alternative("constantDecl"), Alternative("typeDecl"),
                                          Alternative("typeExpr")>>),
                                 Do("assign types")>> >>,
                             <<First("assignOp"), assigned>> >>)>>,
                 <<When(Next1("leftParens"),
                        <<Leaf(Token("leftParens")), Chain(Call("identifierOrNilList")),
                          Token("rightParens")>> \o assigned)>>),
          Ending("assignmentStatement")>>

noisyParseReturnStatement ==
    <<Token("return"), Leaf(Call("returnSignature")), Ending("returnStatement")>>

Argument(s) == <<s, Token("colon"), Chain(Call("expression"))>>

noisyParseReturnSignature ==
    <<Token("leftParens")>> \o Argument(Leaf(Name("usage")))
    \o <<Repeat(Next1("comma"), <<Token("comma")>> \o Argument(Chain(Name("usage")))),
         Token("rightParens"), Ending("returnSignature")>>

(* Without an operator the function goes on to the colon.                  *)
noisyParseOperatorToleranceDecl ==
    LET ifThere(p, else) == <<Either(First(p), <<Leaf(Call(p))>>, else)>>
    IN  ifThere("highPrecedenceBinaryOp",
                ifThere("lowPrecedenceBinaryOp", ifThere("unaryOp", <<>>)))
        \o <<Token("colon"), Leaf(Call("typeExpr")), Ending("operatorToleranceDecl")>>

noisyParseAssignOp == <<OneToken(AssignmentOperators), Ending("assignOp")>>

noisyParseMatchStatement ==
    <<OneToken({"match", "matchseq"})>> \o InScope(Call("guardedStatementList"))
    \o <<Ending("matchStatement")>>

noisyParseIterStatement ==
    <<Leaf(Token("iterate"))>> \o InScope(Call("guardedStatementList"))
    \o <<Ending("iterateStatement")>>

noisyParseSequenceStatement ==
    <<Token("sequence"), Switch(<<Alternative("orderingHead"), Alternative("setHead")>>),
      Leaf(Call("scopedStatementList")), Ending("sequenceStatement")>>

noisyParseParallelStatement ==
    <<Token("parallel"), Leaf(Call("setHead")), Leaf(Call("scopedStatementList")),
      Ending("parallelStatement")>>

noisyParseSetHead ==
    <<Token("leftParens"), Leaf(Name("definition")), Token("in"), Leaf(Call("expression")),
      Token("rightParens"), Ending("setHead")>>

(* What the head of a loop assigns to is in the scope around the loop.     *)
noisyParseOrderingHead ==
    <<Token("leftParens"), Leaf(Call("assignmentStatement")), Token("semicolon"),
      Chain(Call("expression")), Token("semicolon"), Chain(Call("assignmentStatement")),
      Token("rightParens"), Ending("orderingHead")>>

Guarded(p) ==
    Repeat(First("expression"), <<Chain(Call("expression")), Token("implies"), Chain(Call(p))>>)

noisyParseGuardedStatementList ==
    <<Guarded("scopedStatementList"), Ending("guardedStatementList")>>
noisyParseGuardedExpressionList ==
    <<Guarded("expression"), Ending("guardedExpressionList")>>

-----------------------------------------------------------------------------
(* Expressions.                                                            *)

noisyParseExpression ==
    <<Switch(<< <<First("term"), Joined("term", "lowPrecedenceBinaryOp")>>,
                Alternative("anonAggrCastExpr"), Alternative("loadExpr"),
                Alternative("quantizeExpression"), Alternative("sampleExpression")>>),
      Ending("expression")>>

noisyParseQuantizeExpression ==
    <<Leaf(Name("usage")), Token("quantize"), Leaf(Call("expression")), Ending("quantizeExpression")>>
noisyParseSampleExpression ==
    <<Leaf(Name("usage")), Token("sample"), Leaf(Call("expression")), Ending("sampleExpression")>>

noisyParseListCastExpr ==
    <<Token("list"), Token("of"), Leaf(Call("initList")), Ending("listCastExpr")>>
noisyParseSetCastExpr ==
    <<Token("set"), Token("of"), Leaf(Call("initList")), Ending("setCastExpr")>>

noisyParseArrayCastExpr ==
    <<Token("array"),
      Switch(<< <<Next1("of"), <<Token("of"), Leaf(Call("idxInitList"))>> >>,
                <<Next1("leftBracket"),
                  <<Token("leftBracket"), Leaf(Token("integerConst")), Token("rightBracket"),
                    Token("of"), Leaf(Call("starInitList"))>> >> >>),
      Ending("arrayCastExpr")>>

(* There is no comma between the two expressions.                          *)
PairCast(word, p) ==
    <<Token(word), Token("leftParens"), Leaf(Call("expression")), Leaf(Call("expression")),
      Token("rightParens"), Ending(p)>>

noisyParseComplexCastExpr == PairCast("complex", "complexCastExpr")
noisyParseRationalCastExpr == PairCast("rational", "rationalCastExpr")

noisyParseAnonAggrCastExpr ==
    <<Switch(<<Alternative("listCastExpr"), Alternative("setCastExpr"),
               Alternative("arrayCastExpr"), Alternative("complexCastExpr"),
               Alternative("rationalCastExpr")>>),
      Ending("anonAggrCastExpr")>>

noisyParseChanEventExpression ==
    <<OneToken({"erasures", "distortions", "latency"}), Token("of"), Chain(Name("usage")),
      Chain(Call("cmpOp")), Chain(Call("expression")), Ending("chanEventExpr")>>

noisyParseLoadExpr ==
    <<Token("load"), Leaf(Name("usage")),
      When(Next1("arrow"), <<Token("arrow"), Leaf(Name("usage"))>>),
      When(First("tupleType") \o << <<2, TokenTypes \ {"path"}>> >>, <<Chain(Call("tupleType"))>>),
      Either(Next1("leftParens") \o Ahead(2, "path"),
             <<Token("leftParens"), Token("path"), Chain(Call("typeName")), Token("rightParens")>>,
             <<Chain(Token("stringConst"))>>),
      Ending("loadExpr")>>

noisyParseTerm ==
    LET sign == When(First("unaryOp"), <<Chain(Call("unaryOp"))>>)
    IN  <<Either(First("basicType"), <<Leaf(Call("basicType")), sign>>, <<sign>>),
          Leaf(Call("factor")),
          When(OneOf({"plusPlus", "minusMinus"}), <<Chain(AnyOf({"plusPlus", "minusMinus"}))>>),
          Repeat(First("highPrecedenceBinaryOp"),
                 <<Chain(Call("highPrecedenceBinaryOp")), Chain(Call("factor"))>>),
          Ending("term")>>

noisyParseQualifiedIdentifier ==
    <<Leaf(Name("declared")), Repeat(First("fieldSelect"), <<Chain(Call("fieldSelect"))>>),
      Ending("qualifiedIdentifier")>>

noisyParseFactor ==
    LET constants == {"integerConst", "realConst", "stringConst", "boolConst"}
    IN  <<Switch(<< <<Next1("identifier"),
                      <<Either(Ahead(2, "leftParens"), <<Chain(Call("namegenInvokeShorthand"))>>,
                               <<Chain(Call("qualifiedIdentifier"))>>)>> >>,
                    <<OneOf(constants), <<Leaf(AnyOf(constants))>> >>,
                    <<Next1("typemin"), <<Leaf(Call("typeMinExpr"))>> >>,
                    <<Next1("typemax"), <<Leaf(Call("typeMaxExpr"))>> >>,
                    <<Next1("nil"), <<Leaf(Token("nil"))>> >>,
                    <<Next1("leftParens") \o Ahead(3, "comma"), <<Leaf(Call("tupleValue"))>> >>,
                    <<Next1("leftParens"), Bracketed(Call("expression"))>> >>),
          Ending("factor")>>

TypeLimit(word, p) == <<Token(word)>> \o Bracketed(Call("numericType")) \o <<Ending(p)>>

noisyParseTypeMinExpr == TypeLimit("typemin", "typeMinExpr")
noisyParseTypeMaxExpr == TypeLimit("typemax", "typeMaxExpr")

(* The names of the arguments are not looked up.                           *)
noisyParseNamegenInvokeShorthand ==
    LET argument == Argument(Chain(Name("ignore")))
    IN  <<Leaf(Name("usage")), Token("leftParens"),
          When(Next1("identifier"),
               argument \o <<Repeat(Next1("comma"), <<Token("comma")>> \o argument)>>),
          Token("rightParens"), Ending("namegenInvokeShorthand")>>

noisyParseTupleValue ==
    <<Token("leftParens"), Leaf(Call("identifierOrNilList")), Do("tuple value"),
      Token("rightParens"), Ending("tupleValue")>>

noisyParseFieldSelect ==
    <<Switch(<< <<Next1("dot"), <<Leaf(Token("dot")), Leaf(Name("usage"))>> >>,
                <<Next1("leftBracket"),
                  <<Leaf(Token("leftBracket")), Leaf(Call("expression")),
                    When(Next1("colon"), <<Token("colon"), Leaf(Call("expression"))>>),
                    Token("rightBracket")>> >> >>),
      Ending("fieldSelect")>>

-----------------------------------------------------------------------------
(* Operators: one token, or the operator of another production.            *)

TokenOr(types, p) ==
    Either(OneOf(types), <<Leaf(AnyOf(types))>>, <<Switch(<<Alternative(p)>>)>>)

noisyParseHighPrecedenceBinaryOp ==
    <<TokenOr(HighBinaryOperators \ {"logicalAnd"}, "highPrecedenceBinaryBoolOp"),
      Ending("highPrecedenceBinaryOp")>>

noisyParseLowPrecedenceBinaryOp ==
    <<Either(First("cmpOp"), <<Leaf(Call("cmpOp"))>>,
             <<TokenOr({"plus", "minus", "rightShift", "leftShift", "bitwiseOr"},
                       "lowPrecedenceBinaryBoolOp")>>),
      Ending("lowPrecedenceBinaryOp")>>

noisyParseCmpOp == <<OneToken(Comparisons \cup {"isPermutationOf"}), Ending("cmpOp")>>

noisyParseUnaryOp == <<TokenOr(UnaryOperators, "unaryBoolOp"), Ending("unaryOp")>>

noisyParseLowPrecedenceBinaryBoolOp ==
    <<Leaf(Token("logicalOr")), Ending("lowPrecedenceBinaryBoolOp")>>
noisyParseHighPrecedenceBinaryBoolOp ==
    <<OneToken({"logicalAnd", "xor"}), Ending("highPrecedenceBinaryBoolOp")>>
noisyParseUnaryBoolOp == <<Leaf(Token("not")), Ending("unaryBoolOp")>>
noisyParseArith2BoolOp == <<OneToken(Comparisons), Ending("arith2BoolOp")>>
noisyParseHighPrecedenceArith2ArithOp ==
    <<OneToken(ArithmeticOperators), Ending("highPrecedenceArith2ArithOp")>>
noisyParseLowPrecedenceArith2ArithOp ==
    <<OneToken({"plus", "minus"}), Ending("lowPrecedenceArith2ArithOp")>>

-----------------------------------------------------------------------------
(* Predicates and sets.                                                    *)

noisyParseScopedPredStmtList ==
    InBraces(<<Leaf(Call("predStmtList"))>>) \o <<Ending("scopedPredStmtList")>>
noisyParsePredStmtList ==
    <<Repeat(First("predStmt"), <<Chain(Call("predStmt"))>>), Ending("predStmtList")>>
noisyParsePredStmt == <<Leaf(Call("predExpr")), Ending("predStmt")>>

noisyParsePredFactor ==
    <<Switch(<< <<Next1("boolConst"), <<Leaf(Token("boolConst"))>> >>,
                <<Next1("identifier"), <<Leaf(Name("usage"))>> >>,
                <<Next1("leftParens"), Bracketed(Call("predExpr"))>> >>),
      Ending("predFactor")>>

(* A term that begins with an identifier or a bracket is taken for a       *)
(* factor, one that begins with a bracket never for a tuple.               *)
noisyParsePredTerm ==
    LET parameter(p, else) == <<Either(First(p), <<Chain(Call(p))>>, else)>>
        AtParameter(else) ==
            When(Next1("at"), <<Chain(Token("at"))>>
                 \o parameter("intParamOrConst", parameter("realParamOrConst", else)))
    IN  <<Switch(<< <<First("predFactor"),
                      <<Chain(Call("predFactor")),
                        Repeat(First("highPrecedenceBinaryBoolOp"),
                               <<Chain(Call("highPrecedenceBinaryBoolOp")),
                                 Chain(Call("predFactor"))>>)>> >>,
                    <<First("predArithExpr"),
                      <<Leaf(Call("predArithExpr")), Chain(Call("arith2BoolOp")),
                        AtParameter(<<Fail>>), Leaf(Call("predArithExpr"))>> >>,
                    Alternative("quantifiedBoolTerm"), Alternative("setCmpTerm"),
                    <<First("varTuple"),
                      <<Leaf(Call("varTuple")), Token("in"), AtParameter(<<>>),
                        Leaf(Call("setExpr"))>> >>,
                    <<First("unaryBoolOp"),
                      <<Leaf(Call("unaryBoolOp")), Leaf(Call("predFactor"))>> >> >>),
          Ending("predTerm")>>

noisyParsePredExpr ==
    LET or == "lowPrecedenceBinaryBoolOp"
    IN  <<Leaf(Call("predTerm")),
          Repeat(OneOf(gNoisyFirsts[or] \cup gNoisyFirsts["cmpOp"]),
                 <<Either(First(or), <<Chain(Call(or))>>, <<Chain(Call("cmpOp"))>>),
                   Chain(Call("predTerm"))>>),
          Ending("predExpr")>>

noisyParseVarIntro ==
    <<Leaf(Name("definition")),
      Either(First("setExpr"), <<Leaf(Call("setExpr"))>>,
             <<When(First("typeExpr"), <<Leaf(Call("typeExpr"))>>)>>),
      Ending("varIntro")>>

noisyParseVarIntroList == CommaList(Call("varIntro")) \o <<Ending("varIntroList")>>

noisyParseVarTuple ==
    <<Token("leftParens")>> \o CommaList(Name("usage")) \o <<Token("rightParens"), Ending("varTuple")>>

noisyParseArithConst ==
    <<Switch(<<Alternative("intParamOrConst"), Alternative("realParamOrConst")>>),
      Ending("arithParamOrConst")>>

noisyParsePredArithFactor ==
    <<Switch(<<Alternative("arithParamOrConst"), Alternative("varIntro"),
               <<Next1("identifier"), <<Leaf(Name("usage"))>> >>,
               <<Next1("leftParens"), Bracketed(Call("predArithExpr"))>> >>),
      Ending("predArithFactor")>>

(* Not chained: an operator gets what follows it as a child.               *)
JoinedAsLeaves(operand, operator) ==
    <<Leaf(Call(operand)),
      Repeat(First(operator), <<Leaf(Call(operator)), Leaf(Call(operand))>>)>>

noisyParsePredArithTerm ==
    JoinedAsLeaves("predArithFactor", "highPrecedenceArith2ArithOp") \o <<Ending("predArithTerm")>>

noisyParsePredArithExpr ==
    <<Switch(<< <<First("predArithTerm"),
                  JoinedAsLeaves("predArithTerm", "lowPrecedenceArith2ArithOp")>>,
                Alternative("sumForExpr"), Alternative("productForExpr"),
                Alternative("minForExpr"), Alternative("maxForExpr")>>),
      Ending("predArithExpr")>>

ForExpr(word, p) == <<Token(word), Leaf(Call("sumProdMinMaxBody")), Ending(p)>>

noisyParseSumForExpr == ForExpr("sum", "sumForExpr")
noisyParseProductForExpr == ForExpr("product", "productForExpr")
noisyParseMinForExpr == ForExpr("min", "minForExpr")
noisyParseMaxForExpr == ForExpr("max", "maxForExpr")

noisyParseSumProdMinMaxBody ==
    LET sum == Chain(Call("predArithExpr"))
    IN  <<When(Next1("for"),
               <<Token("for"), Chain(Call("varIntro")),
                 When(Next1("from"), <<Token("from"), sum, Token("to"), sum>>)>>),
          When(Next1("with"), <<Token("with"), Chain(Call("predExpr"))>>),
          Token("of"), Token("leftParens"), sum, Token("rightParens"), Ending("sumProdMinMaxBody")>>

noisyParseQuantifiedBoolTerm ==
    <<Leaf(Call("quantifierOp")), Chain(Call("varIntroList"))>> \o Bracketed(Call("predExpr"))
    \o <<Ending("quantifiedBoolTerm")>>

noisyParseSetCmpTerm ==
    <<Leaf(Call("setExpr")), Chain(Call("setCmpOp")), Leaf(Call("setExpr")), Ending("setCmpTerm")>>

noisyParseSetFactor ==
    LET typed(p) == <<Leaf(Call(p)), Token("colon"), Leaf(Call("typeExpr"))>>
    IN  <<Switch(<< <<First("constSetExpr"), typed("constSetExpr")>>,
                    <<Next1("leftBrace"), <<Leaf(Token("leftBrace")), Leaf(Token("rightBrace"))>> >>,
                    <<Next1("omega"), <<Leaf(Token("omega"))>> >>,
                    <<Next1("leftParens"),
                      <<Token("leftParens"),
                        Either(First("setExpr"), <<Leaf(Call("setExpr"))>>,
                               <<When(First("predExpr"), typed("predExpr"))>>),
                        Token("rightParens")>> >> >>),
          Ending("setFactor")>>

noisyParseSetTerm ==
    <<Switch(<< <<First("setFactor"), Joined("setFactor", "highPrecedenceBoolSetOp")>>,
                <<First("unarySetOp"),
                  <<Leaf(Call("unarySetOp")), Leaf(Call("setFactor"))>> >> >>),
      Ending("setTerm")>>

noisyParseSetExpr == Joined("setTerm", "lowPrecedenceBoolSetOp") \o <<Ending("setExpr")>>

ConstOrParameter(constant, p) ==
    <<Switch(<< <<Next1(constant), <<Leaf(Token(constant))>> >>,
                <<Next1("identifier"), <<Leaf(Name("usage"))>> >> >>),
      Ending(p)>>

noisyParseIntParamOrConst == ConstOrParameter("integerConst", "intParamOrConst")
noisyParseRealParamOrConst == ConstOrParameter("realConst", "realParamOrConst")
noisyParseStringParamOrConst == ConstOrParameter("stringConst", "stringParamOrConst")

noisyParseBaseConst ==
    <<Switch(<<Alternative("intParamOrConst"), Alternative("realParamOrConst"),
               Alternative("stringParamOrConst")>>),
      Ending("baseConst")>>

(* The commas are in the tree.                                             *)
WithCommas(p) ==
    <<Leaf(Call(p)), Repeat(Next1("comma"), <<Chain(Token("comma")), Chain(Call(p))>>)>>

noisyParseTuple ==
    <<Token("leftParens")>> \o WithCommas("baseConst") \o <<Token("rightParens"), Ending("tuple")>>

noisyParseConstSetExpr ==
    InBraces(<<Either(First("tuple"), WithCommas("tuple"),
                      <<When(First("baseConst"), WithCommas("baseConst"))>>)>>)
    \o <<Ending("constSetExpr")>>

noisyParseHighPrecedenceBoolSetOp ==
    <<OneToken({"setIntersect", "setCross"}), Ending("highPrecedenceBoolSetOp")>>
noisyParseLowPrecedenceBoolSetOp ==
    <<OneToken({"plus", "minus", "xor", "implies", "iff"}), Ending("lowPrecedenceBoolSetOp")>>
noisyParseUnarySetOp == <<OneToken({"powerset", "complement"}), Ending("unarySetOp")>>
noisyParseQuantifierOp == <<OneToken(Quantifiers), Ending("quantifierOp")>>

(* Any other token is left where it is.                                    *)
noisyParseSetCmpOp ==
    <<When(OneOf(SetComparisons), <<Leaf(AnyOf(SetComparisons))>>), Ending("setCmpOp")>>
-----------------------------------------------------------------------------
(* Which function parses which production.                                 *)

NoisyProcedures ==
    [program |-> noisyParseProgram, moduleDecl |-> noisyParseModuleDecl,
     moduleDeclBody |-> noisyParseModuleDeclBody,
     moduleTypeNameDecl |-> noisyParseModuleTypeNameDecl,
     constantDecl |-> noisyParseConstantDecl, typeDecl |-> noisyParseTypeDecl,
     typeAnnoteDecl |-> noisyParseTypeAnnoteDecl, adtTypeDecl |-> noisyParseAdtTypeDecl,
     valfnSignature |-> noisyParseValfnSignature, vectorTypeDecl |-> noisyParseVectorTypeDecl,
     functionDecl |-> noisyParseFunctionDecl, probdefDecl |-> noisyParseProbdefDecl,
     readTypeSignature |-> noisyParseReadTypeSignature,
     writeTypeSignature |-> noisyParseWriteTypeSignature,
     predicateFnDecl |-> noisyParsePredicateFnDecl,
     identifierOrNil |-> noisyParseIdentifierOrNil,
     identifierOrNilList |-> noisyParseIdentifierOrNilList,
     identifierList |-> noisyParseIdentifierList,
     typeParameterList |-> noisyParseTypeParameterList, typeExpr |-> noisyParseTypeExpr,
     typeAnnoteItem |-> noisyParseTypeAnnoteItem, typeAnnoteList |-> noisyParseTypeAnnoteList,
     typeName |-> noisyParseTypeName,
     dimensionsDesignation |-> noisyParseDimensionsDesignation,
     sigfigDesignation |-> noisyParseSigfigDesignation,
     signalDesignation |-> noisyParseSignalDesignation,
     timeseriesDesignation |-> noisyParseTimeseriesDesignation,
     unitsDesignation |-> noisyParseUnitsDesignation,
     dimensionArithFactor |-> noisyParseDimensionArithFactor,
     dimensionArithTerm |-> noisyParseDimensionArithTerm,
     dimensionArithExpr |-> noisyParseDimensionArithExpr,
     unitsArithFactor |-> noisyParseUnitsArithFactor,
     unitsArithTerm |-> noisyParseUnitsArithTerm, unitsArithExpr |-> noisyParseUnitsArithExpr,
     basicSignalDimension |-> noisyParseBasicSignalDimension,
     basicSignalUnits |-> noisyParseBasicSignalUnits, basicSignal |-> noisyParseBasicSignal,
     tolerance |-> noisyParseTolerance, accuracyTolerance |-> noisyParseAccuracyTolerance,
     lossTolerance |-> noisyParseLossTolerance,
     latencyTolerance |-> noisyParseLatencyTolerance, basicType |-> noisyParseBasicType,
     integerType |-> noisyParseIntegerType, realType |-> noisyParseRealType,
     fixedType |-> noisyParseFixedType, numericType |-> noisyParseNumericType,
     complexType |-> noisyParseComplexType, anonAggregateType |-> noisyParseAnonAggregateType,
     arrayType |-> noisyParseArrayType, listType |-> noisyParseListType,
     tupleType |-> noisyParseTupleType, setType |-> noisyParseSetType,
     rationalType |-> noisyParseRationalType, numericConst |-> noisyParseNumericConst,
     initList |-> noisyParseInitList, idxInitList |-> noisyParseIdxInitList,
     starInitList |-> noisyParseStarInitList, element |-> noisyParseElement,
     functionDefn |-> noisyParseFunctionDefn, problemDefn |-> noisyParseProblemDefn,
     predicateFnDefn |-> noisyParsePredicateFnDefn, signature |-> noisyParseSignature,
     scopedStatementList |-> noisyParseScopedStatementList,
     statementList |-> noisyParseStatementList, statement |-> noisyParseStatement,
     assignmentStatement |-> noisyParseAssignmentStatement,
     returnStatement |-> noisyParseReturnStatement,
     returnSignature |-> noisyParseReturnSignature,
     operatorToleranceDecl |-> noisyParseOperatorToleranceDecl,
     assignOp |-> noisyParseAssignOp, matchStatement |-> noisyParseMatchStatement,
     iterateStatement |-> noisyParseIterStatement,
     sequenceStatement |-> noisyParseSequenceStatement,
     parallelStatement |-> noisyParseParallelStatement, setHead |-> noisyParseSetHead,
     orderingHead |-> noisyParseOrderingHead,
     guardedStatementList |-> noisyParseGuardedStatementList,
     guardedExpressionList |-> noisyParseGuardedExpressionList,
     expression |-> noisyParseExpression, quantizeExpression |-> noisyParseQuantizeExpression,
     sampleExpression |-> noisyParseSampleExpression, listCastExpr |-> noisyParseListCastExpr,
     setCastExpr |-> noisyParseSetCastExpr, arrayCastExpr |-> noisyParseArrayCastExpr,
     complexCastExpr |-> noisyParseComplexCastExpr,
     rationalCastExpr |-> noisyParseRationalCastExpr,
     anonAggrCastExpr |-> noisyParseAnonAggrCastExpr,
     chanEventExpr |-> noisyParseChanEventExpression, loadExpr |-> noisyParseLoadExpr,
     term |-> noisyParseTerm, qualifiedIdentifier |-> noisyParseQualifiedIdentifier,
     factor |-> noisyParseFactor, typeMinExpr |-> noisyParseTypeMinExpr,
     typeMaxExpr |-> noisyParseTypeMaxExpr,
     namegenInvokeShorthand |-> noisyParseNamegenInvokeShorthand,
     tupleValue |-> noisyParseTupleValue, fieldSelect |-> noisyParseFieldSelect,
     highPrecedenceBinaryOp |-> noisyParseHighPrecedenceBinaryOp,
     lowPrecedenceBinaryOp |-> noisyParseLowPrecedenceBinaryOp, cmpOp |-> noisyParseCmpOp,
     unaryOp |-> noisyParseUnaryOp,
     lowPrecedenceBinaryBoolOp |-> noisyParseLowPrecedenceBinaryBoolOp,
     highPrecedenceBinaryBoolOp |-> noisyParseHighPrecedenceBinaryBoolOp,
     unaryBoolOp |-> noisyParseUnaryBoolOp, arith2BoolOp |-> noisyParseArith2BoolOp,
     highPrecedenceArith2ArithOp |-> noisyParseHighPrecedenceArith2ArithOp,
     lowPrecedenceArith2ArithOp |-> noisyParseLowPrecedenceArith2ArithOp,
     scopedPredStmtList |-> noisyParseScopedPredStmtList,
     predStmtList |-> noisyParsePredStmtList, predStmt |-> noisyParsePredStmt,
     predFactor |-> noisyParsePredFactor, predTerm |-> noisyParsePredTerm,
     predExpr |-> noisyParsePredExpr, varIntro |-> noisyParseVarIntro,
     varIntroList |-> noisyParseVarIntroList, varTuple |-> noisyParseVarTuple,
     arithParamOrConst |-> noisyParseArithConst,
     predArithFactor |-> noisyParsePredArithFactor, predArithTerm |-> noisyParsePredArithTerm,
     predArithExpr |-> noisyParsePredArithExpr, sumForExpr |-> noisyParseSumForExpr,
     productForExpr |-> noisyParseProductForExpr, minForExpr |-> noisyParseMinForExpr,
     maxForExpr |-> noisyParseMaxForExpr, sumProdMinMaxBody |-> noisyParseSumProdMinMaxBody,
     quantifiedBoolTerm |-> noisyParseQuantifiedBoolTerm, setCmpTerm |-> noisyParseSetCmpTerm,
     setFactor |-> noisyParseSetFactor, setTerm |-> noisyParseSetTerm,
     setExpr |-> noisyParseSetExpr, intParamOrConst |-> noisyParseIntParamOrConst,
     realParamOrConst |-> noisyParseRealParamOrConst,
     stringParamOrConst |-> noisyParseStringParamOrConst, baseConst |-> noisyParseBaseConst,
     tuple |-> noisyParseTuple, constSetExpr |-> noisyParseConstSetExpr,
     highPrecedenceBoolSetOp |-> noisyParseHighPrecedenceBoolSetOp,
     lowPrecedenceBoolSetOp |-> noisyParseLowPrecedenceBoolSetOp,
     unarySetOp |-> noisyParseUnarySetOp, quantifierOp |-> noisyParseQuantifierOp,
     setCmpOp |-> noisyParseSetCmpOp]
=============================================================================
