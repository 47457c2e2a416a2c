---------------------------- MODULE NoisyGrammar ----------------------------
(***************************************************************************)
(* The Noisy language as it is documented: the grammar of noisy.grammar,   *)
(* production by production.  It is what the parser is compared with, and  *)
(* nothing in it comes from the parser's code.                             *)
(***************************************************************************)
EXTENDS ContextFree

ModuleProductions ==
    [program |->
        {<<One("moduleDecl"), Item("rep", <<{"functionDefn", "moduleDecl", "predicateFnDefn",
          "problemDefn"}>>)>>},
     moduleDecl |->
        {All(<<"identifier", "colon", "module", "leftParens", "typeParameterList",
          "rightParens", "leftBrace", "moduleDeclBody", "rightBrace">>)},
     moduleDeclBody |-> {<<Rep(<<"moduleTypeNameDecl", "semicolon">>)>>},
     moduleTypeNameDecl |->
        {All(<<"identifier", "colon">>) \o <<Among({"constantDecl", "functionDecl",
          "predicateFnDecl", "probdefDecl", "typeAnnoteDecl", "typeDecl"})>>},
     constantDecl |-> {<<One("const"), Among({"boolConst", "integerConst", "realConst"})>>},
     typeDecl |-> {<<Among({"adtTypeDecl", "vectorTypeDecl"})>>, All(<<"type", "typeExpr">>)},
     typeAnnoteDecl |-> {All(<<"typeannote", "typeAnnoteList">>)},
     adtTypeDecl |->
        {All(<<"adt", "leftBrace", "identifierList", "colon", "typeExpr", "semicolon">>)
          \o <<Rep(<<"identifierList", "colon", "typeExpr", "semicolon">>),
          Opt(<<"valfnSignature", "semicolon">>), One("rightBrace")>>},
     valfnSignature |-> {All(<<"identifier", "colon", "valfn">>)},
     vectorTypeDecl |->
        {All(<<"vector", "leftBracket", "integerConst", "rightBracket", "of", "typeExpr">>)},
     functionDecl |-> {All(<<"function", "writeTypeSignature", "arrow", "readTypeSignature">>)},
     probdefDecl |-> {All(<<"probdef", "writeTypeSignature", "arrow", "readTypeSignature">>)},
     readTypeSignature |-> {<<One("signature")>>},
     writeTypeSignature |-> {<<One("signature")>>},
     predicateFnDecl |-> {All(<<"predicate", "signature">>)},
     identifierOrNil |-> {<<Among({"nil", "qualifiedIdentifier"})>>},
     identifierOrNilList |-> {List("identifierOrNil")},
     identifierList |-> {List("identifier")},
     typeParameterList |->
        {<<>>,
         All(<<"identifier", "colon", "type">>) \o <<Rep(<<"comma", "identifier", "colon",
           "type">>)>>}]

TypeProductions ==
    [typeExpr |->
        {<<Among({"anonAggregateType", "typeName"})>>,
         <<One("basicType"), Opt(<<"and", "typeAnnoteList">>)>>},
     typeAnnoteItem |->
        {<<Among({"dimensionsDesignation", "sigfigDesignation", "signalDesignation",
          "timeseriesDesignation", "tolerance", "unitsDesignation"})>>},
     typeAnnoteList |-> {<<One("typeAnnoteItem"), Rep(<<"and", "typeAnnoteItem">>)>>},
     typeName |-> {<<One("identifier"), Opt(<<"arrow", "identifier">>)>>},
     dimensionsDesignation |-> {All(<<"dimensions", "dimensionArithExpr">>)},
     sigfigDesignation |-> {All(<<"sigfigs", "integerConst">>)},
     signalDesignation |-> {<<One("signal"), Among({"basicSignal", "identifier"})>>},
     timeseriesDesignation |-> {<<Among({"measurement", "timeseries"})>>},
     unitsDesignation |-> {All(<<"units", "unitsArithExpr">>)},
     dimensionArithFactor |->
        {<<One("basicSignalDimension")>>,
         All(<<"leftParens", "dimensionArithExpr", "rightParens">>)},
     dimensionArithTerm |->
        {<<One("dimensionArithFactor"), Rep(<<"highPrecedenceArith2ArithOp",
          "dimensionArithFactor">>)>>},
     dimensionArithExpr |->
        {<<One("dimensionArithTerm"), Rep(<<"lowPrecedenceArith2ArithOp",
          "dimensionArithTerm">>)>>},
     unitsArithFactor |->
        {<<Among({"basicSignalUnits", "identifier", "numericConst"})>>,
         All(<<"leftParens", "unitsArithExpr", "rightParens">>)},
     unitsArithTerm |->
        {<<One("unitsArithFactor"), Rep(<<"highPrecedenceArith2ArithOp",
          "unitsArithFactor">>)>>},
     unitsArithExpr |->
        {<<One("unitsArithTerm"), Rep(<<"lowPrecedenceArith2ArithOp", "unitsArithTerm">>)>>},
     basicSignalDimension |->
        {<<Among({"current", "distance", "exception", "interrupt", "luminosity", "mass",
          "material", "temperature", "time"})>>},
     basicSignalUnits |->
        {<<Among({"A", "Ampere", "K", "Kelvin", "candela", "cd", "kg", "kilogram", "m",
          "meter", "mole", "s", "second"})>>},
     basicSignal |->
        {<<Among({"acceleration", "anglerate", "basicSignalDimension", "magneticfluxdensity",
          "pressure", "relativehumidity"})>>},
     tolerance |-> {<<Among({"accuracyTolerance", "latencyTolerance", "lossTolerance"})>>},
     accuracyTolerance |->
        {All(<<"epsilon", "leftParens", "realConst", "comma", "realConst", "rightParens">>)},
     lossTolerance |->
        {All(<<"alpha", "leftParens", "realConst", "comma", "realConst", "rightParens">>)},
     latencyTolerance |->
        {All(<<"tau", "leftParens", "realConst", "comma", "realConst", "rightParens">>)},
     basicType |-> {<<Among({"bool", "integerType", "realType", "string"})>>},
     integerType |->
        {<<Among({"int128", "int16", "int32", "int4", "int64", "int8", "nat128", "nat16",
          "nat32", "nat4", "nat64", "nat8"})>>},
     realType |->
        {<<Among({"fixedType", "float128", "float16", "float32", "float4", "float64",
          "float8"})>>},
     fixedType |-> {All(<<"fixed", "integerConst", "dot", "integerConst">>)},
     numericType |-> {<<Among({"fixedType", "integerType", "rationalType", "realType"})>>},
     complexType |-> {All(<<"complex", "numericType">>)},
     anonAggregateType |->
        {<<Among({"arrayType", "complexType", "listType", "rationalType", "setType",
          "tupleType"})>>},
     arrayType |->
        {All(<<"array", "leftBracket", "integerConst", "rightBracket">>)
          \o <<Rep(<<"leftBracket", "integerConst", "rightBracket">>)>>
          \o All(<<"of", "typeExpr">>) \o <<Opt(<<"rawmem", "at", "intParamOrConst">>)>>},
     listType |-> {All(<<"list", "of", "typeExpr">>)},
     tupleType |-> {<<One("leftParens")>> \o List("typeExpr") \o <<One("rightParens")>>},
     setType |->
        {All(<<"set", "leftBracket", "integerConst", "rightBracket", "of", "typeExpr">>)},
     rationalType |-> {All(<<"rational", "numericType">>)},
     numericConst |-> {<<Among({"integerConst", "realConst"})>>}]

DefinitionProductions ==
    [initList |-> {<<One("leftBrace")>> \o List("expression") \o <<One("rightBrace")>>},
     idxInitList |-> {<<One("leftBrace")>> \o List("element") \o <<One("rightBrace")>>},
     starInitList |->
        {<<One("leftBrace")>> \o List("element") \o <<Opt(<<"comma", "asterisk", "implies",
          "expression">>), One("rightBrace")>>},
     element |-> {<<One("expression"), Opt(<<"implies", "expression">>)>>},
     functionDefn |->
        {All(<<"identifier", "colon", "function", "signature", "arrow", "signature", "assign",
          "scopedStatementList">>)},
     problemDefn |->
        {All(<<"identifier", "colon", "probdef", "signature", "arrow", "signature", "implies",
          "scopedPredStmtList">>)},
     predicateFnDefn |->
        {All(<<"identifier", "colon", "predicate", "signature", "implies",
          "scopedPredStmtList">>)},
     signature |->
        {All(<<"leftParens", "identifier", "colon", "typeExpr">>)
          \o <<Rep(<<"comma", "identifier", "colon", "typeExpr">>), One("rightParens")>>,
         All(<<"leftParens", "nil", "rightParens">>)},
     scopedStatementList |-> {All(<<"leftBrace", "statementList", "rightBrace">>)},
     statementList |-> {<<Rep(<<"statement">>)>>},
     statement |->
        {<<Item("opt", <<{"assignmentStatement", "iterateStatement", "matchStatement",
          "operatorToleranceDecl", "parallelStatement", "returnStatement",
          "scopedStatementList", "sequenceStatement"}>>), One("semicolon")>>},
     assignmentStatement |->
        {All(<<"identifierOrNilList", "colon">>) \o <<Among({"constantDecl", "typeDecl",
          "typeExpr"})>>,
         All(<<"identifierOrNilList", "assignOp", "expression">>),
         All(<<"leftParens", "identifierOrNilList", "rightParens", "assignOp", "expression">>)},
     returnStatement |-> {All(<<"return", "returnSignature">>)},
     returnSignature |->
        {All(<<"leftParens", "identifier", "colon", "expression">>)
          \o <<Rep(<<"comma", "identifier", "colon", "expression">>), One("rightParens")>>},
     operatorToleranceDecl |->
        {<<Among({"highPrecedenceBinaryOp", "lowPrecedenceBinaryOp", "unaryOp"})>>
          \o All(<<"colon", "typeExpr">>)},
     assignOp |->
        {<<Among({"andAssign", "assign", "asteriskAssign", "channelOperatorAssign",
          "colonAssign", "divideAssign", "leftShiftAssign", "minusAssign", "orAssign",
          "percentAssign", "plusAssign", "rightShiftAssign", "xorAssign"})>>},
     matchStatement |->
        {<<Among({"match", "matchseq"})>> \o All(<<"leftBrace", "guardedStatementList",
          "rightBrace">>)},
     iterateStatement |->
        {All(<<"iterate", "leftBrace", "guardedStatementList", "rightBrace">>)},
     sequenceStatement |->
        {<<One("sequence"), Among({"orderingHead", "setHead"}), One("scopedStatementList")>>},
     parallelStatement |-> {All(<<"parallel", "setHead", "scopedStatementList">>)},
     setHead |-> {All(<<"leftParens", "identifier", "in", "expression", "rightParens">>)},
     orderingHead |->
        {All(<<"leftParens", "assignmentStatement", "semicolon", "expression", "semicolon",
          "assignmentStatement", "rightParens">>)},
     guardedStatementList |->
        {<<Item("rep", <<{"chanEventExpr", "expression"}, {"implies"},
          {"scopedStatementList"}>>)>>},
     guardedExpressionList |-> {<<Rep(<<"expression", "implies", "expression">>)>>}]

ExpressionProductions ==
    [expression |->
        {<<Among({"anonAggrCastExpr", "loadExpr", "quantizeExpression", "sampleExpression"})>>,
         <<One("term"), Rep(<<"lowPrecedenceBinaryOp", "term">>)>>},
     quantizeExpression |-> {All(<<"identifier", "quantize", "expression">>)},
     sampleExpression |-> {All(<<"identifier", "sample", "expression">>)},
     listCastExpr |-> {All(<<"list", "of", "initList">>)},
     setCastExpr |-> {All(<<"set", "of", "initList">>)},
     arrayCastExpr |->
        {All(<<"array", "of", "idxInitList">>),
         All(<<"array", "leftBracket", "integerConst", "rightBracket", "of", "starInitList">>)},
     complexCastExpr |->
        {All(<<"complex", "leftParens", "expression", "comma", "expression", "rightParens">>)},
     rationalCastExpr |->
        {All(<<"rational", "leftParens", "expression", "comma", "expression", "rightParens">>)},
     anonAggrCastExpr |->
        {<<Among({"arrayCastExpr", "complexCastExpr", "listCastExpr", "rationalCastExpr",
          "setCastExpr"})>>},
     chanEventExpr |->
        {<<Among({"distortions", "erasures", "latency"})>>
          \o All(<<"of", "identifier", "cmpOp", "expression">>)},
     loadExpr |->
        {All(<<"load", "identifier">>) \o <<Opt(<<"arrow", "identifier">>),
          Opt(<<"tupleType">>), One("stringConst")>>,
         All(<<"load", "identifier">>) \o <<Opt(<<"arrow", "identifier">>),
           Opt(<<"tupleType">>)>> \o All(<<"leftParens", "path", "typeName", "rightParens">>)},
     term |->
        {<<Opt(<<"basicType">>), Opt(<<"unaryOp">>), One("factor"), Item("opt",
          <<{"minusMinus", "plusPlus"}>>), Rep(<<"highPrecedenceBinaryOp", "factor">>)>>},
     qualifiedIdentifier |-> {<<One("identifier"), Rep(<<"fieldSelect">>)>>},
     factor |->
        {<<Among({"boolConst", "integerConst", "namegenInvokeShorthand", "nil",
          "qualifiedIdentifier", "realConst", "stringConst", "tupleValue", "typeMaxExpr",
          "typeMinExpr"})>>,
         All(<<"leftParens", "expression", "rightParens">>)},
     typeMinExpr |-> {All(<<"typemin", "leftParens", "numericType", "rightParens">>)},
     typeMaxExpr |-> {All(<<"typemax", "leftParens", "numericType", "rightParens">>)},
     namegenInvokeShorthand |->
        {All(<<"identifier", "leftParens", "rightParens">>),
         All(<<"identifier", "leftParens", "identifier", "colon", "expression">>)
           \o <<Rep(<<"comma", "identifier", "colon", "expression">>), One("rightParens")>>},
     tupleValue |-> {All(<<"leftParens", "identifierOrNilList", "rightParens">>)},
     fieldSelect |->
        {All(<<"dot", "identifier">>),
         All(<<"leftBracket", "expression">>) \o <<Opt(<<"colon", "expression">>),
           One("rightBracket")>>}]

OperatorProductions ==
    [highPrecedenceBinaryOp |->
        {<<Among({"arithmeticAnd", "asterisk", "centralmoment", "colonColon", "crossproduct",
          "divide", "dotproduct", "highPrecedenceBinaryBoolOp", "highpass", "lowpass",
          "percent", "xor"})>>},
     lowPrecedenceBinaryOp |->
        {<<Among({"bitwiseOr", "cmpOp", "leftShift", "lowPrecedenceBinaryBoolOp", "minus",
          "plus", "rightShift"})>>},
     cmpOp |->
        {<<Among({"equals", "greaterThan", "greaterThanEqual", "isPermutationOf", "lessThan",
          "lessThanEqual", "notEqual"})>>},
     unaryOp |->
        {<<Among({"cardinality", "channelOperator", "fourier", "frequencies", "head",
          "length", "magnitudes", "minus", "plus", "reverse", "samples", "sigfigs", "sort",
          "tail", "tailtip", "tderivative", "tilde", "timebase", "tintegral", "unaryBoolOp",
          "uncertainty"})>>},
     lowPrecedenceBinaryBoolOp |-> {<<One("logicalOr")>>},
     highPrecedenceBinaryBoolOp |-> {<<Among({"logicalAnd", "xor"})>>},
     unaryBoolOp |-> {<<One("not")>>},
     arith2BoolOp |->
        {<<Among({"equals", "greaterThan", "greaterThanEqual", "lessThan", "lessThanEqual",
          "notEqual"})>>},
     highPrecedenceArith2ArithOp |->
        {<<Among({"arithmeticAnd", "asterisk", "divide", "log", "nrt", "percent", "pow"})>>},
     lowPrecedenceArith2ArithOp |-> {<<Among({"minus", "plus"})>>}]

PredicateProductions ==
    [scopedPredStmtList |-> {All(<<"leftBrace", "predStmtList", "rightBrace">>)},
     predStmtList |-> {<<Rep(<<"predStmt">>)>>},
     predStmt |-> {All(<<"predExpr", "comma">>)},
     predFactor |->
        {<<Among({"boolConst", "identifier"})>>,
         All(<<"leftParens", "predExpr", "rightParens">>)},
     predTerm |->
        {<<Among({"quantifiedBoolTerm", "setCmpTerm"})>>,
         <<One("predFactor"), Rep(<<"highPrecedenceBinaryBoolOp", "predFactor">>)>>,
         All(<<"predArithExpr", "arith2BoolOp">>) \o <<Item("opt", <<{"at"},
           {"intParamOrConst", "realParamOrConst"}>>), One("predArithExpr")>>,
         All(<<"varTuple", "in">>) \o <<Item("opt", <<{"at"}, {"intParamOrConst",
           "realParamOrConst"}>>), One("setExpr")>>,
         All(<<"unaryBoolOp", "predFactor">>)},
     predExpr |->
        {<<One("predTerm"), Item("rep", <<{"cmpOp", "lowPrecedenceBinaryBoolOp"},
          {"predTerm"}>>)>>},
     varIntro |-> {All(<<"identifier", "in">>) \o <<Among({"setExpr", "typeExpr"})>>},
     varIntroList |-> {List("varIntro")},
     varTuple |-> {<<One("leftParens")>> \o List("identifier") \o <<One("rightParens")>>},
     arithParamOrConst |-> {<<Among({"intParamOrConst", "realParamOrConst"})>>},
     predArithFactor |->
        {<<Among({"arithParamOrConst", "identifier", "varIntro"})>>,
         All(<<"leftParens", "predArithExpr", "rightParens">>)},
     predArithTerm |->
        {<<One("predArithFactor"), Rep(<<"highPrecedenceArith2ArithOp", "predArithFactor">>)>>},
     predArithExpr |->
        {<<Among({"maxForExpr", "minForExpr", "productForExpr", "sumForExpr"})>>,
         <<One("predArithTerm"), Rep(<<"lowPrecedenceArith2ArithOp", "predArithTerm">>)>>},
     sumForExpr |-> {All(<<"sum", "sumProdMinMaxBody">>)},
     productForExpr |-> {All(<<"product", "sumProdMinMaxBody">>)},
     minForExpr |-> {All(<<"min", "sumProdMinMaxBody">>)},
     maxForExpr |-> {All(<<"max", "sumProdMinMaxBody">>)},
     sumProdMinMaxBody |->
        {<<Opt(<<"with", "predExpr">>)>> \o All(<<"of", "leftParens", "predArithExpr",
          "rightParens">>),
         All(<<"for", "varIntro">>) \o <<Opt(<<"from", "predArithExpr", "to",
           "predArithExpr">>), Opt(<<"with", "predExpr">>)>>
           \o All(<<"of", "leftParens", "predArithExpr", "rightParens">>)},
     quantifiedBoolTerm |->
        {All(<<"quantifierOp", "varIntroList", "leftParens", "predExpr", "rightParens">>)},
     setCmpTerm |-> {All(<<"setExpr", "setCmpOp", "setExpr">>)},
     setFactor |->
        {<<One("omega")>>,
         All(<<"constSetExpr", "colon", "typeExpr">>),
         All(<<"leftBrace", "rightBrace">>),
         All(<<"leftParens", "setExpr", "rightParens">>),
         All(<<"leftParens", "predExpr", "colon", "typeExpr", "rightParens">>)},
     setTerm |->
        {<<One("setFactor"), Rep(<<"highPrecedenceBoolSetOp", "setFactor">>)>>,
         All(<<"unarySetOp", "setFactor">>)},
     setExpr |-> {<<One("setTerm"), Rep(<<"lowPrecedenceBoolSetOp", "setTerm">>)>>},
     intParamOrConst |-> {<<Among({"identifier", "integerConst"})>>},
     realParamOrConst |-> {<<Among({"identifier", "realConst"})>>},
     stringParamOrConst |-> {<<Among({"identifier", "stringConst"})>>},
     baseConst |-> {<<Among({"intParamOrConst", "realParamOrConst", "stringParamOrConst"})>>},
     tuple |-> {<<One("leftParens")>> \o List("baseConst") \o <<One("rightParens")>>},
     constSetExpr |->
        {<<One("leftBrace")>> \o List("tuple") \o <<One("rightBrace")>>,
         <<One("leftBrace")>> \o List("baseConst") \o <<One("rightBrace")>>},
     highPrecedenceBoolSetOp |-> {<<Among({"setCross", "setIntersect"})>>},
     lowPrecedenceBoolSetOp |-> {<<Among({"iff", "implies", "minus", "plus", "xor"})>>},
     unarySetOp |-> {<<Among({"complement", "powerset"})>>},
     quantifierOp |-> {<<Among({"exists", "forall", "given"})>>},
     setCmpOp |-> {<<Among({"strongdominates", "weakdominates"})>>}]

Grammar ==
    ModuleProductions @@ TypeProductions @@ DefinitionProductions
    @@ ExpressionProductions @@ OperatorProductions @@ PredicateProductions
=============================================================================
