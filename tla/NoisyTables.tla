---------------------------- MODULE NoisyTables ----------------------------
(***************************************************************************)
(* The tables gNoisyFirsts and gNoisyFollows, which ffi2code generated     *)
(* from the Noisy grammar: for a production the tokens it may begin with,  *)
(* for a production or a token those that may come behind it.  A row that  *)
(* is the union of other sets is written as one; a definition stands for   *)
(* some consecutive rows of the source, in its order, and is named after   *)
(* the first of them.  A token without a row has none here either: then    *)
(* inFollow finds no token in its set.                                     *)
(***************************************************************************)
EXTENDS TLC

(* Sets of tokens that occur in many rows.                                 *)
Dimensions ==
    {"distance", "mass", "time", "material", "current", "luminosity",
    "temperature", "interrupt", "exception"}
UnitNames ==
    {"m", "kg", "s", "mole", "A", "cd", "K", "meter", "kilogram", "second",
    "Ampere", "candela", "Kelvin"}
IntegerTypes ==
    {"nat4", "nat8", "nat16", "nat32", "nat64", "nat128", "int4", "int8",
    "int16", "int32", "int64", "int128"}
RealTypes ==
    {"float4", "float8", "float16", "float32", "float64", "float128", "fixed"}
BasicTypes == IntegerTypes \cup RealTypes \cup {"bool", "string"}
AggregateTypes == {"leftParens", "list", "set", "array", "complex", "rational"}
TypeStarts == BasicTypes \cup AggregateTypes \cup {"identifier"}
Comparisons ==
    {"equals", "notEqual", "greaterThan", "greaterThanEqual", "lessThan",
    "lessThanEqual"}
ArithmeticOperators ==
    {"asterisk", "divide", "percent", "arithmeticAnd", "pow", "nrt", "log"}
AssignmentOperators ==
    {"assign", "xorAssign", "orAssign", "andAssign", "percentAssign",
    "divideAssign", "asteriskAssign", "minusAssign", "plusAssign",
    "rightShiftAssign", "leftShiftAssign", "channelOperatorAssign",
    "colonAssign"}
HighBinaryOperators ==
    {"xor", "asterisk", "divide", "percent", "arithmeticAnd", "logicalAnd",
    "colonColon", "lowpass", "highpass", "dotproduct", "crossproduct",
    "centralmoment"}
LowBinaryOperators ==
    Comparisons \cup {"plus", "minus", "logicalOr", "isPermutationOf",
    "rightShift", "leftShift", "bitwiseOr"}
UnaryOperators ==
    {"plus", "minus", "not", "tilde", "channelOperator", "head", "tail",
    "tailtip", "length", "sort", "uncertainty", "tintegral", "tderivative",
    "timebase", "sigfigs", "samples", "frequencies", "magnitudes", "reverse",
    "fourier", "cardinality"}
Quantifiers == {"forall", "exists", "given"}
SetComparisons == {"strongdominates", "weakdominates"}
SetOperators ==
    {"plus", "minus", "xor", "implies", "iff", "setIntersect", "setCross"}
Factors ==
    {"leftParens", "integerConst", "identifier", "realConst", "stringConst",
    "boolConst", "typemax", "typemin", "nil"}
Operands ==
    {"leftParens", "integerConst", "identifier", "realConst", "stringConst",
    "boolConst", "typemax", "typemin"}
Designations ==
    {"sigfigs", "tau", "alpha", "epsilon", "units", "timeseries",
    "measurement", "signal", "dimensions"}
BehindUnaryOperators == Operands \cup {"colon"}
Terms == UnaryOperators \cup BasicTypes \cup Factors
Expressions == Terms \cup AggregateTypes \cup {"load"}
Statements ==
    UnaryOperators \cup HighBinaryOperators \cup LowBinaryOperators \cup
    {"leftBrace", "leftParens", "identifier", "nil", "parallel", "sequence",
    "iterate", "match", "matchseq", "return", "semicolon"}
Sums == {"max", "min", "product", "sum"}
SetStarts == {"powerset", "complement", "leftBrace", "leftParens", "omega"}
Predicates ==
    Sums \cup Quantifiers \cup {"leftParens", "integerConst", "identifier",
    "realConst", "boolConst", "not"}
BehindPredicates ==
    Comparisons \cup {"xor", "of", "logicalAnd", "logicalOr",
    "isPermutationOf", "colon", "comma", "rightParens"}
BehindPredicateSums ==
    (BehindPredicates \ {"xor", "logicalAnd", "isPermutationOf"}) \cup
    {"with", "to"}
BehindSets ==
    Predicates \cup BehindPredicateSums \cup SetOperators \cup
    ArithmeticOperators \cup SetComparisons \cup {"from"}
BehindTypes ==
    BehindSets \cup TypeStarts \cup UnaryOperators \cup Operands \cup {"load",
    "semicolon", "and"}
BehindLoads ==
    {"implies", "semicolon", "colon", "comma", "rightBrace", "rightParens",
    "rightBracket"}
BehindFactors ==
    LowBinaryOperators \cup HighBinaryOperators \cup BehindLoads \cup
    {"plusPlus", "minusMinus"}
BehindArithmetic ==
    BehindPredicateSums \cup ArithmeticOperators \cup {"plus", "minus"}

-----------------------------------------------------------------------------
(* What a production may begin with.                                       *)

First_setCmpOp ==
    [setCmpOp |-> SetComparisons,
     quantifierOp |-> Quantifiers,
     unarySetOp |-> {"powerset", "complement"},
     lowPrecedenceBoolSetOp |-> {"plus", "minus", "xor", "implies", "iff"},
     highPrecedenceBoolSetOp |-> {"setIntersect", "setCross"},
     constSetExpr |-> {"leftBrace"},
     tuple |-> {"leftParens"},
     baseConst |-> {"integerConst", "identifier", "realConst",
        "stringConst"},
     stringParamOrConst |-> {"identifier", "stringConst"},
     realParamOrConst |-> {"identifier", "realConst"},
     intParamOrConst |-> {"integerConst", "identifier"},
     setExpr |-> SetStarts,
     setTerm |-> SetStarts,
     setFactor |-> {"leftBrace", "leftParens", "omega"},
     setCmpTerm |-> SetStarts,
     quantifiedBoolTerm |-> Quantifiers,
     sumProdMinMaxBody |-> {"for", "with", "of"},
     maxForExpr |-> {"max"},
     minForExpr |-> {"min"},
     productForExpr |-> {"product"},
     sumForExpr |-> {"sum"},
     predArithExpr |-> Sums \cup {"leftParens", "integerConst",
        "identifier", "realConst"},
     predArithTerm |-> {"leftParens", "integerConst", "identifier",
        "realConst"},
     predArithFactor |-> {"leftParens", "integerConst", "identifier",
        "realConst"},
     arithParamOrConst |-> {"integerConst", "identifier", "realConst"},
     varTuple |-> {"leftParens"},
     varIntroList |-> {"identifier"},
     varIntro |-> {"identifier"},
     predExpr |-> Predicates]
First_predTerm ==
    [predTerm |-> Predicates,
     predFactor |-> {"leftParens", "identifier", "boolConst"},
     predStmt |-> Predicates,
     predStmtList |-> Predicates \cup {"Zepsilon"},
     scopedPredStmtList |-> {"leftBrace"},
     lowPrecedenceArith2ArithOp |-> {"plus", "minus"},
     highPrecedenceArith2ArithOp |-> ArithmeticOperators,
     arith2BoolOp |-> Comparisons,
     unaryBoolOp |-> {"not"},
     highPrecedenceBinaryBoolOp |-> {"xor", "logicalAnd"},
     lowPrecedenceBinaryBoolOp |-> {"logicalOr"},
     unaryOp |-> UnaryOperators,
     cmpOp |-> Comparisons \cup {"isPermutationOf"},
     lowPrecedenceBinaryOp |-> LowBinaryOperators]
First_highPrecedenceBinaryOp ==
    [highPrecedenceBinaryOp |-> HighBinaryOperators,
     fieldSelect |-> {"dot", "leftBracket"},
     tupleValue |-> {"leftParens"},
     namegenInvokeShorthand |-> {"identifier"},
     typeMaxExpr |-> {"typemax"},
     typeMinExpr |-> {"typemin"},
     factor |-> Factors,
     term |-> Terms,
     loadExpr |-> {"load"},
     chanEventExpr |-> {"erasures", "distortions", "latency"},
     anonAggrCastExpr |-> {"list", "set", "array", "complex", "rational"},
     rationalCastExpr |-> {"rational"},
     complexCastExpr |-> {"complex"},
     arrayCastExpr |-> {"array"},
     setCastExpr |-> {"set"},
     listCastExpr |-> {"list"},
     sampleExpression |-> {"identifier"},
     quantizeExpression |-> {"identifier"}]
First_expression ==
    [expression |-> Expressions,
     guardedExpressionList |-> (Expressions \ {"nil"}) \cup {"Zepsilon"}]
First_guardedStatementList ==
    [guardedStatementList |-> (Expressions \ {"nil"}) \cup {"Zepsilon"},
     orderingHead |-> {"leftParens"},
     setHead |-> {"leftParens"},
     parallelStatement |-> {"parallel"},
     sequenceStatement |-> {"sequence"},
     iterateStatement |-> {"iterate"},
     matchStatement |-> {"match", "matchseq"},
     assignOp |-> AssignmentOperators,
     operatorToleranceDecl |-> UnaryOperators \cup HighBinaryOperators \cup
        LowBinaryOperators,
     returnSignature |-> {"leftParens"},
     returnStatement |-> {"return"},
     assignmentStatement |-> {"leftParens", "identifier", "nil"}]
First_statement ==
    [statement |-> Statements,
     statementList |-> Statements \cup {"Zepsilon"},
     scopedStatementList |-> {"leftBrace"},
     typeParameterList |-> {"identifier", "Zepsilon"}]
First_element ==
    [element |-> Expressions \ {"nil"},
     starInitList |-> {"leftBrace"},
     idxInitList |-> {"leftBrace"},
     initList |-> {"leftBrace"},
     numericConst |-> {"integerConst", "realConst"},
     rationalType |-> {"rational"},
     setType |-> {"set"},
     tupleType |-> {"leftParens"},
     listType |-> {"list"},
     arrayType |-> {"array"},
     anonAggregateType |-> AggregateTypes,
     complexType |-> {"complex"},
     numericType |-> IntegerTypes \cup RealTypes \cup {"rational"},
     fixedType |-> {"fixed"},
     realType |-> RealTypes,
     integerType |-> IntegerTypes]
First_basicType ==
    [basicType |-> BasicTypes,
     latencyTolerance |-> {"tau"},
     lossTolerance |-> {"alpha"},
     accuracyTolerance |-> {"epsilon"},
     tolerance |-> {"tau", "alpha", "epsilon"},
     basicSignal |-> Dimensions \cup {"pressure", "acceleration",
        "magneticfluxdensity", "relativehumidity", "anglerate"},
     basicSignalUnits |-> UnitNames,
     basicSignalDimension |-> Dimensions,
     unitsArithExpr |-> UnitNames \cup {"leftParens", "integerConst",
        "identifier", "realConst"},
     unitsArithTerm |-> UnitNames \cup {"leftParens", "integerConst",
        "identifier", "realConst"},
     unitsArithFactor |-> UnitNames \cup {"leftParens", "integerConst",
        "identifier", "realConst"}]
First_dimensionArithExpr ==
    [dimensionArithExpr |-> Dimensions \cup {"leftParens"},
     dimensionArithTerm |-> Dimensions \cup {"leftParens"},
     dimensionArithFactor |-> Dimensions \cup {"leftParens"},
     unitsDesignation |-> {"units"},
     timeseriesDesignation |-> {"timeseries", "measurement"},
     signalDesignation |-> {"signal"},
     sigfigDesignation |-> {"sigfigs"},
     dimensionsDesignation |-> {"dimensions"},
     typeName |-> {"identifier"},
     typeAnnoteList |-> Designations,
     typeAnnoteItem |-> Designations,
     typeExpr |-> TypeStarts,
     identifierList |-> {"identifier"},
     identifierOrNilList |-> {"identifier", "nil"},
     identifierOrNil |-> {"identifier", "nil"},
     qualifiedIdentifier |-> {"identifier"},
     predicateFnDecl |-> {"predicate"},
     writeTypeSignature |-> {"leftParens"},
     readTypeSignature |-> {"leftParens"},
     probdefDecl |-> {"probdef"},
     functionDecl |-> {"function"},
     vectorTypeDecl |-> {"vector"},
     valfnSignature |-> {"identifier"},
     adtTypeDecl |-> {"adt"},
     typeAnnoteDecl |-> {"typeannote"},
     typeDecl |-> {"vector", "adt", "type"},
     constantDecl |-> {"const"},
     moduleTypeNameDecl |-> {"identifier"},
     moduleDeclBody |-> {"identifier", "Zepsilon"},
     moduleDecl |-> {"identifier"},
     signature |-> {"leftParens"},
     predicateFnDefn |-> {"identifier"},
     problemDefn |-> {"identifier"},
     functionDefn |-> {"identifier"},
     program |-> {"identifier"}]

gNoisyFirsts ==
    First_setCmpOp @@ First_predTerm @@ First_highPrecedenceBinaryOp @@
    First_expression @@ First_guardedStatementList @@ First_statement @@
    First_element @@ First_basicType @@ First_dimensionArithExpr

-----------------------------------------------------------------------------
(* What may come behind a production or a token.                           *)

Follow_setCmpOp ==
    [setCmpOp |-> SetStarts,
     quantifierOp |-> {"identifier"},
     unarySetOp |-> {"leftBrace", "leftParens", "omega"},
     lowPrecedenceBoolSetOp |-> SetStarts,
     highPrecedenceBoolSetOp |-> {"leftBrace", "leftParens", "omega"},
     constSetExpr |-> {"colon"},
     tuple |-> {"comma", "rightBrace"},
     baseConst |-> {"comma", "rightBrace", "rightParens"},
     stringParamOrConst |-> {"comma", "rightBrace", "rightParens"},
     realParamOrConst |-> BehindArithmetic \cup SetStarts \cup Sums \cup
        {"integerConst", "identifier", "realConst", "rightBrace"},
     intParamOrConst |-> BehindArithmetic \cup SetStarts \cup Sums \cup
        {"integerConst", "identifier", "realConst", "rightBrace"}]
Follow_setExpr ==
    [setExpr |-> BehindArithmetic \cup Predicates \cup SetComparisons \cup
        {"from"},
     setTerm |-> BehindSets \ {"setIntersect", "setCross"},
     setFactor |-> BehindSets,
     setCmpTerm |-> {"of", "logicalOr", "colon", "comma", "rightParens"},
     quantifiedBoolTerm |-> {"of", "logicalOr", "colon", "comma",
        "rightParens"}]
Follow_sumProdMinMaxBody ==
    [sumProdMinMaxBody |-> BehindPredicateSums,
     maxForExpr |-> BehindPredicateSums,
     minForExpr |-> BehindPredicateSums,
     productForExpr |-> BehindPredicateSums,
     sumForExpr |-> BehindPredicateSums,
     predArithExpr |-> BehindPredicateSums,
     predArithTerm |-> BehindPredicateSums \cup {"plus", "minus"},
     predArithFactor |-> BehindArithmetic]
Follow_arithParamOrConst ==
    [arithParamOrConst |-> BehindArithmetic,
     varTuple |-> {"in"},
     varIntroList |-> Predicates,
     varIntro |-> BehindArithmetic \cup Predicates \cup {"from"},
     predExpr |-> {"of", "colon", "comma", "rightParens"},
     predTerm |-> BehindPredicates \ {"xor", "logicalAnd"},
     predFactor |-> BehindPredicates,
     predStmt |-> Predicates,
     predStmtList |-> {"rightBrace"},
     scopedPredStmtList |-> {"identifier", "Zeof"}]
Follow_lowPrecedenceArith2ArithOp ==
    [lowPrecedenceArith2ArithOp |-> UnitNames \cup Dimensions \cup
        {"leftParens", "integerConst", "identifier", "realConst"},
     highPrecedenceArith2ArithOp |-> UnitNames \cup Dimensions \cup
        {"leftParens", "integerConst", "identifier", "realConst"},
     arith2BoolOp |-> Sums \cup {"leftParens", "integerConst",
        "identifier", "realConst", "at"},
     unaryBoolOp |-> BehindUnaryOperators,
     highPrecedenceBinaryBoolOp |-> LowBinaryOperators \cup
        BehindUnaryOperators \cup BehindLoads]
Follow_lowPrecedenceBinaryBoolOp ==
    [lowPrecedenceBinaryBoolOp |-> UnaryOperators \cup BasicTypes \cup
        Predicates \cup BehindLoads \cup Operands,
     unaryOp |-> Factors \cup {"colon"},
     cmpOp |-> (Expressions \ {"nil"}) \cup BehindLoads]
Follow_lowPrecedenceBinaryOp ==
    [lowPrecedenceBinaryOp |-> (Terms \ {"nil"}) \cup BehindLoads,
     highPrecedenceBinaryOp |-> LowBinaryOperators \cup Factors \cup
        BehindLoads,
     fieldSelect |-> BehindFactors \cup AssignmentOperators \cup {"dot",
        "leftBracket"}]
Follow_tupleValue ==
    [tupleValue |-> BehindFactors,
     namegenInvokeShorthand |-> BehindFactors,
     typeMaxExpr |-> BehindFactors,
     typeMinExpr |-> BehindFactors]
Follow_factor ==
    [factor |-> BehindFactors,
     term |-> LowBinaryOperators \cup BehindLoads,
     loadExpr |-> BehindLoads,
     chanEventExpr |-> {"implies"},
     anonAggrCastExpr |-> BehindLoads,
     rationalCastExpr |-> BehindLoads,
     complexCastExpr |-> BehindLoads,
     arrayCastExpr |-> BehindLoads,
     setCastExpr |-> BehindLoads,
     listCastExpr |-> BehindLoads,
     sampleExpression |-> BehindLoads]
Follow_quantizeExpression ==
    [quantizeExpression |-> BehindLoads,
     expression |-> BehindLoads,
     guardedExpressionList |-> {"rightBrace"},
     guardedStatementList |-> {"rightBrace"},
     orderingHead |-> {"leftBrace"},
     setHead |-> {"leftBrace"},
     parallelStatement |-> {"semicolon"},
     sequenceStatement |-> {"semicolon"},
     iterateStatement |-> {"semicolon"},
     matchStatement |-> {"semicolon"},
     assignOp |-> Expressions,
     operatorToleranceDecl |-> {"semicolon"},
     returnSignature |-> {"semicolon"},
     returnStatement |-> {"semicolon"},
     assignmentStatement |-> {"semicolon", "rightParens"}]
Follow_statement ==
    [statement |-> Statements \cup {"rightBrace"},
     statementList |-> {"rightBrace"},
     scopedStatementList |-> Expressions \cup {"semicolon", "rightBrace",
        "Zeof"},
     typeParameterList |-> {"rightParens"},
     element |-> {"comma", "rightBrace"},
     starInitList |-> BehindLoads,
     idxInitList |-> BehindLoads]
Follow_initList ==
    [initList |-> BehindLoads,
     numericConst |-> BehindTypes]
Follow_rationalType == "rationalType" :> (BehindTypes \ {"and"})
Follow_setType == "setType" :> (BehindTypes \ {"and"})
Follow_tupleType == "tupleType" :> ((BehindTypes \ {"and"}) \cup {"path"})
Follow_listType == "listType" :> (BehindTypes \ {"and"})
Follow_arrayType == "arrayType" :> (BehindTypes \ {"and"})
Follow_anonAggregateType == "anonAggregateType" :> (BehindTypes \ {"and"})
Follow_complexType == "complexType" :> (BehindTypes \ {"and"})
Follow_numericType == "numericType" :> (BehindTypes \ {"and"})
Follow_fixedType == "fixedType" :> BehindTypes
Follow_realType == "realType" :> BehindTypes
Follow_integerType == "integerType" :> BehindTypes
Follow_basicType == "basicType" :> (BehindTypes \cup {"nil"})
Follow_latencyTolerance == "latencyTolerance" :> BehindTypes
Follow_lossTolerance == "lossTolerance" :> BehindTypes
Follow_accuracyTolerance == "accuracyTolerance" :> BehindTypes
Follow_tolerance == "tolerance" :> BehindTypes
Follow_basicSignal == "basicSignal" :> BehindTypes
Follow_basicSignalUnits == "basicSignalUnits" :> BehindTypes
Follow_basicSignalDimension == "basicSignalDimension" :> BehindTypes
Follow_unitsArithExpr == "unitsArithExpr" :> BehindTypes
Follow_unitsArithTerm == "unitsArithTerm" :> BehindTypes
Follow_unitsArithFactor == "unitsArithFactor" :> BehindTypes
Follow_dimensionArithExpr == "dimensionArithExpr" :> BehindTypes
Follow_dimensionArithTerm == "dimensionArithTerm" :> BehindTypes
Follow_dimensionArithFactor == "dimensionArithFactor" :> BehindTypes
Follow_unitsDesignation == "unitsDesignation" :> BehindTypes
Follow_timeseriesDesignation == "timeseriesDesignation" :> BehindTypes
Follow_signalDesignation == "signalDesignation" :> BehindTypes
Follow_sigfigDesignation == "sigfigDesignation" :> BehindTypes
Follow_dimensionsDesignation == "dimensionsDesignation" :> BehindTypes
Follow_typeName == "typeName" :> ((BehindTypes \ {"and"}) \cup {"rightBrace"})
Follow_typeAnnoteList == "typeAnnoteList" :> (BehindTypes \ {"and"})
Follow_typeAnnoteItem == "typeAnnoteItem" :> BehindTypes
Follow_typeExpr ==
    [typeExpr |-> BehindTypes \ {"and"},
     identifierList |-> {"colon"},
     identifierOrNilList |-> AssignmentOperators \cup {"colon",
        "rightParens"},
     identifierOrNil |-> AssignmentOperators \cup {"colon", "comma",
        "rightParens"}]
Follow_qualifiedIdentifier ==
    [qualifiedIdentifier |-> BehindFactors \cup AssignmentOperators,
     predicateFnDecl |-> {"semicolon"},
     writeTypeSignature |-> {"arrow"},
     readTypeSignature |-> {"semicolon"},
     probdefDecl |-> {"semicolon"},
     functionDecl |-> {"semicolon"},
     vectorTypeDecl |-> {"semicolon", "rightParens"},
     valfnSignature |-> {"semicolon"},
     adtTypeDecl |-> {"semicolon"},
     typeAnnoteDecl |-> {"semicolon"},
     typeDecl |-> {"semicolon", "rightParens"},
     constantDecl |-> {"semicolon", "rightParens"},
     moduleTypeNameDecl |-> {"semicolon"},
     moduleDeclBody |-> {"rightBrace"},
     moduleDecl |-> {"identifier", "Zeof"},
     signature |-> {"implies", "assign", "semicolon", "arrow"},
     predicateFnDefn |-> {"identifier", "Zeof"},
     problemDefn |-> {"identifier", "Zeof"},
     functionDefn |-> {"identifier", "Zeof"},
     program |-> {"Zeof"}]
Follow_Kelvin == "Kelvin" :> BehindTypes
Follow_candela == "candela" :> BehindTypes
Follow_Ampere == "Ampere" :> BehindTypes
Follow_mole == "mole" :> BehindTypes
Follow_second == "second" :> BehindTypes
Follow_kilogram == "kilogram" :> BehindTypes
Follow_meter ==
    [meter |-> BehindTypes,
     stringConst |-> BehindFactors]
Follow_realConst ==
    "realConst" :> (BehindTypes \cup HighBinaryOperators \cup SetStarts \cup
    LowBinaryOperators \cup {"rightBrace", "plusPlus", "minusMinus"})
Follow_integerConst ==
    "integerConst" :> (BehindTypes \cup BehindFactors \cup SetStarts \cup
    {"dot"})
Follow_identifier ==
    [identifier |-> BehindFactors \cup AssignmentOperators \cup
        BehindArithmetic \cup SetStarts \cup Sums \cup {"integerConst",
        "identifier", "realConst", "stringConst", "dot", "leftBracket", "in",
        "path", "arrow", "PsignalDesignation", "PtypeName",
        "PunitsArithFactor", "quantize", "sample"},
     boolConst |-> BehindFactors \cup {"of"},
     magnitudes |-> BehindUnaryOperators,
     frequencies |-> BehindUnaryOperators,
     vector |-> {"leftBracket"},
     valfn |-> {"semicolon"}]
Follow_units ==
    [units |-> UnitNames \cup {"leftParens", "integerConst", "identifier",
        "realConst"},
     typemin |-> {"leftParens"},
     typemax |-> {"leftParens"},
     typeannote |-> Designations,
     type |-> TypeStarts \cup {"leftBrace", "comma", "rightBrace",
        "rightParens"},
     true |-> {"boolConst"},
     tintegral |-> BehindUnaryOperators]
Follow_measurement == "measurement" :> BehindTypes
Follow_timeseries ==
    [timeseries |-> BehindTypes,
     timebase |-> BehindUnaryOperators]
Follow_time == "time" :> BehindTypes
Follow_temperature == "temperature" :> BehindTypes
Follow_interrupt == "interrupt" :> BehindTypes
Follow_exception ==
    [exception |-> BehindTypes,
     tderivative |-> BehindUnaryOperators,
     tau |-> {"leftParens"},
     tail |-> BehindUnaryOperators]
Follow_string ==
    [string |-> BehindTypes,
     sort |-> BehindUnaryOperators,
     signal |-> Dimensions \cup {"identifier", "pressure", "acceleration",
        "magneticfluxdensity", "relativehumidity", "anglerate"},
     sigfigs |-> BehindUnaryOperators,
     set |-> {"of", "leftBracket"},
     sequence |-> {"leftParens"}]
Follow_samples ==
    [samples |-> BehindUnaryOperators,
     s |-> BehindTypes,
     reverse |-> BehindUnaryOperators,
     return |-> {"leftParens"},
     rational |-> IntegerTypes \cup RealTypes \cup {"leftParens",
        "rational"}]
Follow_sample ==
    [sample |-> Expressions \ {"nil"},
     quantize |-> Expressions \ {"nil"},
     probdef |-> {"leftParens"}]
Follow_pressure ==
    [pressure |-> BehindTypes,
     predicate |-> {"leftParens"},
     parallel |-> {"leftParens"},
     omega |-> BehindSets]
Follow_of ==
    [of |-> TypeStarts \cup {"leftBrace"},
     nil |-> AssignmentOperators \cup {"semicolon", "colon", "comma",
        "rightParens"},
     nat8 |-> BehindTypes]
Follow_nat64 == "nat64" :> BehindTypes
Follow_nat4 == "nat4" :> BehindTypes
Follow_nat32 == "nat32" :> BehindTypes
Follow_nat16 == "nat16" :> BehindTypes
Follow_nat128 ==
    [nat128 |-> BehindTypes,
     module |-> {"leftParens"}]
Follow_material ==
    [material |-> BehindTypes,
     matchseq |-> {"leftBrace"},
     match |-> {"leftBrace"}]
Follow_mass == "mass" :> BehindTypes
Follow_magneticfluxdensity == "magneticfluxdensity" :> BehindTypes
Follow_m == "m" :> BehindTypes
Follow_luminosity ==
    [luminosity |-> BehindTypes,
     lowpass |-> LowBinaryOperators \cup BehindUnaryOperators \cup
        BehindLoads,
     load |-> {"identifier"},
     list |-> {"of"},
     length |-> BehindUnaryOperators,
     latency |-> {"of"}]
Follow_kg ==
    [kg |-> BehindTypes,
     iterate |-> {"leftBrace"}]
Follow_int8 == "int8" :> BehindTypes
Follow_int64 == "int64" :> BehindTypes
Follow_int4 == "int4" :> BehindTypes
Follow_int32 == "int32" :> BehindTypes
Follow_int16 == "int16" :> BehindTypes
Follow_int128 == "int128" :> BehindTypes
Follow_in ==
    "in" :> (TypeStarts \cup UnaryOperators \cup Operands \cup SetStarts \cup
    {"load", "at"})
Follow_relativehumidity ==
    [relativehumidity |-> BehindTypes,
     highpass |-> LowBinaryOperators \cup BehindUnaryOperators \cup
        BehindLoads,
     tailtip |-> BehindUnaryOperators]
Follow_head ==
    [head |-> BehindUnaryOperators,
     given |-> {"identifier"},
     function |-> {"leftParens"},
     fourier |-> BehindUnaryOperators,
     forall |-> {"identifier"},
     float8 |-> BehindTypes]
Follow_float64 == "float64" :> BehindTypes
Follow_float4 == "float4" :> BehindTypes
Follow_float32 == "float32" :> BehindTypes
Follow_float16 == "float16" :> BehindTypes
Follow_float128 ==
    [float128 |-> BehindTypes,
     fixed |-> {"integerConst"},
     false |-> BehindFactors \cup {"of"},
     exists |-> {"identifier"},
     distortions |-> {"of"},
     erasures |-> {"of"},
     epsilon |-> {"leftParens"}]
Follow_dotproduct ==
    [dotproduct |-> LowBinaryOperators \cup BehindUnaryOperators \cup
        BehindLoads,
     distance |-> BehindTypes,
     dimensions |-> Dimensions \cup {"leftParens"}]
Follow_current ==
    [current |-> BehindTypes,
     crossproduct |-> LowBinaryOperators \cup BehindUnaryOperators \cup
        BehindLoads,
     const |-> {"integerConst", "realConst", "boolConst"}]
Follow_complex ==
    [complex |-> IntegerTypes \cup RealTypes \cup {"leftParens",
        "rational"},
     cd |-> BehindTypes,
     cardinality |-> BehindUnaryOperators]
Follow_bool == "bool" :> (BehindTypes \cup {"isPermutationOf", "nil"})
Follow_anglerate ==
    [anglerate |-> BehindTypes,
     and |-> Designations,
     alpha |-> {"leftParens"},
     adt |-> {"leftBrace"}]
Follow_acceleration ==
    [acceleration |-> BehindTypes,
     xor |-> LowBinaryOperators \cup BehindUnaryOperators \cup BehindLoads
        \cup SetStarts]
Follow_rightBracket ==
    [rightBracket |-> BehindFactors \cup AssignmentOperators \cup {"of",
        "leftBracket"},
     leftBracket |-> (Expressions \ {"nil"}) \cup {"asterisk"}]
Follow_K == "K" :> BehindTypes
Follow_A ==
    [A |-> BehindTypes,
     arrow |-> {"leftParens", "identifier"}]
Follow_xorAssign ==
    [xorAssign |-> Expressions,
     tilde |-> BehindUnaryOperators,
     setIntersect |-> {"leftBrace", "leftParens", "omega"},
     setCross |-> {"leftBrace", "leftParens", "omega"}]
Follow_semicolon ==
    "semicolon" :> (Expressions \cup Statements \cup {"rightBrace"})
Follow_rightShiftAssign ==
    [rightShiftAssign |-> Expressions,
     rightShift |-> (Terms \ {"nil"}) \cup BehindLoads]
Follow_rightParens ==
    "rightParens" :> (BehindTypes \cup AssignmentOperators \cup
    HighBinaryOperators \cup LowBinaryOperators \cup {"leftBrace",
    "rightBrace", "in", "plusPlus", "minusMinus", "path", "arrow"})
Follow_rightBrace ==
    [rightBrace |-> BehindSets \cup BehindLoads \cup {"Zeof"},
     plusPlus |-> BehindFactors \ {"plusPlus", "minusMinus"},
     plusAssign |-> Expressions]
Follow_plus ==
    [plus |-> UnaryOperators \cup BasicTypes \cup UnitNames \cup Dimensions
        \cup BehindUnaryOperators \cup BehindLoads \cup SetStarts,
     percentAssign |-> Expressions]
Follow_percent ==
    [percent |-> UnitNames \cup LowBinaryOperators \cup Dimensions \cup
        BehindUnaryOperators \cup BehindLoads,
     orAssign |-> Expressions]
Follow_notEqual ==
    [notEqual |-> (Expressions \ {"nil"}) \cup BehindLoads \cup Sums \cup
        {"at"},
     not |-> BehindUnaryOperators,
     minusMinus |-> BehindFactors \ {"plusPlus", "minusMinus"}]
Follow_minusAssign ==
    [minusAssign |-> Expressions,
     minus |-> UnaryOperators \cup BasicTypes \cup UnitNames \cup
        Dimensions \cup BehindUnaryOperators \cup BehindLoads \cup SetStarts]
Follow_logicalAnd ==
    [logicalAnd |-> LowBinaryOperators \cup BehindUnaryOperators \cup
        BehindLoads,
     logicalOr |-> UnaryOperators \cup BasicTypes \cup Predicates \cup
        BehindLoads \cup Operands]
Follow_lessThanEqual ==
    [lessThanEqual |-> (Expressions \ {"nil"}) \cup BehindLoads \cup Sums
        \cup {"at"},
     lessThan |-> (Expressions \ {"nil"}) \cup BehindLoads \cup Sums \cup
        {"at"}]
Follow_leftShift ==
    [leftShift |-> (Terms \ {"nil"}) \cup BehindLoads,
     leftShiftAssign |-> Expressions]
Follow_leftParens ==
    "leftParens" :> (Expressions \cup UnitNames \cup Dimensions \cup
    Predicates \cup SetStarts \cup {"Zepsilon", "rightParens", "path"})
Follow_leftBrace ==
    "leftBrace" :> (Expressions \cup Statements \cup Predicates \cup
    {"Zepsilon", "rightBrace"})
Follow_isPermutationOf ==
    "isPermutationOf" :> ((Expressions \ {"nil"}) \cup BehindLoads)
Follow_implies ==
    [implies |-> Expressions \cup Statements \cup {"Zepsilon"},
     iff |-> SetStarts]
Follow_greaterThanEqual ==
    [greaterThanEqual |-> (Expressions \ {"nil"}) \cup BehindLoads \cup
        Sums \cup {"at"},
     greaterThan |-> (Expressions \ {"nil"}) \cup BehindLoads \cup Sums
        \cup {"at"}]
Follow_equals ==
    [equals |-> (Expressions \ {"nil"}) \cup BehindLoads \cup Sums \cup
        {"at"},
     dot |-> {"integerConst", "identifier"},
     divide |-> UnitNames \cup LowBinaryOperators \cup Dimensions \cup
        BehindUnaryOperators \cup BehindLoads]
Follow_divideAssign ==
    [divideAssign |-> Expressions,
     comma |-> Expressions \cup Predicates \cup {"asterisk"}]
Follow_colonColon ==
    [colonColon |-> LowBinaryOperators \cup Factors \cup BehindLoads,
     colonAssign |-> Expressions]
Follow_colon ==
    [colon |-> (Expressions \ {"nil"}) \cup AssignmentOperators \cup
        {"predicate", "probdef", "function", "vector", "adt", "typeannote",
        "type", "const", "module", "valfn"},
     channelOperatorAssign |-> Expressions]
Follow_channelOperator ==
    [channelOperator |-> BehindUnaryOperators,
     bitwiseOr |-> (Terms \ {"nil"}) \cup BehindLoads,
     asteriskAssign |-> Expressions]
Follow_asterisk ==
    [asterisk |-> UnitNames \cup LowBinaryOperators \cup Dimensions \cup
        BehindUnaryOperators \cup BehindLoads,
     assign |-> Expressions \cup {"leftBrace"}]
Follow_arithmeticAnd ==
    [arithmeticAnd |-> UnitNames \cup LowBinaryOperators \cup Dimensions
        \cup BehindUnaryOperators \cup BehindLoads,
     andAssign |-> Expressions,
     at |-> {"integerConst", "identifier", "realConst"},
     array |-> {"of", "leftBracket"},
     path |-> {"identifier"}]
Follow_pow ==
    "pow" :> (UnitNames \cup Dimensions \cup {"leftParens", "integerConst",
    "identifier", "realConst"})

gNoisyFollows ==
    Follow_setCmpOp @@ Follow_setExpr @@ Follow_sumProdMinMaxBody @@
    Follow_arithParamOrConst @@ Follow_lowPrecedenceArith2ArithOp @@
    Follow_lowPrecedenceBinaryBoolOp @@ Follow_lowPrecedenceBinaryOp @@
    Follow_tupleValue @@ Follow_factor @@ Follow_quantizeExpression @@
    Follow_statement @@ Follow_initList @@ Follow_rationalType @@
    Follow_setType @@ Follow_tupleType @@ Follow_listType @@ Follow_arrayType
    @@ Follow_anonAggregateType @@ Follow_complexType @@ Follow_numericType @@
    Follow_fixedType @@ Follow_realType @@ Follow_integerType @@
    Follow_basicType @@ Follow_latencyTolerance @@ Follow_lossTolerance @@
    Follow_accuracyTolerance @@ Follow_tolerance @@ Follow_basicSignal @@
    Follow_basicSignalUnits @@ Follow_basicSignalDimension @@
    Follow_unitsArithExpr @@ Follow_unitsArithTerm @@ Follow_unitsArithFactor
    @@ Follow_dimensionArithExpr @@ Follow_dimensionArithTerm @@
    Follow_dimensionArithFactor @@ Follow_unitsDesignation @@
    Follow_timeseriesDesignation @@ Follow_signalDesignation @@
    Follow_sigfigDesignation @@ Follow_dimensionsDesignation @@
    Follow_typeName @@ Follow_typeAnnoteList @@ Follow_typeAnnoteItem @@
    Follow_typeExpr @@ Follow_qualifiedIdentifier @@ Follow_Kelvin @@
    Follow_candela @@ Follow_Ampere @@ Follow_mole @@ Follow_second @@
    Follow_kilogram @@ Follow_meter @@ Follow_realConst @@ Follow_integerConst
    @@ Follow_identifier @@ Follow_units @@ Follow_measurement @@
    Follow_timeseries @@ Follow_time @@ Follow_temperature @@ Follow_interrupt
    @@ Follow_exception @@ Follow_string @@ Follow_samples @@ Follow_sample @@
    Follow_pressure @@ Follow_of @@ Follow_nat64 @@ Follow_nat4 @@
    Follow_nat32 @@ Follow_nat16 @@ Follow_nat128 @@ Follow_material @@
    Follow_mass @@ Follow_magneticfluxdensity @@ Follow_m @@ Follow_luminosity
    @@ Follow_kg @@ Follow_int8 @@ Follow_int64 @@ Follow_int4 @@ Follow_int32
    @@ Follow_int16 @@ Follow_int128 @@ Follow_in @@ Follow_relativehumidity
    @@ Follow_head @@ Follow_float64 @@ Follow_float4 @@ Follow_float32 @@
    Follow_float16 @@ Follow_float128 @@ Follow_dotproduct @@ Follow_current
    @@ Follow_complex @@ Follow_bool @@ Follow_anglerate @@
    Follow_acceleration @@ Follow_rightBracket @@ Follow_K @@ Follow_A @@
    Follow_xorAssign @@ Follow_semicolon @@ Follow_rightShiftAssign @@
    Follow_rightParens @@ Follow_rightBrace @@ Follow_plus @@ Follow_percent
    @@ Follow_notEqual @@ Follow_minusAssign @@ Follow_logicalAnd @@
    Follow_lessThanEqual @@ Follow_leftShift @@ Follow_leftParens @@
    Follow_leftBrace @@ Follow_isPermutationOf @@ Follow_implies @@
    Follow_greaterThanEqual @@ Follow_equals @@ Follow_divideAssign @@
    Follow_colonColon @@ Follow_colon @@ Follow_channelOperator @@
    Follow_asterisk @@ Follow_arithmeticAnd @@ Follow_pow
=============================================================================
