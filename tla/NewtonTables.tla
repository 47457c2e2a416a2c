---------------------------- MODULE NewtonTables ----------------------------
(***************************************************************************)
(* The tables that ffi2code generated from the Newton grammar: the tokens  *)
(* each production may begin with, gNewtonFirsts, which the parser         *)
(* consults in inFirst; and those that may come behind it, gNewtonFollows, *)
(* for the calls of inFollow that the parser has commented out.  A row     *)
(* that is the union of other rows is written as one.                      *)
(***************************************************************************)
EXTENDS TLC

DistributionTokens ==
    {"Gaussian", "Laplacian", "StudentT", "Bernoulli", "Binomial", "Poisson",
     "NegativeBinomial", "BetaBinomial", "Exponential", "Gamma", "Multinomial",
     "Beta", "LogitNormal", "Dirichlet", "Cauchy", "LogNormal", "Pareto",
     "BetaPrime", "StudentZ", "Weibull", "Erlang", "Maxwell", "FermiDirac",
     "FisherZ", "LogSeries", "Gumbel", "Rayleigh", "Gibrat", "PearsonIII",
     "ExtremeValue", "F", "Xi", "XiSquared", "Unconstrained"}

TranscendentalTokens ==
    {"sin", "cos", "tan", "cotan", "sec", "cosec", "arcsin", "arccos", "arctan",
     "arccotan", "arcsec", "arccosec", "sinh", "cosh", "tanh", "cotanh", "sech",
     "cosech", "arcsinh", "arccosh", "arctanh", "arccotanh", "arcsech",
     "arccosech", "exp", "sqrt", "ln", "log10", "log2"}

NumericTokens == {"integerConst", "realConst"}
FactorTokens == NumericTokens \cup {"leftParen", "identifier"} \cup DistributionTokens
QuantityFactorTokens ==
    FactorTokens \cup TranscendentalTokens \cup {"leftBrace", "derivative", "integral"}

FirstsOfOperators ==
    [unaryOp |-> {"plus", "minus"},
     lowPrecedenceBinaryOp |-> {"plus", "minus", "rightShift", "leftShift", "bitwiseOr"},
     highPrecedenceBinaryOp |-> {"mul", "div", "percent", "exponentiation"},
     transcendental |-> TranscendentalTokens,
     distribution |-> DistributionTokens]

FirstsOfExpressions ==
    [parameterValueList |-> {"leftParen"},
     distributionFactor |-> DistributionTokens,
     factor |-> FactorTokens,
     term |-> FactorTokens \cup {"plus", "minus"},
     expression |-> FactorTokens \cup {"plus", "minus"}]

FirstsOfSensors ==
    [numericConstTuple |-> {"leftParen"},
     numericConstTupleList |-> {"leftBrace"},
     precisionStatement |-> {"precision"},
     accuracyStatement |-> {"accuracy"},
     erasureValueStatement |-> {"erasureToken"},
     uncertaintyStatement |-> {"uncertainty"},
     rangeStatement |-> {"range"},
     arithmeticCommand |-> {"identifier"},
     delayCommand |-> {"delay"},
     writeRegisterCommand |-> {"write"},
     readRegisterCommand |-> {"identifier"},
     sensorInterfaceCommand |-> {"identifier", "write", "delay"},
     sensorInterfaceCommandList |-> {"identifier", "write", "delay"},
     sensorInterfaceType |-> {"spi", "i2c", "analog"},
     sensorInterfaceStatement |-> {"interface"},
     sensorProperty |-> {"range", "uncertainty", "erasureToken", "accuracy",
                         "precision", "interface"},
     sensorPropertyList |-> {"range", "uncertainty", "erasureToken", "accuracy",
                             "precision", "interface"}]

FirstsOfNumbers ==
    [numericFactor |-> NumericTokens \cup {"leftParen"},
     numericTerm |-> NumericTokens \cup {"leftParen"},
     numericExpression |-> NumericTokens \cup {"leftParen"},
     unit |-> {"identifier"},
     unitFactor |-> {"identifier", "leftParen"},
     unitTerm |-> {"identifier", "leftParen"},
     unitExpression |-> {"identifier", "leftParen"},
     languageSetting |-> {"English"},
     comparisonOperator |-> {"dimensionallyAgnosticProportional",
         "dimensionallyMatchingProportional", "lt", "le", "gt", "ge", "equals", "related"},
     functionalOperator |-> {"derivative", "integral"},
     vectorOp |-> {"dot", "cross"},
     exponentiationOperator |-> {"exponentiation"},
     highPrecedenceOperator |-> {"mul", "div"},
     highPrecedenceQuantityOperator |-> {"mul", "div", "dot", "cross", "mutualinf"},
     lowPrecedenceOperator |-> {"plus", "minus"}]

FirstsOfQuantities ==
    [quantity |-> {"identifier"} \cup NumericTokens,
     quantityFactor |-> QuantityFactorTokens,
     quantityTerm |-> QuantityFactorTokens \cup {"plus", "minus"}]

FirstsOfConstraints ==
    [quantityExpression |-> QuantityFactorTokens \cup {"plus", "minus"},
     caseStatement |-> {"case", "otherwise"},
     caseStatementList |-> {"case", "otherwise"},
     piecewiseConstraint |-> {"piecewise"},
     callParameterTuple |-> {"leftParen"},
     constraint |-> QuantityFactorTokens \cup {"plus", "minus", "piecewise"}]

FirstsOfDefinitions ==
    [constraintList |-> QuantityFactorTokens \cup {"plus", "minus", "piecewise"},
     parameter |-> {"identifier"},
     parameterTuple |-> {"leftParen"},
     subdimensionTuple |-> {"leftParen"},
     derivationStatement |-> {"derivation"},
     symbolStatement |-> {"symbol"},
     sensorStatement |-> {"sensor"},
     signalUncertaintyStatement |-> {"uncertainty"},
     nameStatement |-> {"name"},
     sensorDefinition |-> {"identifier"},
     baseSignalDefinition |-> {"identifier"},
     invariantDefinition |-> {"identifier"},
     constantDefinition |-> {"identifier"},
     rule |-> {"identifier"},
     ruleList |-> {"identifier"},
     newtonDescription |-> {"identifier"},
     numericConst |-> NumericTokens]

-----------------------------------------------------------------------------
(* What may come behind a production.                                      *)

FactorEnds ==
    {"plusPlus", "minusMinus", "mul", "div", "percent", "exponentiation", "plus", "minus",
     "rightShift", "leftShift", "bitwiseOr", "semicolon", "rightBrace", "comma", "rightParen",
     "identifier", "leftParen"}
NumericEnds ==
    {"rightParen", "comma", "leftBracket", "rightBracket", "to", "semicolon", "rightBrace"}
QuantityOperators == {"mul", "div", "dot", "cross", "mutualinf"}
UnitEnds ==
    QuantityOperators \cup {"semicolon", "rightParen", "comma", "rightBracket", "rightBrace"}
NumericFactorEnds ==
    UnitEnds \cup {"identifier", "leftParen", "atSign", "plus", "minus", "leftBracket", "to", "bits"}
ConstraintEnds == {"comma", "rightBrace", "rightArrow"}
QuantityEnds ==
    FirstsOfNumbers.comparisonOperator \cup ConstraintEnds \cup {"semicolon", "rightParen"}
QuantityStarts == QuantityFactorTokens \cup {"plus", "minus"}

FollowsOfUnaryOp == "unaryOp" :> QuantityFactorTokens

FollowsOfBinaryOps ==
    [lowPrecedenceBinaryOp |-> FactorTokens \cup {"plus", "minus"},
     highPrecedenceBinaryOp |-> FactorTokens]

FollowsOfExpressions ==
    [transcendental |-> {"leftParen"},
     distribution |-> {"leftParen"},
     parameterValueList |-> FactorEnds,
     distributionFactor |-> FactorEnds,
     factor |-> FactorEnds,
     term |-> {"plus", "minus", "rightShift", "leftShift", "bitwiseOr", "semicolon",
               "rightBrace", "comma", "rightParen"},
     expression |-> {"semicolon", "rightBrace", "comma", "rightParen"}]

FollowsOfSensors ==
    [numericConstTuple |-> {"comma", "rightBrace"},
     numericConstTupleList |-> {"comma", "rightBrace"},
     precisionStatement |-> {"comma", "rightBrace"},
     accuracyStatement |-> {"comma", "rightBrace"},
     erasureValueStatement |-> {"comma", "rightBrace"},
     uncertaintyStatement |-> {"comma", "rightBrace"},
     rangeStatement |-> {"comma", "rightBrace"},
     arithmeticCommand |-> {"semicolon", "rightBrace"},
     delayCommand |-> {"semicolon", "rightBrace"},
     writeRegisterCommand |-> {"semicolon", "rightBrace"},
     readRegisterCommand |-> {"semicolon", "rightBrace"},
     sensorInterfaceCommand |-> {"semicolon", "rightBrace"},
     sensorInterfaceCommandList |-> {"rightBrace"},
     sensorInterfaceType |-> {"comma", "rightBrace", "leftParen"},
     sensorInterfaceStatement |-> {"comma", "rightBrace"},
     sensorProperty |-> {"comma", "rightBrace"},
     sensorPropertyList |-> {"rightBrace"}]

FollowsOfNumbers ==
    [numericFactor |-> NumericFactorEnds,
     numericTerm |-> NumericEnds \cup {"plus", "minus"},
     numericExpression |-> NumericEnds,
     unit |-> UnitEnds \cup {"exponentiation"},
     unitFactor |-> UnitEnds,
     unitTerm |-> {"rightParen"},
     unitExpression |-> {"rightParen"},
     languageSetting |-> {"semicolon"}]

FollowsOfComparison ==
    [comparisonOperator |-> QuantityStarts,
     functionalOperator |-> QuantityStarts]

FollowsOfOperators ==
    [vectorOp |-> QuantityFactorTokens,
     exponentiationOperator |-> NumericTokens \cup {"leftParen"},
     highPrecedenceOperator |-> NumericTokens \cup {"leftParen", "identifier"}]

FollowsOfQuantityOperators ==
    [highPrecedenceQuantityOperator |-> QuantityFactorTokens,
     lowPrecedenceOperator |-> QuantityStarts]

FollowsOfQuantities ==
    [quantity |-> QuantityEnds \cup QuantityOperators \cup {"plus", "minus", "exponentiation"},
     quantityFactor |-> QuantityEnds \cup QuantityOperators \cup {"plus", "minus"},
     quantityTerm |-> QuantityEnds \cup {"plus", "minus"},
     quantityExpression |-> QuantityEnds,
     caseStatement |-> {"rightBrace", "comma"},
     caseStatementList |-> {"rightBrace"},
     piecewiseConstraint |-> ConstraintEnds,
     callParameterTuple |-> ConstraintEnds,
     constraint |-> ConstraintEnds,
     constraintList |-> {"rightBrace"}]

FollowsOfDefinitions ==
    [parameter |-> {"comma", "rightParen"},
     parameterTuple |-> {"equals", "comma", "rightBrace", "rightArrow", "leftBrace"},
     subdimensionTuple |-> {"equals"},
     derivationStatement |-> {"rightBrace"},
     symbolStatement |-> {"derivation"},
     sensorStatement |-> {"symbol"},
     signalUncertaintyStatement |-> {"sensor", "symbol"},
     nameStatement |-> {"uncertainty", "sensor", "symbol"},
     sensorDefinition |-> {"identifier"},
     baseSignalDefinition |-> {"identifier"},
     invariantDefinition |-> {"identifier"},
     constantDefinition |-> {"identifier"},
     rule |-> {"identifier"},
     ruleList |-> {"Zeof"},
     newtonDescription |-> {"Zeof"},
     numericConst |-> NumericFactorEnds \cup FactorEnds]

FirstsOfProductions ==
    FirstsOfOperators @@ FirstsOfExpressions @@ FirstsOfSensors @@ FirstsOfNumbers
    @@ FirstsOfQuantities @@ FirstsOfConstraints @@ FirstsOfDefinitions

FollowsOfProductions ==
    FollowsOfUnaryOp @@ FollowsOfBinaryOps @@ FollowsOfExpressions @@ FollowsOfSensors
    @@ FollowsOfNumbers @@ FollowsOfComparison @@ FollowsOfOperators
    @@ FollowsOfQuantityOperators @@ FollowsOfQuantities @@ FollowsOfDefinitions

-----------------------------------------------------------------------------
(* The rows of the tokens: a token begins with itself, and nothing comes   *)
(* behind it, so that inFollow finds no token in its set.                  *)

TokensOf(table) == UNION {table[p] : p \in DOMAIN table}

FollowedTokens ==
    (TokensOf(FirstsOfProductions) \cup TokensOf(FollowsOfProductions)
     \cup {"assign", "def", "colon", "constant", "dimensionless", "dotDot", "include", "invariant",
           "nil", "none", "read", "signal", "stringConst"}) \ {"Zeof"}

FirstsOfTokens == [x \in FollowedTokens \ {"Unconstrained"} |-> {x}]
FollowsOfTokens == [x \in FollowedTokens |-> {}]

gNewtonFirsts == FirstsOfProductions @@ FirstsOfTokens
gNewtonFollows == FollowsOfProductions @@ FollowsOfTokens
=============================================================================
