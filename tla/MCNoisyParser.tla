--------------------------- MODULE MCNoisyParser ---------------------------
(***************************************************************************)
(* NoisyParser on programs.  Those made from the grammar hold, for each    *)
(* production, each way to write it, with the shortest phrases for its     *)
(* parts, in the middle of a short program it may occur in; and the same   *)
(* programs with a token left out.  Those made by hand are about names,    *)
(* scopes and signatures.                                                  *)
(*                                                                         *)
(* A program is written as a sequence of words: a word is the type of a    *)
(* token, or a name, or "new" for a name that occurs nowhere else.         *)
(***************************************************************************)
EXTENDS NoisyParserCheck

-----------------------------------------------------------------------------
(* The rests of the parser's functions, and the nodes they take for got:   *)
(* those that a computation reads, less one for each token, name or call   *)
(* in front of it.                                                         *)
RECURSIVE RestsOf(_), NeedsOf(_, _)

RestsOf(ss) ==
    IF ss = <<>> THEN {<<>>}
    ELSE LET s == Head(ss)
         IN  {ss} \cup RestsOf(Tail(ss))
             \cup (IF s.op = "if" THEN {r \o Tail(ss) : r \in RestsOf(s.then) \cup RestsOf(s.else)}
                   ELSE IF s.op = "while" THEN {r \o ss : r \in RestsOf(s.then)} ELSE {})

(* Of statements behind which "behind" nodes are needed.                   *)
NeedsOf(ss, behind) ==
    IF ss = <<>> THEN behind
    ELSE LET s == Head(ss)
             then == NeedsOf(Tail(ss), behind)
         IN  CASE s.op \in {"token", "name", "call"} -> Max({0, then - 1})
               [] s.op = "do" -> Max({NodesRead(s.arg), then})
               [] s.op = "if" -> Max({NeedsOf(s.then, then), NeedsOf(s.else, then)})
               [] s.op = "while" -> Max({NeedsOf(s.then, then), then})
               [] OTHER -> 0

(* Behind everything nothing is needed; said with @@, it makes a table.    *)
MCNeeds ==
    [r \in UNION {RestsOf(NoisyProcedures[p]) : p \in DOMAIN NoisyProcedures} |-> NeedsOf(r, 0)]
    @@ (<<>> :> 0)

Names == {"A", "B", "f", "g", "p", "q", "r", "x", "y", "z", "i", "M", "N"}

Spelt(w, i) ==
    LET Text(type, name, value) == [type |-> type, name |-> name, value |-> value]
    IN  CASE w = "new" -> Text("identifier", ToString(i), <<0, 1>>)
          [] w \in Names -> Text("identifier", w, <<0, 1>>)
          [] w \in {"1", "2", "3"} ->
                Text("integerConst", "", <<IF w = "1" THEN 1 ELSE IF w = "2" THEN 2 ELSE 3, 1>>)
          [] OTHER -> Text(w, "", <<0, 1>>)

File(words) ==
    LET all == Append(words, "Zeof")
    IN  [i \in DOMAIN all |-> Spelt(all[i], i)]

-----------------------------------------------------------------------------
(* Programs made from the grammar.                                         *)

(* A production whose names are defined where they stand.                  *)
Defining ==
    {"moduleDecl", "moduleTypeNameDecl", "typeParameterList", "identifierList", "signature",
     "varIntro", "setHead", "unitsArithFactor", "signalDesignation", "functionDefn",
     "problemDefn", "predicateFnDefn"}

Naming1(item) ==
    [item EXCEPT !.symbols = [k \in DOMAIN @ |-> {IF x = "identifier" THEN "new" ELSE x : x \in @[k]}]]
Written(g) ==
    [p \in DOMAIN g |->
        IF p \notin Defining THEN g[p]
        ELSE {[i \in DOMAIN a |-> Naming1(a[i])] : a \in g[p]}]

Chosen ==
    [p \in {"expression", "term", "factor"} |-> <<"2">>]
    @@ [p \in {"typeExpr", "basicType"} |-> <<"bool">>] @@ ("numericType" :> <<"int32">>)
    @@ [p \in {"predExpr", "predTerm", "predFactor"} |-> <<"boolConst">>]
    @@ [p \in {"predArithExpr", "predArithTerm", "predArithFactor"} |-> <<"2">>]
    @@ [p \in {"setExpr", "setTerm", "setFactor"} |-> <<"omega">>]
    @@ [p \in {"dimensionArithExpr", "dimensionArithTerm", "dimensionArithFactor"} |-> <<"time">>]
    @@ [p \in {"unitsArithExpr", "unitsArithTerm", "unitsArithFactor"} |-> <<"second">>]
    @@ ("scopedStatementList" :> <<"leftBrace", "rightBrace">>)
    @@ ("assignmentStatement" :> <<"x", "assign", "2">>)
    @@ ("identifier" :> <<"x">>) @@ ("integerConst" :> <<"2">>)

Header == <<"M", "colon", "module", "leftParens", "rightParens", "leftBrace",
            "x", "colon", "type", "int32", "semicolon", "rightBrace">>

(* For each production its phrases, and the shortest of them spoilt.       *)
FilesOf(g) ==
    LET written == Written(g)
        short == Shorts(written, Chosen)
        context == Contexts(written, short, ("program" :> <<Header, <<>>>>))
        Spoilt(w) == {Without(w, i) : i \in DOMAIN w}
    IN  UNION {{File(context[p][1] \o w \o context[p][2])
                : w \in Phrases(written, short, p) \cup IF p = "program" THEN {} ELSE Spoilt(short[p])}
               : p \in DOMAIN context}

(* The same, where one of the parts is written in each of its ways.        *)
NestedFilesOf(g) ==
    LET written == Written(g)
        short == Shorts(written, Chosen)
        context == Contexts(written, short, ("program" :> <<Header, <<>>>>))
        Parts(p) == (UNION {Mentioned(a) : a \in written[p]}) \cap DOMAIN context
        With1(p, x, w) == Phrases(written, (x :> w) @@ short, p)
    IN  UNION {UNION {UNION {{File(context[p][1] \o v \o context[p][2]) : v \in With1(p, x, w)}
                             : w \in Phrases(written, short, x)}
                      : x \in Parts(p)}
               : p \in DOMAIN context}

-----------------------------------------------------------------------------
(* Programs about names: a module or two, and functions of few statements  *)
(* that declare a name, use it, and open the blocks there are.             *)

Module(name, declarations) ==
    <<name, "colon", "module", "leftParens", "rightParens", "leftBrace">> \o declarations
    \o <<"rightBrace">>
TypeOfName(name, type) == <<name, "colon", "type">> \o type \o <<"semicolon">>
Signature(words) == <<"leftParens">> \o words \o <<"rightParens">>
FunctionOf(name, parameters, results) ==
    <<name, "colon", "function">> \o Signature(parameters) \o <<"arrow">> \o Signature(results)
Function(name, statements) ==
    FunctionOf(name, <<"nil">>, <<"nil">>) \o <<"assign", "leftBrace">> \o statements
    \o <<"rightBrace">>
In(statements) == <<"leftBrace">> \o statements \o <<"rightBrace">>

Declare(a) == <<a, "colon", "int32", "semicolon">>
Assign(a, b) == <<a, "assign", b, "semicolon">>
Simple(a, b) ==
    {Declare(a), <<a, "comma", b, "colon", "int32", "semicolon">>, Assign(a, b),
     <<a, "colonAssign", b, "semicolon">>}
Nested(a, b) ==
    {In(Declare(a)) \o <<"semicolon">>, In(Assign(a, b)) \o <<"semicolon">>,
     <<"match">> \o In(<<a, "equals", "2", "implies">> \o In(Declare(b))) \o <<"semicolon">>,
     <<"iterate">> \o In(<<"2", "lessThan", b, "implies">> \o In(Assign(a, b))) \o <<"semicolon">>,
     <<"parallel", "leftParens", a, "in", b, "rightParens">> \o In(Assign(a, b)) \o <<"semicolon">>,
     <<"sequence", "leftParens", a, "colonAssign", "2", "semicolon", a, "lessThan", b, "semicolon",
       a, "assign", a, "plus", "2", "rightParens">> \o In(Assign(b, a)) \o <<"semicolon">>}
Steps(a, b) == Simple(a, b) \cup Nested(a, b)

Knows(name) == Module("M", TypeOfName(name, <<"int32">>))

NameFiles ==
    {File(Knows("x") \o Function("f", s \o t))
     : s \in Steps("x", "y") \cup Steps("y", "x"),
       t \in Simple("y", "x") \cup {In(Assign("y", "x")) \o <<"semicolon">>}}
    \cup {File(Knows("x") \o Function("f", In(Declare("y") \o s) \o <<"semicolon">> \o t))
          : s \in Steps("y", "x"), t \in Simple("y", "x")}
    \cup {File(Knows(a) \o Module("N", TypeOfName(b, <<"int32">>)) \o Function("f", s)
               \o Function("g", t))
          : a \in {"x", "y"}, b \in {"x", "z"}, s \in Simple("x", "y"), t \in Simple("z", "x")}

-----------------------------------------------------------------------------
(* Programs with a function that is declared in the module and defined     *)
(* behind it, and what comes before the declaration.                       *)

BitOf(n) == <<"array", "leftBracket", n, "rightBracket", "of", "bool">>
Parameter(name, type) == <<name, "colon">> \o type
Parameters ==
    {<<"nil">>, Parameter("p", <<"bool">>), Parameter("q", <<"bool">>), Parameter("p", <<"int32">>),
     Parameter("p", <<"A">>), Parameter("p", BitOf("2")), Parameter("p", BitOf("3")),
     Parameter("p", <<"bool">>) \o <<"comma">> \o Parameter("q", <<"int32">>),
     Parameter("p", <<"bool">>) \o <<"comma">> \o Parameter("q", <<"A">>),
     Parameter("q", <<"int32">>) \o <<"comma">> \o Parameter("p", <<"bool">>)}
ShortParameters == {p \in Parameters : Len(p) <= 3}
OddParameters ==
    {Parameter("p", <<"float4">>), Parameter("p", <<"list", "of", "bool">>), Parameter("p", <<"B">>),
     Parameter("p", <<"array", "leftBracket", "2", "rightBracket", "of">> \o BitOf("3"))}

DeclaredAndDefined(before, declared, defined) ==
    File(Module("M", before \o FunctionOf("f", declared[1], declared[2]) \o <<"semicolon">>)
         \o FunctionOf("f", defined[1], defined[2]) \o <<"assign", "leftBrace", "rightBrace">>)

IsInt32(name) == TypeOfName(name, <<"int32">>)
SignatureFiles ==
    {DeclaredAndDefined(IsInt32("A"), declared, defined)
     : declared \in {<<p, <<"nil">> >> : p \in Parameters}, defined \in {<<p, <<"nil">> >> : p \in Parameters}}
    \cup {DeclaredAndDefined(IsInt32("A"), <<d, p>>, <<d, q>>)
          : d \in {Parameter("i", <<"int32">>)}, p \in ShortParameters, q \in ShortParameters}
    \cup {DeclaredAndDefined(IsInt32("A") \o TypeOfName("B", type), <<p, <<"nil">> >>, <<q, <<"nil">> >>)
          : type \in {BitOf("2"), <<"A">>, <<"B">>}, p \in OddParameters, q \in OddParameters}

-----------------------------------------------------------------------------
(* An array of which an element begins like none that is looked for.       *)
ArrayFiles ==
    {File(Knows("x") \o Function("f",
         <<"x", "assign", "array", "leftBracket", "2", "rightBracket", "of", "leftBrace", "2", "comma",
           element, "rightBrace", "semicolon">>))
     : element \in {"2", "nil", "given"}}

MCPrograms ==
    FilesOf(Spoken) \cup FilesOf(Grammar) \cup NestedFilesOf(Spoken) \cup NameFiles \cup SignatureFiles
    \cup ArrayFiles
=============================================================================
