--------------------------- MODULE MCRangeAnalysis --------------------------
(***************************************************************************)
(* Small modules for TLC, in the shape clang -O0 followed by mem2reg gives *)
(* (applications/newton/llvm-ir): one return per function, phis for local  *)
(* variables, dbg.value at the head of the function.  A constant is named  *)
(* by its digits.                                                          *)
(***************************************************************************)
EXTENDS RangeAnalysis, TLC

MCConstantValue ==
    "-12" :> -12 @@ "-11" :> -11 @@ "-10" :> -10 @@ "-9" :> -9 @@ "-8" :> -8 @@ "-7" :> -7 @@ "-6" :> -6 @@
    "-5" :> -5 @@ "-4" :> -4 @@ "-3" :> -3 @@ "-2" :> -2 @@ "-1" :> -1 @@ "0" :> 0 @@ "1" :> 1 @@
    "2" :> 2 @@ "3" :> 3 @@ "4" :> 4 @@ "5" :> 5 @@ "6" :> 6 @@ "7" :> 7 @@ "8" :> 8 @@
    "9" :> 9 @@ "10" :> 10 @@ "11" :> 11 @@ "12" :> 12 @@ "13" :> 13 @@ "14" :> 14 @@ "15" :> 15 @@
    "16" :> 16 @@ "17" :> 17 @@ "18" :> 18 @@ "19" :> 19 @@ "20" :> 20 @@ "21" :> 21 @@ "22" :> 22 @@
    "23" :> 23 @@ "24" :> 24 @@ "25" :> 25

MCNames == DOMAIN MCConstantValue \cup
           {"p", "q", "r", "a", "b", "c", "k", "x", "y", "z", "w", "i", "j", "t", "u", "v",
            "slot", "cell", "gain", "count", "l", "m"}

MCTypeRange == ("temperature" :> Pair(-2, 3)) @@ ("level" :> Pair(1, 2))

MCInputs == {-3, -2, -1, 0, 1, 2, 3}

Fn(params, code) == [params |-> params, code |-> code]

Module(order, body, globals, pointers) ==
    [order |-> order, entry |-> "main", body |-> body, globals |-> globals,
     pointers |-> pointers]

NoGlobals == [g \in {} |-> 0]

\* main alone; with the helper h; with the helper in front, as in a file that
\* defines its helpers first
Alone(params, code)   == Module(<<"main">>, "main" :> Fn(params, code), NoGlobals, {})
WithHelper(code, h)   == Module(<<"h", "main">>,
                                ("main" :> Fn(<<"p">>, code)) @@ ("h" :> Fn(<<"q">>, h)),
                                NoGlobals, {})

ArithmeticOps == {"add", "sub", "mul", "rem"}

\* a = p op1 r; b = a op2 c with c a constant, the parameter or a itself
Straight ==
    {Alone(<<"p", "r">>,
           <<DebugValue("p", "temperature"), DebugValue("r", "level"),
             Binary(op1, "a", l1, r1), Binary(op2, "b", "a", r2), Ret("b")>>) :
        <<op1, l1>> \in (ArithmeticOps \X {"p", "2"}) \ {<<"rem", "2">>}, r1 \in {"r", "p", "3"},
        <<op2, r2>> \in (ArithmeticOps \X {"p", "r", "2", "-2"}) \ {<<"mul", "-2">>}}

\* if (p op r  pred  d) x = |p|; else y = p - r; z = phi(x, y); w = z * r;
\* without a sensor type of r one arm of the phi is unknown
Diamond ==
    {Alone(<<"p", "r">>,
           <<DebugValue("p", "temperature"), DebugValue("r", type),
             Binary(op, "a", "p", "r"), Compare(pred, "k", l, r), Branch("k", 6, 8),
             MathCall("x", fn, "p"), Jump(10),
             Binary("sub", "y", "p", "r"), Jump(10),
             Phi("z", <<"x", yv>>, <<7, 9>>), Binary("mul", "w", "z", "r"), Ret("w")>>) :
        op \in {"add", "rem"}, l \in {"a", "1"},
        <<pred, r>> \in ({"slt", "sge", "eq"} \X {"a", "r", "-3", "5"}) \ {<<"eq", "-3">>},
        fn \in {"fabs", "sin"}, yv \in {"y", "0"}, type \in {"level", "int"}}

\* h is called twice, the second time with a constant
TwoCalls ==
    {WithHelper(<<DebugValue("p", "temperature"), Binary(op, "a", "p", "2"),
                  Call("x", "h", <<"a">>), Call("y", "h", <<cst>>),
                  Binary("sub", "z", "x", "y"), Ret(ret)>>,
                <<Binary(hop, "t", "q", hc), Compare(pred, "c", "t", "0"), Branch("c", 4, 6),
                  Binary("add", "u", "t", "1"), Jump(6),
                  Phi("v", <<"t", "u">>, <<3, 5>>), Ret("v")>>) :
        op \in {"add", "mul"}, cst \in {"-2", "4"}, hop \in {"sub", "rem"}, hc \in {"3", "q"},
        pred \in {"sgt", "ne", "sle"}, ret \in {"y", "z"}}

\* for (i = 0; i < p; i++) ...; the loop's phi is unknown unless it has a
\* sensor type of its own
Loop ==
    {Alone(<<"p">>,
           <<DebugValue("p", "level"), Unary("cast", "a", "p"), Jump(4),
             Phi("i", <<"0", "j">>, <<3, 8>>), Compare(pred, "c", l, r), Branch("c", 7, 9),
             Binary("add", "j", "i", "1"), Jump(4),
             Binary("rem", "t", ret, "2"), Ret("t")>>) :
        pred \in {"slt"}, l \in {"i"}, r \in {"a", "p", "2", "-1"}, ret \in {"i", "p"}}

\* the callee writes through its pointer; gain is a global constant
Memory ==
    {Module(<<"main", "set", "get">>,
            ("main" :> Fn(<<"p">>,
                <<DebugValue("p", "temperature"), Store(first, "slot"), Load("a", "slot"),
                  Call(NoName, "set", <<"slot", "p">>), Load("b", "slot"),
                  Load("l", "gain"), Binary("mul", "m", "l", x),
                  Call("y", "get", <<ptr>>), Binary("add", "z", "m", "y"), Ret("z")>>)) @@
            ("set" :> Fn(<<"q", "r">>, <<Store(value, "q"), Load("t", "q"), RetVoid>>)) @@
            ("get" :> Fn(<<"w">>, <<Load("u", "w"), Ret("u")>>)),
            "gain" :> 2, {"slot", "gain", "q", "w"}) :
        first \in {"p", "1"}, x \in {"a", "b"}, value \in {"r", "3"}, ptr \in {"slot", "gain"}}

\* main calls f, f calls h; an argument without a range is stored first and
\* gets its sensor type at the address
Nested ==
    {Module(<<"h", "f", "main">>,
            ("main" :> Fn(<<"p">>,
                <<DebugValue("p", "level"), Call("x", "f", <<arg>>), Binary("add", "y", "x", "p"),
                  Call("z", "f", <<"y">>), Ret("z")>>)) @@
            ("f" :> Fn(<<"r">>,
                <<Store("r", "cell"), DebugValue("cell", type), Load("b", "cell"),
                  Call("a", "h", <<"r">>), Binary("sub", "c", "a", "b"), Ret("c")>>)) @@
            ("h" :> Fn(<<"q">>, <<Binary("mul", "t", "q", "q"), Unary("cast", "u", "t"), Ret("u")>>)),
            NoGlobals, {"cell"}) :
        arg \in {"p", "3"}, type \in {"int", "level"}}

TrustedPrograms == Straight \cup Diamond \cup TwoCalls \cup Loop \cup Memory \cup Nested

-----------------------------------------------------------------------------
(* Shapes outside of the trusted ones.                                     *)

\* ends or operands in the wrong order, twice, so that later rules see them
Inverting ==
    {Alone(<<"p", "r">>,
           <<DebugValue("p", "temperature"), DebugValue("r", "level"),
             Unary("fneg", "a", "p"), Binary(op, "b", l, r), Binary(op, "c", "b", "a"), Ret("c")>>) :
        op \in {"add", "sub", "mul"}, l \in {"a", "p", "-2"}, r \in {"a", "r", "-3"}}

\* two returns; the first that has a range ends the walk of the function
TwoReturns ==
    {WithHelper(<<DebugValue("p", "temperature"), Call("x", "h", <<a1>>), Call("y", "h", <<a2>>),
                  Binary("add", "z", "x", "y"), Ret("z")>>,
                <<Compare("slt", "c", "q", "0"), Branch("c", 3, 5),
                  Binary("sub", "t", "0", "q"), Ret(first), Ret("q")>>) :
        a1 \in {"p", "1"}, a2 \in {"p", "-4"}, first \in {"t", "5"}}

\* a global that is not constant is stored by main and read by the callee
SharedGlobal ==
    {Module(<<"main", "get">>,
             ("main" :> Fn(<<"p">>,
                 <<DebugValue("p", "temperature"), Store(v, "count"), Call("x", "get", args),
                   Load("a", "count"), Binary("add", "b", "a", "x"), Ret("b")>>)) @@
             ("get" :> Fn(IF args = <<>> THEN <<>> ELSE <<"w">>,
                 IF args = <<>> THEN <<Load("u", "count"), Ret("u")>>
                 ELSE <<Store("3", "w"), Load("u", "w"), Ret("u")>>)),
             "count" :> 0, {"count", "w"}) :
        v \in {"p", "4"}, args \in {<<>>, <<"count">>}}

\* equality with a constant, negative or not
Equality ==
    {Alone(<<"p">>,
           <<DebugValue("p", "temperature"), Compare(pred, "c", l, r), Branch("c", 4, 6),
             Binary("add", "x", "p", "1"), Jump(6),
             Phi("y", <<"p", "x">>, <<3, 5>>), Ret("y")>>) :
        pred \in {"eq", "ne"}, l \in {"p", "-1"}, r \in {"-1", "2", "p"}}

AllPrograms == TrustedPrograms \cup Equality \cup Inverting \cup TwoReturns \cup SharedGlobal
=============================================================================
