---------------------------- MODULE MCShrinkType ----------------------------
(* Small functions for ShrinkTypeCheck: four-bit words stand for i64.      *)
EXTENDS ShrinkTypeCheck

I == Int_(4)
Arg == Instr("arg", I, <<>>)
Bin(op, a, b) == Instr(op, I, <<a, b>>)
Ret(v) == Instr("ret", Void, <<v>>)
K(v) == Const(v, 4)

Words(lo, hi) == {v % 16 : v \in lo..hi}
Hulls == {<<0, 1>>, <<0, 2>>, <<0, 3>>, <<-1, 0>>, <<-3, 2>>}

Cmp(pred, a, b) == [Instr("icmp", Int_(1), <<a, b>>) EXCEPT !.pred = pred]
Jump(b) == [Instr("br", Void, <<>>) EXCEPT !.to = <<b>>]
Br(c, b1, b2) == [Instr("br", Void, <<c>>) EXCEPT !.to = <<b1, b2>>]
Phi(a, b, from) == [Instr("phi", I, <<a, b>>) EXCEPT !.to = from]
Call(name, type, a) == [Instr("call", type, a) EXCEPT !.pred = name]
Switch(a, labels, to) == [Instr("switch", Void, <<a>> \o labels) EXCEPT !.to = to]

Case(f, inputs, known) == [fn |-> f, inputs |-> inputs, known |-> known]
Two(f, h, g, known) == Case(f, {<<x, y>> : x \in Words(h[1], h[2]), y \in Words(g[1], g[2])}, known)
R(n) == Reg(n)

\* two arguments, two operations
Straight ==
    {Two([inst |-> <<Arg, Arg, Bin(o, R(1), b), Bin(p, R(3), c), Ret(R(4))>>,
          code |-> << <<3, 4, 5>> >>, ret |-> I], h, g, known) :
       o \in {"add", "mul", "sdiv"}, p \in {"sub", "srem", "ashr", "xor"}, b \in {R(2), K(1)},
       c \in {R(1), K(1), K(-1)}, h \in Hulls, g \in {<<0, 1>>, <<-3, 2>>}, known \in {1..4, {1, 3}, {2, 4}}}

\* if (x pred y) z = x op y; else z = y; return z op 1
Diamond ==
    {Two([inst |-> <<Arg, Arg, Cmp(pred, R(1), b), Br(R(3), 2, 3), Bin(o, R(1), R(2)), Jump(4),
                     Bin("sub", R(2), K(1)), Jump(4), Phi(R(5), c, <<2, 3>>), Bin("add", R(9), K(1)), Ret(R(10))>>,
          code |-> << <<3, 4>>, <<5, 6>>, <<7, 8>>, <<9, 10, 11>> >>, ret |-> I], h, g, known) :
       pred \in {"slt", "sge", "eq"}, o \in {"add", "mul"}, b \in {R(2), K(1)}, c \in {R(7), R(1), K(0), K(-5)},
       h \in {<<0, 1>>, <<0, 3>>, <<-3, 2>>}, g \in {<<0, 1>>, <<-3, 2>>}, known \in {1..10, {1, 9}, {5, 7, 9}}}

\* s = x (or x + 1, a constant); if (x > 0) s = y; z = g(s); return z op s
Memory ==
    {LET f == [inst |-> <<Arg, Arg, Instr("alloca", Ptr(4), <<>>), Bin("add", R(1), R(2)),
                     Instr("store", Void, <<a, R(3)>>), Cmp(pred, R(1), K(0)), Br(R(6), 2, 3),
                     Instr("store", Void, <<b, R(3)>>), Jump(3),
                     Instr("load", I, <<R(3)>>), Call("g", I, <<R(10), R(1)>>), Bin(o, R(11), R(10)), Ret(R(12))>>,
          code |-> << <<3, 4, 5, 6, 7>>, <<8, 9>>, <<10, 11, 12, 13>> >>, ret |-> I]
     IN  Case(f, {(1 :> x) @@ (2 :> y) @@ (11 :> z) : x \in Words(h[1], h[2]), y \in Words(g[1], g[2]), z \in Words(0, 1)}, known) :
       pred \in {"sgt", "eq"}, a \in {R(1), R(4), K(1), K(-1)}, b \in {R(2), R(4), K(0), K(-5)},
       o \in {"add", "sdiv"},
       h \in {<<0, 1>>, <<0, 3>>, <<-3, 2>>}, g \in {<<0, 1>>, <<-3, 2>>},
       known \in {1..12, {1, 2, 4, 10, 11}, {3, 4, 12}}}

\* conversions: a narrow argument widened, a sum cut, a value passed as a double
Convert ==
    {LET f == [inst |-> <<Arg, Arg, Bin("add", R(1), R(2)), Instr("trunc", Int_(3), <<R(3)>>),
                          Instr(ext, I, <<R(4)>>), Bin(o, R(5), R(1)),
                          Instr("sitofp", Double, <<v>>), Call("g", Void, <<R(7), R(5)>>), Ret(R(6))>>,
          code |-> << <<3, 4, 5, 6, 7, 8, 9>> >>, ret |-> I]
     IN  Case(f, {(1 :> x) @@ (2 :> y) @@ (8 :> 0) : x \in Words(h[1], h[2]), y \in Words(g[1], g[2])}, known) :
       ext \in {"sext", "zext"}, o \in {"add", "sub", "srem"}, v \in {R(1), R(5), R(6)},
       h \in {<<0, 1>>, <<0, 3>>, <<-3, 2>>}, g \in {<<0, 1>>, <<-3, 2>>},
       known \in {1..6, {1, 3}, {4, 5}, {2, 3, 6}}}

\* a sum passed as a double
Sensor ==
    {LET f == [inst |-> <<Arg, Arg, Bin(o, R(1), R(2)), Instr("sitofp", Double, <<R(3)>>),
                          Call("g", I, <<R(4), R(3)>>), Bin("mul", R(5), R(3)), Ret(R(6))>>,
          code |-> << <<3, 4, 5, 6, 7>> >>, ret |-> I]
     IN  Case(f, {(1 :> x) @@ (2 :> y) @@ (5 :> z) : x \in Words(h[1], h[2]), y \in Words(g[1], g[2]), z \in {0, 1}}, known) :
       o \in {"add", "sub", "or"}, h \in {<<0, 1>>, <<0, 3>>, <<-3, 2>>}, g \in {<<0, 1>>, <<-3, 2>>},
       known \in {1..6, {1, 3}, {2, 3, 6}}}

\* switch (x + y) { case 0: return g(x); case k: return x * y; default: return -x; }
Choice ==
    {LET f == [inst |-> <<Arg, Arg, Bin("add", R(1), R(2)), Switch(R(3), <<K(0), K(k)>>, <<4, 2, 3>>),
                          Call("g", I, <<R(1)>>), Jump(5), Bin("mul", R(1), R(2)), Jump(5),
                          Bin("sub", K(0), R(1)), Jump(5),
                          [Phi(R(5), R(7), <<2, 3, 4>>) EXCEPT !.args = <<R(5), R(7), R(9)>>], Ret(R(11))>>,
          code |-> << <<3, 4>>, <<5, 6>>, <<7, 8>>, <<9, 10>>, <<11, 12>> >>, ret |-> I]
     IN  Case(f, {(1 :> x) @@ (2 :> y) @@ (5 :> z) : x \in Words(h[1], h[2]), y \in Words(g[1], g[2]), z \in {0, 1}}, known) :
       k \in {1, 2, 4, -1},
       h \in {<<0, 1>>, <<0, 3>>, <<-3, 2>>}, g \in {<<0, 1>>, <<-3, 2>>},
       known \in {1..11, {1, 3}, {3, 5, 7, 9}, {1, 5, 7, 9, 11}, {5, 7}}}

\* i = x; s = y; do { s = s op i; i = i + 1; } while (i < 2) or (i # 2); return s
Loop ==
    {LET f == [inst |-> <<Arg, Arg, Jump(2), Phi(a, R(7), <<1, 2>>), Phi(b, R(6), <<1, 2>>),
                          Bin(o, R(5), R(4)), Bin("add", R(4), K(1)), Cmp(pred, R(7), K(2)), Br(R(8), 2, 3), Ret(R(6))>>,
          code |-> << <<3>>, <<4, 5, 6, 7, 8, 9>>, <<10>> >>, ret |-> I]
     IN  Case(f, {<<x, y>> : x \in Words(h[1], h[2]), y \in Words(g[1], g[2])}, known) :
       a \in {R(1), K(0), K(-1)}, b \in {R(2), K(1)}, o \in {"add", "sub"}, pred \in {"slt", "ne"},
       h \in {<<0, 1>>, <<0, 3>>, <<-3, 2>>}, g \in {<<0, 1>>, <<-3, 2>>},
       known \in {1..10, {1, 4}, {4, 7}, {5, 6}}}

\* z = s; s = x op z; h(w); return w op s, where s is a global
Global ==
    {LET f == [inst |-> <<Arg, Arg, Instr("global", Ptr(4), <<>>), Instr("load", I, <<R(3)>>),
                          Bin(o, R(1), R(4)), Instr("store", Void, <<v, R(3)>>),
                          Call("h", I, <<R(2)>>), Instr("load", I, <<R(3)>>), Bin("add", R(7), R(8)), Ret(R(9))>>,
          code |-> << <<4, 5, 6, 7, 8, 9, 10>> >>, ret |-> I]
     IN  Case(f, {(1 :> x) @@ (2 :> y) @@ (3 :> z) @@ (7 :> 1) :
                     x \in Words(h[1], h[2]), y \in Words(g[1], g[2]), z \in Words(g[1], g[2])}, known) :
       o \in {"add", "srem"}, v \in {R(1), R(2), R(5), K(-1), K(1)},
       h \in {<<0, 1>>, <<0, 3>>, <<-3, 2>>}, g \in {<<0, 1>>, <<1, 2>>, <<-3, 2>>},
       known \in {{1, 2, 4, 5, 7, 8, 9}, {1, 4, 8}, {2, 5}}}

MCFunctions == Straight \cup Diamond \cup Memory \cup Convert \cup Sensor \cup Choice \cup Loop \cup Global

=============================================================================
