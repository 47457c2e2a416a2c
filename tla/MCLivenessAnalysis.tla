------------------------ MODULE MCLivenessAnalysis ------------------------
(***************************************************************************)
(* Functions for TLC: three blocks, every control-flow graph in which the  *)
(* entry has no predecessor, and every placement of a few instructions     *)
(* that llvm::verifyFunction accepts (a definition dominates its uses).    *)
(***************************************************************************)
EXTENDS LivenessAnalysis

CONSTANTS arg, x, y, c   \* an Argument, two instructions, a call; c is unused
CONSTANTS zero           \* a ConstantInt

MCValues == {arg, x, y, c}
MCConstants == {zero}

I(kind, val, args) == [kind |-> kind, val |-> val, args |-> args]

\* Each instruction of the pool is absent or in one of the three blocks.
Pool ==
  << I("binary", x, <<arg, zero>>),
     I("unary", y, <<x>>),
     I("call", c, <<y, x>>) >>

\* The extra bodies put the opcodes that initBasicBlock ignores next to them.
Ignored == {<<>>, <<I("other", c, <<x>>), I("skipped", c, <<arg>>),
                    I("call", c, <<>>)>>}

BlockOf == {p \in [1..3 -> 0..3] : TRUE}
Body(p, b) == SelectSeq(<<1, 2, 3>>, LAMBDA k : p[k] = b)
Code(p, tail) ==
  [b \in 1..3 |->
     [k \in 1..Len(Body(p, b)) |-> Pool[Body(p, b)[k]]]
     \o IF b = 3 THEN tail ELSE <<>>]

Graphs3 ==
  {g \in [1..3 -> SUBSET {2, 3}] : g[1] # {}}

\* Block d dominates block u.
Dominates(g, d, u) ==
  \/ d = 1 \/ d = u
  \/ \A n \in 1..3 : \A q \in [1..n -> 1..3] :
       /\ q[1] = 1 /\ q[n] = u
       /\ \A k \in 1..(n - 1) : q[k + 1] \in g[q[k]]
       => \E k \in 1..n : q[k] = d

Verified(g, p) ==
  /\ p[2] # 0 => p[1] # 0 /\ Dominates(g, p[1], p[2])
  /\ p[3] # 0 => /\ p[2] # 0 /\ Dominates(g, p[2], p[3])
                 /\ Dominates(g, p[1], p[3])

MCFunctions ==
  {[code |-> Code(p, t), succ |-> g] :
     <<p, t, g>> \in {z \in BlockOf \X Ignored \X Graphs3 :
                        Verified(z[3], z[1])}}
=============================================================================
