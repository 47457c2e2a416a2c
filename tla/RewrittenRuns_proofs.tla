------------------------ MODULE RewrittenRuns_proofs ------------------------
(***************************************************************************)
(* The rewritten module returns what the source module returns, for source *)
(* modules whose entry function is SelfContained.  The argument, in three  *)
(* steps: simplifyControlFlow and the cleanup leave a module that is self- *)
(* contained too and moves as the source does (its branches are decided as *)
(* the source decides them, because the verdicts are right of values that  *)
(* are in their ranges); constantSubstitution leaves one that moves as the *)
(* cleaned module does without the registers it removed (their one value   *)
(* is the constant they became); and the driver applies them in that order *)
(* to the entry function, once each, with the analysis of the module as it *)
(* is at the time.  A value is in its range only once it has passed its    *)
(* sensor's check, which a run that returns has: the run of the output is  *)
(* followed along the run of the source, which has returned before.        *)
(***************************************************************************)
EXTENDS OptimizeByRange_proofs, FiniteSetTheorems

-----------------------------------------------------------------------------
(* The positions that are reached are closed under Successors.             *)

\* one more step from the positions r
Further(code, r) == r \cup UNION {Successors(code, k) : k \in r}

\* the positions at most 0, 1, ..., n steps away from the first
Layers(code, f, n) ==
    f = [j \in 0 .. n |-> IF j = 0 THEN {1} ELSE Further(code, f[j - 1])]

\* Such layers are there for any number of steps.
LEMMA LayersExist ==
    ASSUME NEW code, NEW n \in Nat
    PROVE  \E f : Layers(code, f, n)
<1> DEFINE Bad == {j \in Nat : ~ \E f : Layers(code, f, j)}
<1>1. SUFFICES ASSUME Bad # {} PROVE FALSE
  OBVIOUS
<1>2. PICK q \in Bad : \A p \in Bad : q <= p
  <2>1. Bad \in SUBSET Nat
    OBVIOUS
  <2> HIDE DEF Bad
  <2> QED BY <1>1, <2>1, LeastNatural
<1>3. q # 0
  <2> SUFFICES ASSUME q = 0 PROVE FALSE
    OBVIOUS
  <2> DEFINE f == [j \in 0 .. 0 |-> {1}]
  <2>1. \A j \in 0 .. 0 : j = 0
    BY SMT
  <2>2. Layers(code, f, 0)
    BY <2>1 DEF Layers
  <2> QED BY <1>2, <2>2
<1>4. q \in Nat /\ q - 1 \in Nat /\ ~(q <= q - 1)
  BY <1>2, <1>3, SMT
<1>5. PICK f : Layers(code, f, q - 1)
  BY <1>2, <1>4
<1> DEFINE g == [j \in 0 .. q |-> IF j = q THEN Further(code, f[q - 1]) ELSE f[j]]
<1>6. /\ \A j \in 0 .. q : j # 0 => j - 1 \in 0 .. q - 1 /\ j - 1 \in 0 .. q /\ j - 1 # q
      /\ \A j \in 0 .. q : j # q => j \in 0 .. q - 1
      /\ 0 \in 0 .. q - 1 /\ q \in 0 .. q
  BY <1>4, SMT
<1>7. ASSUME NEW j \in 0 .. q PROVE g[j] = IF j = 0 THEN {1} ELSE Further(code, g[j - 1])
  <2>1. CASE j = q
    <3>1. g[j] = Further(code, f[q - 1]) /\ g[q - 1] = f[q - 1]
      BY <1>3, <1>6, <2>1
    <3> QED BY <1>3, <2>1, <3>1
  <2>2. CASE j # q
    <3>1. g[j] = f[j] /\ j \in 0 .. q - 1
      BY <1>6, <2>2
    <3>2. f[j] = IF j = 0 THEN {1} ELSE Further(code, f[j - 1])
      BY <1>5, <3>1 DEF Layers
    <3>3. j # 0 => g[j - 1] = f[j - 1]
      BY <1>6
    <3> QED BY <3>1, <3>2, <3>3
  <2> QED BY <2>1, <2>2
<1>8. g = [j \in 0 .. q |-> g[j]]
  OBVIOUS
<1> HIDE DEF g
<1>9. Layers(code, g, q)
  BY <1>7, <1>8 DEF Layers
<1> QED BY <1>2, <1>9

\* What can be reached is the layer of as many steps as there are positions.
LEMMA ReachableLayer ==
    ASSUME NEW code, NEW n \in Nat, n = Len(code)
    PROVE  \E f : Layers(code, f, n) /\ Reachable(code) = f[n]
<1>1. \E f : Layers(code, f, Len(code))
  BY LayersExist
<1> DEFINE g == CHOOSE f : Layers(code, f, Len(code))
<1>2. Layers(code, g, Len(code))
  BY <1>1
<1>3. Reachable(code) = g[Len(code)]
  BY Zenon DEF Reachable, Layers, Further
<1> QED BY <1>2, <1>3

\* Each layer is within any set that is closed, and has the one before.
LEMMA LayersGrow ==
    ASSUME NEW code, NEW n \in Nat, NEW f, Layers(code, f, n),
           NEW K, 1 \in K, \A k \in K : Successors(code, k) \subseteq K
    PROVE  /\ \A j \in 0 .. n : 1 \in f[j] /\ f[j] \subseteq K
           /\ \A j \in 0 .. n : j # 0 => f[j] = Further(code, f[j - 1]) /\ j - 1 \in 0 .. n
<1>1. /\ \A j \in 0 .. n : j # 0 => j - 1 \in 0 .. n /\ j - 1 < j
      /\ 0 \in 0 .. n
  BY SMT
<1>2. \A j \in 0 .. n : f[j] = IF j = 0 THEN {1} ELSE Further(code, f[j - 1])
  BY DEF Layers
<1> DEFINE Bad == {j \in 0 .. n : ~(1 \in f[j] /\ f[j] \subseteq K)}
<1>3. Bad = {}
  <2> SUFFICES ASSUME Bad # {} PROVE FALSE
    OBVIOUS
  <2>1. PICK q \in Bad : \A p \in Bad : q <= p
    <3>1. Bad \in SUBSET Nat
      BY SMT
    <3> HIDE DEF Bad
    <3> QED BY <3>1, LeastNatural
  <2>2. q # 0
    BY <1>2, <2>1
  <2>3. q \in 0 .. n /\ q - 1 \in 0 .. n /\ ~(q <= q - 1)
    BY <2>1, <2>2, SMT
  <2>4. 1 \in f[q - 1] /\ f[q - 1] \subseteq K
    BY <2>1, <2>3
  <2>5. f[q] = Further(code, f[q - 1])
    BY <1>2, <2>2, <2>3
  <2>6. 1 \in f[q] /\ f[q] \subseteq K
    BY <2>4, <2>5 DEF Further
  <2> QED BY <2>1, <2>6
<1> QED BY <1>1, <1>2, <1>3

\* A position that is reached leads only to others: one that is new in the
\* last layer would need one that is new in each layer before, and there are
\* more layers than positions.
LEMMA ReachableClosed ==
    ASSUME NEW code, NEW n \in Nat, n = Len(code),
           NEW K \in SUBSET (1 .. n), 1 \in K, \A k \in K : Successors(code, k) \subseteq K
    PROVE  /\ 1 \in Reachable(code) /\ Reachable(code) \subseteq K
           /\ \A k \in Reachable(code) : Successors(code, k) \subseteq Reachable(code)
<1>1. PICK f : Layers(code, f, n) /\ Reachable(code) = f[n]
  BY ReachableLayer
<1>2. /\ \A j \in 0 .. n : 1 \in f[j] /\ f[j] \subseteq K
      /\ \A j \in 0 .. n : j # 0 => f[j] = Further(code, f[j - 1]) /\ j - 1 \in 0 .. n
  BY <1>1, LayersGrow
<1>3. n \in 0 .. n
  BY SMT
<1>4. SUFFICES ASSUME NEW a \in f[n], NEW s \in Successors(code, a), s \notin f[n] PROVE FALSE
  BY <1>1, <1>2, <1>3
\* a position that is new in layer j
<1> DEFINE New(j, k) == k \in f[j] /\ (j # 0 => k \notin f[j - 1])
           Bad == {d \in 0 .. n : ~ \E k \in K : New(n - d, k)}
<1>5. Bad = {}
  <2> SUFFICES ASSUME Bad # {} PROVE FALSE
    OBVIOUS
  <2>1. PICK d \in Bad : \A p \in Bad : d <= p
    <3>1. Bad \in SUBSET Nat
      BY SMT
    <3> HIDE DEF Bad
    <3> QED BY <3>1, LeastNatural
  <2>2. d # 0
    <3> SUFFICES ASSUME d = 0 PROVE FALSE
      OBVIOUS
    <3>1. n - 0 = n
      OBVIOUS
    <3>2. n # 0 => a \notin f[n - 1]
      <4> SUFFICES ASSUME n # 0, a \in f[n - 1] PROVE FALSE
        OBVIOUS
      <4>1. f[n] = Further(code, f[n - 1])
        BY <1>2, <1>3
      <4> QED BY <1>4, <4>1 DEF Further
    <3> QED BY <1>2, <1>3, <1>4, <2>1, <3>1, <3>2
  <2>3. d \in 0 .. n /\ d - 1 \in 0 .. n /\ ~(d <= d - 1)
    BY <2>1, <2>2, SMT
  <2>4. PICK k \in K : New(n - (d - 1), k)
    BY <2>1, <2>3
  <2> DEFINE j == n - d
  <2>5. /\ n - (d - 1) = j + 1 /\ j + 1 \in 0 .. n /\ j + 1 # 0 /\ (j + 1) - 1 = j
        /\ j \in 0 .. n /\ (j # 0 => j - 1 \in 0 .. n)
    BY <2>3, SMT
  <2> HIDE DEF j
  <2>6. k \in Further(code, f[j]) /\ k \notin f[j]
    BY <1>2, <2>4, <2>5
  <2>7. PICK b \in f[j] : k \in Successors(code, b)
    BY <2>6 DEF Further
  <2>8. j # 0 => b \notin f[j - 1]
    <3> SUFFICES ASSUME j # 0, b \in f[j - 1] PROVE FALSE
      OBVIOUS
    <3>1. f[j] = Further(code, f[j - 1])
      BY <1>2, <2>5
    <3> QED BY <2>6, <2>7, <3>1 DEF Further
  <2>9. b \in K /\ New(j, b)
    BY <1>2, <2>5, <2>7, <2>8
  <2> QED BY <2>1, <2>9 DEF j
<1>6. \A j \in 0 .. n : \E k \in K : New(j, k)
  <2> SUFFICES ASSUME NEW j \in 0 .. n PROVE \E k \in K : New(j, k)
    OBVIOUS
  <2>1. n - j \in 0 .. n /\ n - (n - j) = j
    BY SMT
  <2> QED BY <1>5, <2>1
<1> DEFINE first == [j \in 0 .. n |-> CHOOSE k \in K : New(j, k)]
<1>7. first \in [0 .. n -> 1 .. n] /\ \A j \in 0 .. n : New(j, first[j])
  BY <1>6
<1>8. PICK i, j \in 0 .. n : i # j /\ first[i] = first[j]
  <2>1. /\ IsFiniteSet(0 .. n) /\ Cardinality(0 .. n) = n + 1
        /\ IsFiniteSet(1 .. n) /\ Cardinality(1 .. n) = n
    <3>1. 0 \in Int /\ 1 \in Int /\ n \in Int
      BY SMT
    <3>2. /\ IsFiniteSet(0 .. n) /\ IsFiniteSet(1 .. n)
          /\ Cardinality(0 .. n) = IF 0 > n THEN 0 ELSE n - 0 + 1
          /\ Cardinality(1 .. n) = IF 1 > n THEN 0 ELSE n - 1 + 1
      BY <3>1, FS_Interval, Zenon
    <3> QED BY <3>2, SMT
  <2>2. Cardinality(1 .. n) < Cardinality(0 .. n)
    BY <2>1, SMT
  <2> HIDE DEF first
  <2>3. \E x, y \in 0 .. n : x # y /\ first[x] = first[y]
    <3> DEFINE S == 0 .. n  T == 1 .. n
    <3> HIDE DEF S, T
    <3>1. first \in [S -> T] /\ IsFiniteSet(S) /\ IsFiniteSet(T) /\ Cardinality(T) < Cardinality(S)
      BY <1>7, <2>1, <2>2 DEF S, T
    <3>2. \E x, y \in S : x # y /\ first[x] = first[y]
      BY <3>1, FS_PigeonHole
    <3> QED BY <3>2 DEF S
  <2> QED BY <2>3
\* layers contain the ones before
<1>9. ASSUME NEW p \in 0 .. n, NEW q \in 0 .. n, p < q, first[p] = first[q] PROVE FALSE
  <2> DEFINE Worse == {e \in Nat : p + e < q /\ first[p] \notin f[p + e]}
  <2>1. Worse = {}
    <3> SUFFICES ASSUME Worse # {} PROVE FALSE
      OBVIOUS
    <3>1. PICK e \in Worse : \A x \in Worse : e <= x
      <4>1. Worse \in SUBSET Nat
        OBVIOUS
      <4> HIDE DEF Worse
      <4> QED BY <4>1, LeastNatural
    <3>2. e # 0
      <4>1. first[p] \in f[p] /\ p + 0 = p
        BY <1>7, SMT
      <4> QED BY <3>1, <4>1
    <3>3. e - 1 \in Nat /\ ~(e <= e - 1) /\ p + (e - 1) < q /\ (p + e) - 1 = p + (e - 1)
          /\ p + e \in 0 .. n /\ p + e # 0
      BY <1>9, <3>1, <3>2, SMT
    <3>4. first[p] \in f[p + (e - 1)]
      BY <3>1, <3>3
    <3>5. f[p + e] = Further(code, f[p + (e - 1)])
      BY <1>2, <3>3
    <3> QED BY <3>1, <3>4, <3>5 DEF Further
  <2>2. q - 1 - p \in Nat /\ p + (q - 1 - p) = q - 1 /\ q - 1 < q /\ q # 0
    BY <1>9, SMT
  <2>3. first[p] \in f[q - 1]
    BY <2>1, <2>2
  <2> QED BY <1>7, <1>9, <2>2, <2>3
<1>10. i < j \/ j < i
  BY <1>8, SMT
<1> QED BY <1>8, <1>9, <1>10

-----------------------------------------------------------------------------
(* What simplifyControlFlow and LLVM's cleanup make of the entry function. *)

Replacement(v, new) == IF v \in DOMAIN new THEN new[v] ELSE v

WithUses(args, new) == [j \in DOMAIN args |-> Replacement(args[j], new)]

\* the comparison as it is judged
Judged(i) == IF i.op = "icmp" THEN Normalised(i) ELSE i

\* a branch on a constant goes where the constant says
Straightened(i) ==
    IF i.op = "br" /\ Len(i.at) = 2 /\ IsConstant(i.args[1])
    THEN Jump(i.at[IF ConstantValue[i.args[1]] # 0 THEN 1 ELSE 2]) ELSE i

\* the comparisons that b decides have the names truth has, and the outcomes
IsTruth(m, b, truth) ==
    \A n \in DOMAIN truth :
        /\ IsConstant(truth[n])
        /\ \E k \in DOMAIN EntryCode(m) :
              LET i == EntryCode(m)[k]
              IN  /\ i.op = "icmp" /\ i.dst = n
                  /\ \/ ConstantValue[truth[n]] = 1 /\ Verdict(b, Normalised(i)) = "AlwaysTrue"
                     \/ ConstantValue[truth[n]] = 0 /\ Verdict(b, Normalised(i)) = "AlwaysFalse"

\* the instruction j is what has become of i at position k of the new code
Became(i, j, k, truth, live, code) ==
    /\ j.op = i.op
    /\ i.op # "br" => j.dst = i.dst
    /\ i.op \notin {"phi", "br"} => j.args = WithUses(Judged(i).args, truth) /\ j.name = Judged(i).name
    /\ i.op = "br" =>
          \/ j.at = i.at /\ j.args = WithUses(i.args, truth)
          \/ LET c == Replacement(i.args[1], truth)
             IN  /\ Len(i.at) = 2 /\ IsConstant(c) /\ j.args = <<>>
                 /\ j.at = <<i.at[IF ConstantValue[c] # 0 THEN 1 ELSE 2]>>
    /\ i.op = "phi" =>
          /\ \A a \in DOMAIN j.args : \E c \in DOMAIN i.args :
                /\ j.args[a] = Replacement(i.args[c], truth)
                /\ j.at[a] = i.at[c] /\ i.at[c] \in live
          /\ \A c \in DOMAIN i.args :
                i.at[c] \in live /\ Arrives(code, i.at[c], k) =>
                   \E a \in DOMAIN j.args : j.at[a] = i.at[c]

\* mid is m after both, of which the positions in live are left
Rewrites(m, mid, truth, live) ==
    /\ mid.entry = m.entry /\ mid.globals = m.globals /\ mid.pointers = m.pointers
    /\ mid.body[mid.entry].params = m.body[m.entry].params
    /\ DOMAIN EntryCode(mid) = DOMAIN EntryCode(m)
    /\ 1 \in live /\ live \subseteq DOMAIN EntryCode(m)
    /\ \A k \in live : Successors(EntryCode(mid), k) \subseteq live
    /\ \A k \in DOMAIN EntryCode(m) \ live : EntryCode(mid)[k] = Erased
    /\ \A k \in live : Became(EntryCode(m)[k], EntryCode(mid)[k], k, truth, live, EntryCode(mid))

\* a comparison keeps its opcode and its register when it is judged
LEMMA JudgedIs ==
    ASSUME NEW m, NEW i, WellFormedInstr(m, i)
    PROVE  /\ WellFormedInstr(m, Judged(i)) /\ Judged(i).op = i.op /\ Judged(i).dst = i.dst
           /\ i.op # "icmp" => Judged(i) = i
<1>1. CASE i.op = "icmp"
  <2>1. WellFormedInstr(m, Normalised(i))
    BY <1>1, NormalisedInstr
  <2>2. Normalised(i).op = "icmp" /\ Normalised(i).dst = i.dst
    <3>1. \A p, d, l, r : Compare(p, d, l, r).op = "icmp" /\ Compare(p, d, l, r).dst = d
      BY DEF Compare, Instr
    <3> QED BY <1>1, <3>1 DEF Normalised
  <2> QED BY <1>1, <2>1, <2>2 DEF Judged
<1>2. CASE i.op # "icmp"
  BY <1>2 DEF Judged
<1> QED BY <1>1, <1>2

\* one instruction of the simplified code
SimplifiedAs(code, b, k) ==
    LET i == Judged(code[k])
        j == simplifyControlFlow(code, b)[k]
    IN  /\ j.op = code[k].op /\ j.dst = code[k].dst /\ j.at = i.at /\ j.name = i.name
        /\ j.args = WithUses(i.args, Folded(code, b))

\* What simplifyControlFlow makes of the instruction at position k.
LEMMA SimplifiedIs ==
    ASSUME NEW m, NEW code, NEW b, NEW k \in DOMAIN code, WellFormedInstr(m, code[k])
    PROVE  SimplifiedAs(code, b, k)
<1> DEFINE i == Judged(code[k])  j == simplifyControlFlow(code, b)[k]
           args == WithUses(i.args, Folded(code, b))
<1>1. WellFormedInstr(m, i) /\ i.op = code[k].op /\ i.dst = code[k].dst
  BY JudgedIs
<1>2. j = [i EXCEPT !.args = args]
  BY DEF simplifyControlFlow, ReplaceUses, Judged, WithUses, Replacement
<1>3. i = [op |-> i.op, dst |-> i.dst, args |-> i.args, at |-> i.at, name |-> i.name]
  BY <1>1, Zenon DEF WellFormedInstr
<1> HIDE DEF i, args, j
<1>4. j = [op |-> i.op, dst |-> i.dst, args |-> args, at |-> i.at, name |-> i.name]
  BY <1>2, <1>3
<1>5. j.op = i.op /\ j.dst = i.dst /\ j.args = args /\ j.at = i.at /\ j.name = i.name
  BY <1>4
<1> QED BY <1>1, <1>5, Zenon DEF i, j, args, SimplifiedAs

\* one instruction of the cleaned code
CleanedAs(old, k) ==
    LET code == FoldBranches(old)
        live == Reachable(code)
        i == old[k]
        j == CleanCFG(old)[k]
    IN  /\ k \notin live => j = Erased
        /\ k \in live /\ i.op # "phi" => j = Straightened(i)
        /\ k \in live /\ i.op = "phi" =>
              /\ j.op = "phi" /\ j.dst = i.dst
              /\ \A a \in DOMAIN j.args : \E c \in DOMAIN i.args :
                    j.args[a] = i.args[c] /\ j.at[a] = i.at[c] /\ i.at[c] \in live
              /\ \A c \in DOMAIN i.args :
                    i.at[c] \in live /\ Arrives(code, i.at[c], k) =>
                       \E a \in DOMAIN j.args : j.at[a] = i.at[c]

\* What the cleanup makes of the instruction at position k.
LEMMA CleanedIs ==
    ASSUME NEW old, NEW k \in DOMAIN old,
           Len(old[k].args) \in Nat, DOMAIN old[k].args = 1 .. Len(old[k].args)
    PROVE  CleanedAs(old, k)
<1> DEFINE code == FoldBranches(old)  live == Reachable(code)  i == old[k]  j == CleanCFG(old)[k]
           kept == {c \in DOMAIN i.args : i.at[c] \in live /\ Arrives(code, i.at[c], k)}
           js == InOrder(kept, Len(i.args))
           phi == Phi(i.dst, [a \in DOMAIN js |-> i.args[js[a]]], [a \in DOMAIN js |-> i.at[js[a]]])
<1>1. DOMAIN code = DOMAIN old /\ code[k] = Straightened(i)
  BY DEF FoldBranches, Straightened
<1>2. i.op = "phi" => code[k] = i
  BY <1>1 DEF Straightened
<1>3. i.op # "phi" => code[k].op # "phi"
  <2>1. \A t : Jump(t).op = "br"
    BY DEF Jump, Instr
  <2> QED BY <1>1, <2>1 DEF Straightened
<1> DEFINE left(x) == {c \in DOMAIN x.args : x.at[c] \in live /\ Arrives(code, x.at[c], k)}
           order(x) == InOrder(left(x), Len(x.args))
<1>4. j = IF k \notin live THEN Erased
          ELSE IF code[k].op = "phi"
          THEN Phi(code[k].dst, [a \in DOMAIN order(code[k]) |-> code[k].args[order(code[k])[a]]],
                                [a \in DOMAIN order(code[k]) |-> code[k].at[order(code[k])[a]]])
          ELSE code[k]
  BY <1>1 DEF CleanCFG
<1>5. k \in live /\ i.op = "phi" => j = phi
  BY <1>2, <1>4, Zenon
<1>6. js \in Seq(kept) /\ \A c \in kept : \E a \in DOMAIN js : js[a] = c
  <2>1. kept \in SUBSET (1 .. Len(i.args))
    OBVIOUS
  <2> HIDE DEF kept
  <2> QED BY <2>1, InOrderIs
<1>7. \A a \in DOMAIN js : js[a] \in kept
  <2> HIDE DEF js, kept
  <2> QED BY <1>6, SMT
<1>9. ASSUME k \in live, i.op = "phi"
      PROVE  /\ j.op = "phi" /\ j.dst = i.dst
             /\ DOMAIN j.args = DOMAIN js
             /\ \A a \in DOMAIN js : j.args[a] = i.args[js[a]] /\ j.at[a] = i.at[js[a]]
  <2> DEFINE as == [a \in DOMAIN js |-> i.args[js[a]]]  at == [a \in DOMAIN js |-> i.at[js[a]]]
  <2>1. j = Phi(i.dst, as, at)
    BY <1>5, <1>9
  <2> DEFINE d == i.dst
  <2> HIDE DEF as, at, j, d
  <2>2. j = Phi(d, as, at)
    BY <2>1 DEF d
  <2>3. j.op = "phi" /\ j.dst = d /\ j.args = as /\ j.at = at
    BY <2>2 DEF Phi, Instr
  <2> QED BY <2>3 DEF as, at, d
<1> HIDE DEF js, j, code, live, phi
<1>10. k \in live /\ i.op # "phi" => j = Straightened(i)
  BY <1>1, <1>3, <1>4, Zenon
<1>11. k \notin live => j = Erased
  BY <1>4, Zenon
<1>12. k \in live /\ i.op = "phi" =>
                     /\ j.op = "phi" /\ j.dst = i.dst
                     /\ \A a \in DOMAIN j.args : \E c \in DOMAIN i.args :
                           j.args[a] = i.args[c] /\ j.at[a] = i.at[c] /\ i.at[c] \in live
                     /\ \A c \in DOMAIN i.args :
                           i.at[c] \in live /\ Arrives(code, i.at[c], k) =>
                              \E a \in DOMAIN j.args : j.at[a] = i.at[c]
  BY <1>6, <1>7, <1>9
<1> QED BY <1>10, <1>11, <1>12, Zenon DEF j, code, live, CleanedAs

\* The verdicts are of the module's comparisons.
LEMMA FoldedIsTruth ==
    ASSUME NEW m, NEW b
    PROVE  IsTruth(m, b, Folded(EntryCode(m), b))
<1> DEFINE code == EntryCode(m)  truth == Folded(code, b)
           verdict(k) == Verdict(b, Normalised(code[k]))
           decided(k) == code[k].op = "icmp" /\ verdict(k) \in {"AlwaysTrue", "AlwaysFalse"}
           result(n)  == CHOOSE k \in DOMAIN code : decided(k) /\ code[k].dst = n
<1>1. truth = [n \in {code[k].dst : k \in {j \in DOMAIN code : decided(j)}} |->
                  ConstantFor(IF verdict(result(n)) = "AlwaysTrue" THEN 1 ELSE 0)]
  BY DEF Folded
<1> HIDE DEF truth
<1>2. \A n \in {0, 1} : ConstantFor(n) \in DOMAIN ConstantValue /\ ConstantValue[ConstantFor(n)] = n
  BY TruthValues DEF ConstantFor
<1> SUFFICES ASSUME NEW n \in DOMAIN truth
             PROVE  /\ IsConstant(truth[n])
                    /\ \E k \in DOMAIN code :
                          LET i == code[k]
                          IN  /\ i.op = "icmp" /\ i.dst = n
                              /\ \/ ConstantValue[truth[n]] = 1 /\ Verdict(b, Normalised(i)) = "AlwaysTrue"
                                 \/ ConstantValue[truth[n]] = 0 /\ Verdict(b, Normalised(i)) = "AlwaysFalse"
  BY DEF IsTruth, truth
<1>3. \E k \in DOMAIN code : decided(k) /\ code[k].dst = n
  BY <1>1
<1> DEFINE k == result(n)
<1>4. k \in DOMAIN code /\ decided(k) /\ code[k].dst = n
  BY <1>3
<1>5. truth[n] = ConstantFor(IF verdict(k) = "AlwaysTrue" THEN 1 ELSE 0)
  BY <1>1
<1> HIDE DEF k, code, result
<1>6. CASE verdict(k) = "AlwaysTrue"
  <2>1. truth[n] = ConstantFor(1)
    BY <1>5, <1>6
  <2> QED BY <1>2, <1>4, <1>6, <2>1 DEF IsConstant
<1>7. CASE verdict(k) = "AlwaysFalse"
  <2>1. truth[n] = ConstantFor(0)
    BY <1>5, <1>7
  <2> QED BY <1>2, <1>4, <1>7, <2>1 DEF IsConstant
<1> QED BY <1>4, <1>6, <1>7

\* A branch that is folded leads where one of its targets is.
LEMMA StraightenedLeads ==
    ASSUME NEW i, i.op = "br" => i.at \in Seq(Nat) /\ Len(i.at) \in {1, 2}
    PROVE  /\ Straightened(i).op = i.op /\ Straightened(i).dst \in {i.dst, NoName}
           /\ i.op # "br" => Straightened(i) = i
           /\ i.op = "br" => {Straightened(i).at[j] : j \in DOMAIN Straightened(i).at}
                                 \subseteq {i.at[j] : j \in DOMAIN i.at}
<1>1. \A t : /\ Jump(t).op = "br" /\ Jump(t).dst = NoName /\ Jump(t).at = <<t>>
             /\ DOMAIN Jump(t).at = {1} /\ Jump(t).at[1] = t
  BY DEF Jump, Instr
<1>2. CASE i.op = "br" /\ Len(i.at) = 2 /\ IsConstant(i.args[1])
  <2> DEFINE c == IF ConstantValue[i.args[1]] # 0 THEN 1 ELSE 2
  <2>1. c \in DOMAIN i.at
    BY <1>2, SMT
  <2>2. Straightened(i) = Jump(i.at[c])
    BY <1>2 DEF Straightened
  <2> HIDE DEF c
  <2> QED BY <1>1, <1>2, <2>1, <2>2
<1>3. CASE ~(i.op = "br" /\ Len(i.at) = 2 /\ IsConstant(i.args[1]))
  BY <1>3, Zenon DEF Straightened
<1> QED BY <1>2, <1>3

\* the entry function of mid has other code than that of m
SameSurroundings(m, mid) ==
    /\ mid.entry = m.entry /\ mid.globals = m.globals /\ mid.pointers = m.pointers
    /\ mid.body[mid.entry].params = m.body[m.entry].params

\* what simplifyControlFlow and the cleanup make of the entry function
Cleaned(m, b) == CleanCFG(simplifyControlFlow(EntryCode(m), b))

\* the positions the cleanup leaves
Left(m, b) == Reachable(FoldBranches(simplifyControlFlow(EntryCode(m), b)))

\* an instruction of the entry function
LEMMA EntryInstr ==
    ASSUME NEW m, WellFormed(m), NEW k \in DOMAIN EntryCode(m)
    PROVE  WellFormedInstr(m, EntryCode(m)[k])
<1>1. m.entry \in DOMAIN m.body /\ WellFormedFunction(m, m.body[m.entry])
  BY Zenon DEF WellFormed
<1>2. DOMAIN EntryCode(m) = 1 .. Len(EntryCode(m))
  BY EntryShape
<1> QED BY <1>1, <1>2, Zenon DEF WellFormedFunction, EntryCode

\* one instruction of the simplified entry function
LEMMA SimplifiedEntry ==
    ASSUME NEW m, WellFormed(m), NEW b, NEW k \in DOMAIN EntryCode(m),
           NEW j, j = simplifyControlFlow(EntryCode(m), b)[k]
    PROVE  /\ j.op = EntryCode(m)[k].op /\ j.dst = EntryCode(m)[k].dst
           /\ j.at = Judged(EntryCode(m)[k]).at /\ j.name = Judged(EntryCode(m)[k]).name
           /\ j.args = WithUses(Judged(EntryCode(m)[k]).args, Folded(EntryCode(m), b))
<1> DEFINE code == EntryCode(m)
<1>1. WellFormedInstr(m, code[k]) /\ k \in DOMAIN code
  BY EntryInstr
<1> HIDE DEF code
<1>2. SimplifiedAs(code, b, k)
  BY <1>1, SimplifiedIs
<1> QED BY <1>2, Zenon DEF code, SimplifiedAs

\* A branch that is not folded keeps its targets.
LEMMA SimplifiedBranches ==
    ASSUME NEW m, NEW avail, WellFormed(m), SelfContained(m, avail), NEW b, NEW k \in DOMAIN EntryCode(m)
    PROVE  LET i == EntryCode(m)[k]
               j == simplifyControlFlow(EntryCode(m), b)[k]
               c == Replacement(i.args[1], Folded(EntryCode(m), b))
           IN  /\ WellFormedInstr(m, i)
               /\ i.op = "br" =>
                     /\ i.at \in Seq(Nat) /\ Len(i.at) \in {1, 2} /\ j.at = i.at
                     /\ j.args = WithUses(i.args, Folded(EntryCode(m), b))
                     /\ Len(i.at) = 2 => j.args[1] = c
<1> DEFINE code == EntryCode(m)  i == code[k]  j == simplifyControlFlow(code, b)[k]  truth == Folded(code, b)
<1>1. WellFormedInstr(m, i)
  BY EntryInstr
<1>2. i.op = "br" => i.at \in Seq(Nat) /\ Len(i.at) \in {1, 2} /\ (Len(i.at) = 2 => Len(i.args) = 1)
  BY Zenon DEF SelfContained, OwnInstructions, EntryCode
<1>3. j.at = Judged(i).at /\ j.args = WithUses(Judged(i).args, truth)
  BY SimplifiedEntry
<1>4. i.op = "br" => Judged(i) = i
  BY DEF Judged
<1>5. i.op = "br" /\ Len(i.at) = 2 => 1 \in DOMAIN i.args
  <2>1. i.args \in Seq(Names)
    BY <1>1, Zenon DEF WellFormedInstr
  <2> QED BY <1>2, <2>1, SMT
<1> HIDE DEF truth
<1>6. i.op = "br" /\ Len(i.at) = 2 => WithUses(i.args, truth)[1] = Replacement(i.args[1], truth)
  BY <1>5 DEF WithUses
<1> QED BY <1>1, <1>2, <1>3, <1>4, <1>6 DEF truth

\* The positions that are left are of those that are reached in m, and lead
\* only to others.
LEMMA LeftIs ==
    ASSUME NEW m, NEW avail, WellFormed(m), SelfContained(m, avail), NEW b
    PROVE  LET fb == FoldBranches(simplifyControlFlow(EntryCode(m), b))
           IN  /\ 1 \in Left(m, b) /\ Left(m, b) \subseteq DOMAIN avail
               /\ DOMAIN fb = DOMAIN EntryCode(m)
               /\ \A k \in DOMAIN EntryCode(m) :
                     /\ fb[k] = Straightened(simplifyControlFlow(EntryCode(m), b)[k])
                     /\ fb[k].op = EntryCode(m)[k].op
                     /\ Successors(fb, k) \subseteq Successors(EntryCode(m), k)
               /\ \A k \in Left(m, b) : Successors(fb, k) \subseteq Left(m, b)
<1> DEFINE code == EntryCode(m)  mod == simplifyControlFlow(code, b)  fb == FoldBranches(mod)
<1>1. DOMAIN code = 1 .. Len(code) /\ Len(code) \in Nat
  BY EntryShape
<1>2. DOMAIN mod = DOMAIN code /\ DOMAIN fb = DOMAIN code
  BY DEF simplifyControlFlow, ReplaceUses, FoldBranches
<1>3. \A k \in DOMAIN code : fb[k] = Straightened(mod[k])
  BY <1>2 DEF FoldBranches, Straightened
<1>4. Len(fb) = Len(code)
  <2> DEFINE n == Len(code)  S == {fb[k] : k \in 1 .. n}
  <2>1. fb = [k \in 1 .. n |-> fb[k]]
    BY <1>1, <1>2 DEF FoldBranches
  <2> HIDE DEF fb, code
  <2>2. fb \in [1 .. n -> S]
    BY <2>1
  <2> HIDE DEF S
  <2>3. fb \in Seq(S) /\ Len(fb) = n
    BY <1>1, <2>2, SMT
  <2> QED BY <2>3
<1> HIDE DEF mod, fb
<1>5. ASSUME NEW k \in DOMAIN code
      PROVE  fb[k].op = code[k].op /\ Successors(fb, k) \subseteq Successors(code, k)
  <2>1. /\ mod[k].op = code[k].op
        /\ code[k].op = "br" => code[k].at \in Seq(Nat) /\ Len(code[k].at) \in {1, 2} /\ mod[k].at = code[k].at
    BY SimplifiedBranches, SimplifiedEntry DEF mod
  <2>2. /\ Straightened(mod[k]).op = mod[k].op
        /\ mod[k].op = "br" => {Straightened(mod[k]).at[j] : j \in DOMAIN Straightened(mod[k]).at}
                                 \subseteq {mod[k].at[j] : j \in DOMAIN mod[k].at}
    BY <2>1, StraightenedLeads
  <2>3. fb[k].op = code[k].op
    BY <1>3, <2>1, <2>2
  <2>4. code[k].op = "br" => {fb[k].at[j] : j \in DOMAIN fb[k].at} \subseteq {code[k].at[j] : j \in DOMAIN code[k].at}
    BY <1>3, <2>1, <2>2
  <2> QED BY <2>3, <2>4, Zenon DEF Successors
<1> DEFINE K == DOMAIN avail
<1>6. K \in SUBSET (1 .. Len(fb)) /\ 1 \in K /\ \A k \in K : Successors(code, k) \subseteq K
  <2>1. 1 \in K /\ K \subseteq DOMAIN code /\ \A k \in K : Successors(code, k) \subseteq K
    BY Zenon DEF SelfContained, Dominated, EntryCode
  <2> QED BY <1>1, <1>4, <2>1
<1>7. \A k \in K : Successors(fb, k) \subseteq K
  <2>1. K \subseteq DOMAIN code
    BY <1>1, <1>4, <1>6
  <2> QED BY <1>5, <1>6, <2>1
<1>8. Len(fb) \in Nat
  BY <1>1, <1>4
<1> HIDE DEF K
<1>9. /\ 1 \in Reachable(fb) /\ Reachable(fb) \subseteq K
      /\ \A k \in Reachable(fb) : Successors(fb, k) \subseteq Reachable(fb)
  BY <1>6, <1>7, <1>8, ReachableClosed
<1> QED BY <1>2, <1>3, <1>5, <1>9 DEF Left, fb, mod, K

\* The cleaned code, instruction by instruction.
LEMMA MidRewrites ==
    ASSUME NEW m, NEW avail, WellFormed(m), SelfContained(m, avail), NEW b,
           NEW mid, SameSurroundings(m, mid), EntryCode(mid) = Cleaned(m, b)
    PROVE  Rewrites(m, mid, Folded(EntryCode(m), b), Left(m, b)) /\ Left(m, b) \subseteq DOMAIN avail
<1> DEFINE code == EntryCode(m)  mod == simplifyControlFlow(code, b)  fb == FoldBranches(mod)
           new == EntryCode(mid)  truth == Folded(code, b)  live == Left(m, b)
<1>1. /\ 1 \in live /\ live \subseteq DOMAIN avail /\ DOMAIN fb = DOMAIN code
      /\ \A k \in DOMAIN code : /\ fb[k] = Straightened(mod[k]) /\ fb[k].op = code[k].op
                                /\ Successors(fb, k) \subseteq Successors(code, k)
      /\ \A k \in live : Successors(fb, k) \subseteq live
  BY LeftIs
<1>2. DOMAIN avail \subseteq DOMAIN code /\ DOMAIN code = 1 .. Len(code) /\ Len(code) \in Nat
  BY EntryShape, Zenon DEF SelfContained, Dominated, EntryCode
<1>3. DOMAIN mod = DOMAIN code
  BY DEF simplifyControlFlow, ReplaceUses
<1>4. DOMAIN new = DOMAIN code
  BY <1>1 DEF Cleaned, CleanCFG
<1>5. ASSUME NEW k \in DOMAIN code
      PROVE  /\ mod[k].op = code[k].op /\ mod[k].dst = code[k].dst
             /\ mod[k].at = Judged(code[k]).at /\ mod[k].name = Judged(code[k]).name
             /\ mod[k].args = WithUses(Judged(code[k]).args, truth)
             /\ code[k].op # "icmp" => Judged(code[k]) = code[k]
             /\ DOMAIN mod[k].args = 1 .. Len(mod[k].args) /\ Len(mod[k].args) \in Nat
  <2>1. WellFormedInstr(m, code[k])
    BY SimplifiedBranches
  <2>2. WellFormedInstr(m, Judged(code[k])) /\ (code[k].op # "icmp" => Judged(code[k]) = code[k])
    BY <2>1, JudgedIs
  <2>3. mod[k].args = WithUses(Judged(code[k]).args, truth)
    BY SimplifiedEntry DEF mod
  <2> DEFINE args == Judged(code[k]).args  made == WithUses(args, truth)
  <2>4. args \in Seq(Names)
    BY <2>2, Zenon DEF WellFormedInstr
  <2> HIDE DEF args
  <2>5. DOMAIN args = 1 .. Len(args) /\ Len(args) \in Nat
    BY <2>4, SMT
  <2>6. made = [j \in 1 .. Len(args) |-> made[j]]
    BY <2>5 DEF WithUses
  <2> HIDE DEF made
  <2>7. DOMAIN made = 1 .. Len(made) /\ Len(made) \in Nat
    <3> DEFINE S == {made[j] : j \in 1 .. Len(args)}
    <3>1. made \in [1 .. Len(args) -> S]
      BY <2>6
    <3> HIDE DEF S
    <3> QED BY <2>5, <3>1, SMT
  <2> QED BY <2>2, <2>3, <2>7, SimplifiedEntry DEF made, args, mod
<1>6. ASSUME NEW k \in DOMAIN code
      PROVE  /\ k \notin live => new[k] = Erased
             /\ k \in live /\ code[k].op # "phi" => new[k] = fb[k]
             /\ k \in live /\ code[k].op = "phi" =>
                  /\ new[k].op = "phi" /\ new[k].dst = code[k].dst
                  /\ \A a \in DOMAIN new[k].args : \E c \in DOMAIN mod[k].args :
                        new[k].args[a] = mod[k].args[c] /\ new[k].at[a] = mod[k].at[c] /\ mod[k].at[c] \in live
                  /\ \A c \in DOMAIN mod[k].args :
                        mod[k].at[c] \in live /\ Arrives(fb, mod[k].at[c], k) =>
                           \E a \in DOMAIN new[k].args : new[k].at[a] = mod[k].at[c]
  <2>1. new[k] = CleanCFG(mod)[k] /\ live = Reachable(fb)
    BY DEF Cleaned, Left
  <2>2. mod[k].op = code[k].op /\ DOMAIN mod[k].args = 1 .. Len(mod[k].args) /\ Len(mod[k].args) \in Nat
    BY <1>5
  <2>3. k \in DOMAIN mod
    BY <1>3
  <2> HIDE DEF mod
  <2>4. CleanedAs(mod, k)
    BY <2>2, <2>3, CleanedIs
  <2>5. mod[k].dst = code[k].dst /\ fb[k] = Straightened(mod[k])
    BY <1>1, <1>5
  <2> DEFINE j == CleanCFG(mod)[k]
  <2>6. /\ k \notin live => j = Erased
        /\ k \in live /\ mod[k].op # "phi" => j = Straightened(mod[k])
        /\ k \in live /\ mod[k].op = "phi" =>
              /\ j.op = "phi" /\ j.dst = mod[k].dst
              /\ \A a \in DOMAIN j.args : \E c \in DOMAIN mod[k].args :
                    j.args[a] = mod[k].args[c] /\ j.at[a] = mod[k].at[c] /\ mod[k].at[c] \in live
              /\ \A c \in DOMAIN mod[k].args :
                    mod[k].at[c] \in live /\ Arrives(fb, mod[k].at[c], k) =>
                       \E a \in DOMAIN j.args : j.at[a] = mod[k].at[c]
    <3> HIDE DEF live, j
    <3> QED BY <2>1, <2>4, Zenon DEF CleanedAs, j
  <2> HIDE DEF fb, j, live
  <2> QED BY <2>1, <2>2, <2>5, <2>6 DEF j
<1> HIDE DEF mod, fb, new, truth, live
<1>7. \A k \in live : k \in DOMAIN code
  BY <1>1, <1>2
<1>8. \A k \in live : new[k].op = code[k].op
  BY <1>1, <1>6, <1>7
<1>9. \A k \in live : Successors(new, k) = Successors(fb, k)
  <2> SUFFICES ASSUME NEW k \in live PROVE Successors(new, k) = Successors(fb, k)
    OBVIOUS
  <2>1. CASE code[k].op = "phi"
    <3>1. new[k].op = "phi" /\ fb[k].op = "phi"
      BY <1>1, <1>7, <1>8, <2>1
    <3> QED BY <3>1 DEF Successors
  <2>2. CASE code[k].op # "phi"
    <3>1. new[k] = fb[k]
      BY <1>6, <1>7, <2>2
    <3> QED BY <3>1, Zenon DEF Successors
  <2> QED BY <2>1, <2>2
<1>10. ASSUME NEW p \in live, NEW k \in live, Arrives(new, p, k) PROVE Arrives(fb, p, k)
  <2>1. PICK t \in Successors(new, p) : t <= k /\ \A j \in t .. k : new[j].op = "phi"
    BY <1>10, Zenon DEF Arrives
  <2>2. t \in Successors(fb, p) /\ t \in live
    BY <1>1, <1>9, <2>1
  <2>3. \A j \in t .. k : j \in DOMAIN code
    BY <1>2, <1>7, <2>2, SMT
  <2>4. ASSUME NEW j \in t .. k PROVE fb[j].op = "phi"
    <3>1. j \in live
      <4>1. Erased.op = "erased"
        BY DEF Erased, Instr
      <4> QED BY <1>6, <2>1, <2>3, <4>1
    <3> QED BY <1>1, <1>8, <2>1, <2>3, <3>1
  <2> QED BY <2>1, <2>2, <2>4, Zenon DEF Arrives
<1>11. ASSUME NEW k \in live PROVE Became(code[k], new[k], k, truth, live, new)
  <2> DEFINE i == code[k]  j == new[k]
  <2>1. k \in DOMAIN code
    BY <1>7
  <2>2. CASE i.op = "phi"
    <3>1. mod[k].args = WithUses(i.args, truth) /\ mod[k].at = i.at /\ j.op = i.op /\ j.dst = i.dst
      BY <1>5, <1>6, <2>1, <2>2
    <3>2. DOMAIN mod[k].args = DOMAIN i.args /\ \A c \in DOMAIN i.args : mod[k].args[c] = Replacement(i.args[c], truth)
      BY <3>1 DEF WithUses
    <3>3. ASSUME NEW a \in DOMAIN j.args
          PROVE  \E c \in DOMAIN i.args : /\ j.args[a] = Replacement(i.args[c], truth)
                                          /\ j.at[a] = i.at[c] /\ i.at[c] \in live
      <4>1. PICK c \in DOMAIN mod[k].args :
               j.args[a] = mod[k].args[c] /\ j.at[a] = mod[k].at[c] /\ mod[k].at[c] \in live
        BY <1>6, <2>1, <2>2, <3>3
      <4> QED BY <3>1, <3>2, <4>1
    <3>4. ASSUME NEW c \in DOMAIN i.args, i.at[c] \in live, Arrives(new, i.at[c], k)
          PROVE  \E a \in DOMAIN j.args : j.at[a] = i.at[c]
      BY <1>6, <1>10, <2>1, <2>2, <3>1, <3>2, <3>4
    <3> QED BY <2>2, <3>1, <3>3, <3>4 DEF Became
  <2>3. CASE i.op = "br"
    <3>1. j = Straightened(mod[k]) /\ j.op = i.op /\ mod[k].op = "br" /\ mod[k].dst = i.dst
      BY <1>1, <1>5, <1>6, <1>8, <2>1, <2>3
    <3>2. /\ mod[k].at = i.at /\ mod[k].args = WithUses(i.args, truth)
          /\ Len(i.at) = 2 => mod[k].args[1] = Replacement(i.args[1], truth)
      BY <2>1, <2>3, SimplifiedBranches DEF mod, truth
    <3> DEFINE c == Replacement(i.args[1], truth)
    <3>3. CASE Len(i.at) = 2 /\ IsConstant(c)
      <4> DEFINE t == i.at[IF ConstantValue[c] # 0 THEN 1 ELSE 2]
      <4>1. j = Jump(t)
        BY <3>1, <3>2, <3>3 DEF Straightened
      <4> HIDE DEF t
      <4>2. j.at = <<t>> /\ j.args = <<>> /\ j.dst = NoName
        BY <4>1 DEF Jump, Instr
      <4> QED BY <2>3, <3>1, <3>3, <4>2 DEF Became, t
    <3>4. CASE ~(Len(i.at) = 2 /\ IsConstant(c))
      <4>1. j = mod[k]
        BY <3>1, <3>2, <3>4, Zenon DEF Straightened
      <4> QED BY <2>3, <3>1, <3>2, <4>1 DEF Became
    <3> QED BY <3>3, <3>4
  <2>4. CASE i.op \notin {"phi", "br"}
    <3>1. j = Straightened(mod[k]) /\ mod[k].op = i.op
      BY <1>1, <1>5, <1>6, <2>1, <2>4
    <3>2. j = mod[k]
      BY <2>4, <3>1, Zenon DEF Straightened
    <3> QED BY <1>5, <2>1, <2>4, <3>2, Zenon DEF Became
  <2> QED BY <2>2, <2>3, <2>4
<1>12. Rewrites(m, mid, truth, live)
  <2>1. \A k \in live : Successors(new, k) \subseteq live
    BY <1>1, <1>9
  <2>2. \A k \in DOMAIN code \ live : new[k] = Erased
    BY <1>6
  <2> QED BY <1>1, <1>2, <1>4, <1>11, <2>1, <2>2, Zenon DEF Rewrites, SameSurroundings, new
<1> QED BY <1>1, <1>12 DEF live, truth

-----------------------------------------------------------------------------
(* The cleaned module is self-contained, too.                              *)

\* what the names of folded comparisons are
TruthNames(m, truth) ==
    \A n \in DOMAIN truth :
        /\ IsConstant(truth[n]) /\ ~IsConstant(n) /\ n \notin m.pointers
        /\ \A k \in DOMAIN EntryCode(m) :
              EntryCode(m)[k].op \in {"rem", "dbg"} => EntryCode(m)[k].args[1] # n

\* The results of comparisons are neither pointers nor divided nor described.
LEMMA TruthNamesAre ==
    ASSUME NEW m, NEW avail, WellFormed(m), SelfContained(m, avail), NEW b, NEW truth, IsTruth(m, b, truth)
    PROVE  TruthNames(m, truth)
<1> SUFFICES ASSUME NEW n \in DOMAIN truth
             PROVE  /\ IsConstant(truth[n]) /\ ~IsConstant(n) /\ n \notin m.pointers
                    /\ \A k \in DOMAIN EntryCode(m) :
                          EntryCode(m)[k].op \in {"rem", "dbg"} => EntryCode(m)[k].args[1] # n
  BY DEF TruthNames
<1>1. PICK d \in DOMAIN EntryCode(m) : EntryCode(m)[d].op = "icmp" /\ EntryCode(m)[d].dst = n
  BY DEF IsTruth
<1>2. IsConstant(truth[n])
  BY DEF IsTruth
<1>3. EntryCode(m)[d].op \in Defining
  BY <1>1 DEF Defining
<1>4. ~IsConstant(n) /\ n \notin m.pointers
  BY <1>1, <1>3, Zenon DEF SelfContained, SingleAssignment, EntryCode
<1>5. \A k \in DOMAIN EntryCode(m) :
         EntryCode(m)[k].op \in {"rem", "dbg"} => EntryCode(m)[k].args[1] # n
  BY <1>1, Zenon DEF SelfContained, TruthsApart, EntryCode
<1> QED BY <1>2, <1>4, <1>5

\* a use that is not replaced stays, the others are constants
LEMMA ReplacementIs ==
    ASSUME NEW m, NEW truth, TruthNames(m, truth), NEW v
    PROVE  /\ Replacement(v, truth) = v \/ IsConstant(Replacement(v, truth))
           /\ IsConstant(v) \/ v \in m.pointers => Replacement(v, truth) = v
BY DEF Replacement, TruthNames

\* the operands of an instruction that is no phi, after the replacement
BecameShape(m, mid, truth, k) ==
    LET i == EntryCode(m)[k]  j == EntryCode(mid)[k]
    IN  /\ j.op = i.op
        /\ i.op # "br" => j.dst = i.dst
        /\ i.op \notin {"phi", "br", "icmp"} =>
              /\ j.name = i.name /\ DOMAIN j.args = DOMAIN i.args /\ Len(j.args) = Len(i.args)
              /\ i.args = <<>> <=> j.args = <<>>
              /\ \A c \in DOMAIN i.args : j.args[c] = Replacement(i.args[c], truth)
        /\ i.op = "icmp" =>
              /\ DOMAIN j.args = 1 .. 2 /\ DOMAIN i.args = 1 .. 2
              /\ j.name = Normalised(i).name
              /\ \A c \in 1 .. 2 : j.args[c] = Replacement(Normalised(i).args[c], truth)
              /\ \A c \in 1 .. 2 : \E d \in 1 .. 2 : Normalised(i).args[c] = i.args[d]
        /\ i.op = "br" =>
              /\ j.at \in Seq(Nat) /\ Len(j.at) \in {1, 2} /\ (Len(j.at) = 2 => Len(j.args) = 1)
              /\ \A c \in DOMAIN j.args : c \in DOMAIN i.args /\ j.args[c] = Replacement(i.args[c], truth)

\* The instruction that is left, field by field, and where it leads to.
LEMMA BecameIs ==
    ASSUME NEW m, NEW avail, WellFormed(m), SelfContained(m, avail),
           NEW mid, NEW truth, NEW live, Rewrites(m, mid, truth, live), NEW k \in live
    PROVE  /\ BecameShape(m, mid, truth, k)
           /\ Successors(EntryCode(mid), k) \subseteq Successors(EntryCode(m), k)
<1> DEFINE i == EntryCode(m)[k]  j == EntryCode(mid)[k]
<1>1. /\ k \in DOMAIN EntryCode(m) /\ Became(i, j, k, truth, live, EntryCode(mid))
  BY Zenon DEF Rewrites
<1>2. WellFormedInstr(m, i)
  BY <1>1, EntryInstr
<1>3. i.args \in Seq(Names) /\ (i.op = "icmp" => Len(i.args) = 2)
  BY <1>2, Zenon DEF WellFormedInstr
<1>4. i.op = "br" => i.at \in Seq(Nat) /\ Len(i.at) \in {1, 2} /\ (Len(i.at) = 2 => Len(i.args) = 1)
  BY <1>1, Zenon DEF SelfContained, OwnInstructions, EntryCode
<1> HIDE DEF i, j
<1>5. DOMAIN i.args = 1 .. Len(i.args) /\ Len(i.args) \in Nat
  BY <1>3, SMT
<1>6. j.op = i.op /\ (i.op # "br" => j.dst = i.dst)
  BY <1>1, Zenon DEF Became
<1>7. ASSUME NEW args, NEW new, args \in Seq(Names), new = WithUses(args, truth)
      PROVE  /\ DOMAIN new = DOMAIN args /\ Len(new) = Len(args) /\ (args = <<>> <=> new = <<>>)
             /\ \A c \in DOMAIN args : new[c] = Replacement(args[c], truth)
  <2>1. DOMAIN args = 1 .. Len(args) /\ Len(args) \in Nat
    BY <1>7, SMT
  <2>2. DOMAIN new = DOMAIN args /\ \A c \in DOMAIN args : new[c] = Replacement(args[c], truth)
    BY <1>7 DEF WithUses
  <2>3. new = [c \in 1 .. Len(args) |-> new[c]]
    BY <1>7, <2>1 DEF WithUses
  <2>4. Len(new) = Len(args) /\ (args = <<>> <=> new = <<>>)
    <3> DEFINE S == {new[c] : c \in 1 .. Len(args)}
    <3>1. new \in [1 .. Len(args) -> S]
      BY <2>3
    <3> HIDE DEF S
    <3>2. new \in Seq(S) /\ Len(new) = Len(args)
      BY <2>1, <3>1, SMT
    <3> QED BY <1>7, <3>2, SMT
  <2> QED BY <2>2, <2>4
<1>8. i.op \notin {"phi", "br", "icmp"} =>
         /\ j.name = i.name /\ DOMAIN j.args = DOMAIN i.args /\ Len(j.args) = Len(i.args)
         /\ i.args = <<>> <=> j.args = <<>>
         /\ \A c \in DOMAIN i.args : j.args[c] = Replacement(i.args[c], truth)
  <2> SUFFICES ASSUME i.op \notin {"phi", "br", "icmp"}
               PROVE  /\ j.name = i.name /\ DOMAIN j.args = DOMAIN i.args /\ Len(j.args) = Len(i.args)
                      /\ i.args = <<>> <=> j.args = <<>>
                      /\ \A c \in DOMAIN i.args : j.args[c] = Replacement(i.args[c], truth)
    OBVIOUS
  <2>1. i.op # "icmp" /\ i.op \notin {"phi", "br"}
    OBVIOUS
  <2>2. Judged(i) = i
    BY <2>1 DEF Judged
  <2>3. j.args = WithUses(i.args, truth) /\ j.name = i.name
    BY <1>1, <2>1, <2>2, Zenon DEF Became
  <2> QED BY <1>3, <1>7, <2>3
<1>9. i.op = "icmp" =>
         /\ DOMAIN j.args = 1 .. 2 /\ DOMAIN i.args = 1 .. 2
         /\ j.name = Normalised(i).name
         /\ \A c \in 1 .. 2 : j.args[c] = Replacement(Normalised(i).args[c], truth)
         /\ \A c \in 1 .. 2 : \E d \in 1 .. 2 : Normalised(i).args[c] = i.args[d]
  <2> SUFFICES ASSUME i.op = "icmp"
               PROVE  /\ DOMAIN j.args = 1 .. 2 /\ DOMAIN i.args = 1 .. 2
                      /\ j.name = Normalised(i).name
                      /\ \A c \in 1 .. 2 : j.args[c] = Replacement(Normalised(i).args[c], truth)
                      /\ \A c \in 1 .. 2 : \E d \in 1 .. 2 : Normalised(i).args[c] = i.args[d]
    OBVIOUS
  <2>1. DOMAIN i.args = 1 .. 2
    BY <1>3, <1>5
  <2>2. Judged(i) = Normalised(i)
    BY DEF Judged
  <2>3. j.args = WithUses(Normalised(i).args, truth) /\ j.name = Normalised(i).name
    <3>1. i.op \notin {"phi", "br"}
      OBVIOUS
    <3> QED BY <1>1, <2>2, <3>1, Zenon DEF Became
  <2>4. WellFormedInstr(m, Normalised(i)) /\ Normalised(i).op = "icmp"
    BY <1>2, <2>2, JudgedIs
  <2>5. Normalised(i).args \in Seq(Names) /\ Len(Normalised(i).args) = 2
    BY <2>4, Zenon DEF WellFormedInstr
  <2> DEFINE args == Normalised(i).args
  <2>6. args = i.args \/ args = <<i.args[2], i.args[1]>>
    BY DEF Normalised, Compare, Instr
  <2> HIDE DEF args
  <2>7. DOMAIN args = 1 .. 2 /\ \A c \in 1 .. 2 : \E d \in 1 .. 2 : args[c] = i.args[d]
    <3>1. DOMAIN args = 1 .. 2
      BY <2>5, SMT DEF args
    <3>2. \A c \in 1 .. 2 : c = 1 \/ c = 2
      BY SMT
    <3>3. 1 \in 1 .. 2 /\ 2 \in 1 .. 2
      BY SMT
    <3>4. CASE args = i.args
      BY <3>1, <3>4
    <3>5. CASE args = <<i.args[2], i.args[1]>>
      <4>1. args[1] = i.args[2] /\ args[2] = i.args[1]
        BY <3>5
      <4> QED BY <3>1, <3>2, <3>3, <4>1, Zenon
    <3> QED BY <2>6, <3>4, <3>5
  <2> QED BY <1>7, <2>1, <2>3, <2>5, <2>7 DEF args
<1>10. i.op = "br" =>
         /\ j.at \in Seq(Nat) /\ Len(j.at) \in {1, 2} /\ (Len(j.at) = 2 => Len(j.args) = 1)
         /\ \A c \in DOMAIN j.args : c \in DOMAIN i.args /\ j.args[c] = Replacement(i.args[c], truth)
         /\ {j.at[c] : c \in DOMAIN j.at} \subseteq {i.at[c] : c \in DOMAIN i.at}
  <2> SUFFICES ASSUME i.op = "br"
               PROVE  /\ j.at \in Seq(Nat) /\ Len(j.at) \in {1, 2} /\ (Len(j.at) = 2 => Len(j.args) = 1)
                      /\ \A c \in DOMAIN j.args : c \in DOMAIN i.args /\ j.args[c] = Replacement(i.args[c], truth)
                      /\ {j.at[c] : c \in DOMAIN j.at} \subseteq {i.at[c] : c \in DOMAIN i.at}
    OBVIOUS
  <2>1. \/ j.at = i.at /\ j.args = WithUses(i.args, truth)
        \/ LET c == Replacement(i.args[1], truth)
           IN  /\ Len(i.at) = 2 /\ IsConstant(c) /\ j.args = <<>>
               /\ j.at = <<i.at[IF ConstantValue[c] # 0 THEN 1 ELSE 2]>>
    BY <1>1, Zenon DEF Became
  <2>2. CASE j.at = i.at /\ j.args = WithUses(i.args, truth)
    BY <1>3, <1>4, <1>7, <2>2
  <2>3. ASSUME NEW d \in {1, 2}, Len(i.at) = 2, j.args = <<>>, j.at = <<i.at[d]>>
        PROVE  /\ j.at \in Seq(Nat) /\ Len(j.at) \in {1, 2} /\ (Len(j.at) = 2 => Len(j.args) = 1)
               /\ \A c \in DOMAIN j.args : c \in DOMAIN i.args /\ j.args[c] = Replacement(i.args[c], truth)
               /\ {j.at[c] : c \in DOMAIN j.at} \subseteq {i.at[c] : c \in DOMAIN i.at}
    <3>1. d \in DOMAIN i.at /\ i.at[d] \in Nat
      BY <1>4, <2>3, SMT
    <3>2. Len(j.at) = 1 /\ j.at \in Seq(Nat) /\ DOMAIN j.at = {1} /\ j.at[1] = i.at[d]
      BY <2>3, <3>1
    <3>3. DOMAIN j.args = {}
      BY <2>3
    <3> QED BY <3>1, <3>2, <3>3
  <2> QED BY <2>1, <2>2, <2>3
<1>11. Successors(EntryCode(mid), k) \subseteq Successors(EntryCode(m), k)
  BY <1>6, <1>10, Zenon DEF Successors, i, j
<1>12. BecameShape(m, mid, truth, k)
  BY <1>6, <1>8, <1>9, <1>10, Zenon DEF BecameShape, i, j
<1> QED BY <1>11, <1>12

\* a position that is left has an instruction of the same kind, every other is
\* erased
LEMMA LeftShape ==
    ASSUME NEW m, NEW avail, WellFormed(m), SelfContained(m, avail),
           NEW mid, NEW truth, NEW live, Rewrites(m, mid, truth, live), NEW k \in DOMAIN EntryCode(mid)
    PROVE  /\ k \in DOMAIN EntryCode(m)
           /\ EntryCode(mid)[k].op # "erased" => k \in live
           /\ k \notin live => EntryCode(mid)[k].op = "erased"
           /\ k \in live => /\ BecameShape(m, mid, truth, k)
                            /\ EntryCode(mid)[k].op = EntryCode(m)[k].op
                            /\ EntryCode(m)[k].op # "br" => EntryCode(mid)[k].dst = EntryCode(m)[k].dst
<1>1. Erased.op = "erased"
  BY DEF Erased, Instr
<1>2. k \in DOMAIN EntryCode(m) /\ (k \notin live => EntryCode(mid)[k] = Erased)
  BY Zenon DEF Rewrites
<1>3. k \in live => BecameShape(m, mid, truth, k)
  BY BecameIs
<1>4. k \in live => /\ EntryCode(mid)[k].op = EntryCode(m)[k].op
                    /\ EntryCode(m)[k].op # "br" => EntryCode(mid)[k].dst = EntryCode(m)[k].dst
  BY <1>3, Zenon DEF BecameShape
<1> QED BY <1>1, <1>2, <1>3, <1>4

\* what a debug intrinsic describes, and what is divided, is not replaced
LEMMA DescribedStays ==
    ASSUME NEW m, NEW avail, WellFormed(m), SelfContained(m, avail),
           NEW mid, NEW truth, NEW live, Rewrites(m, mid, truth, live), TruthNames(m, truth),
           NEW k \in live, EntryCode(m)[k].op \in {"dbg", "rem"}
    PROVE  /\ EntryCode(mid)[k].args[1] = EntryCode(m)[k].args[1]
           /\ EntryCode(mid)[k].name = EntryCode(m)[k].name
<1>1. k \in DOMAIN EntryCode(m)
  BY Zenon DEF Rewrites
<1>2. 1 \in DOMAIN EntryCode(m)[k].args
  <2>1. /\ EntryCode(m)[k].op = "dbg" => DOMAIN EntryCode(m)[k].args = 1 .. 1
        /\ EntryCode(m)[k].op = "rem" => DOMAIN EntryCode(m)[k].args = 1 .. 2
    BY <1>1, EntryShape, Zenon DEF BinaryOps
  <2>2. 1 \in 1 .. 1 /\ 1 \in 1 .. 2
    BY SMT
  <2> QED BY <2>1, <2>2, Zenon
<1>3. EntryCode(m)[k].args[1] \notin DOMAIN truth
  BY <1>1, Zenon DEF TruthNames
<1>4. BecameShape(m, mid, truth, k) /\ EntryCode(m)[k].op \notin {"phi", "br", "icmp"}
  BY BecameIs
<1> QED BY <1>2, <1>3, <1>4, Zenon DEF BecameShape, Replacement

\* The cleaned module is self-contained at the positions it has left.
LEMMA RewritesSelfContained ==
    ASSUME NEW m, NEW avail, WellFormed(m), SelfContained(m, avail), NEW mid,
           NEW truth, NEW live, Rewrites(m, mid, truth, live), live \subseteq DOMAIN avail,
           TruthNames(m, truth)
    PROVE  SelfContained(mid, [k \in live |-> avail[k]])
<1> DEFINE code == EntryCode(m)  new == EntryCode(mid)  left == [k \in live |-> avail[k]]
           f == m.body[m.entry]  g == mid.body[mid.entry]
<1>1. /\ mid.globals = m.globals /\ mid.pointers = m.pointers /\ g.params = f.params
      /\ DOMAIN new = DOMAIN code /\ f.code = code /\ g.code = new
      /\ 1 \in live /\ live \subseteq DOMAIN code
      /\ \A k \in live : Successors(new, k) \subseteq live
  BY Zenon DEF Rewrites, EntryCode
<1>2. ASSUME NEW k \in DOMAIN code
      PROVE  /\ new[k].op # "erased" => k \in live
             /\ k \notin live => new[k].op = "erased"
             /\ k \in live => new[k].op = code[k].op /\ (code[k].op # "br" => new[k].dst = code[k].dst)
  BY <1>1, LeftShape
<1>3. ASSUME NEW k \in live PROVE BecameShape(m, mid, truth, k) /\ Successors(new, k) \subseteq Successors(code, k)
  BY BecameIs
<1>4. ASSUME NEW k \in live, code[k].op \in {"dbg", "rem"}
      PROVE  new[k].args[1] = code[k].args[1] /\ new[k].name = code[k].name
  BY <1>4, DescribedStays
<1>5. "erased" \notin Defining /\ "br" \notin Defining /\ "dbg" \notin Defining /\ "icmp" \in Defining
  BY DEF Defining
<1>6. SingleAssignment(mid)
  <2>1. ASSUME NEW k \in DOMAIN code, new[k].op \in Defining
        PROVE  k \in live /\ code[k].op \in Defining /\ new[k].dst = code[k].dst
    <3>1. new[k].op # "erased" /\ new[k].op # "br"
      BY <1>5, <2>1
    <3> QED BY <1>2, <2>1, <3>1
  <2>2. \A j \in DOMAIN code : DefinedBy(new[j]) \subseteq DefinedBy(code[j])
    BY <2>1, Zenon DEF DefinedBy
  <2>3. \A j \in DOMAIN code : new[j].op = "dbg" => code[j].op = "dbg" /\ new[j].args[1] = code[j].args[1]
    BY <1>2, <1>4
  <2>4. SingleAssignment(m)
    BY Zenon DEF SelfContained
  <2>5. \A k \in DOMAIN code : code[k].op \in Defining =>
           /\ code[k].dst \notin m.pointers /\ ~IsConstant(code[k].dst)
           /\ \A j \in DOMAIN f.params : f.params[j] # code[k].dst
           /\ \A j \in DOMAIN code :
                 /\ code[k].dst \in DefinedBy(code[j]) => j = k
                 /\ code[j].op = "dbg" /\ code[j].args[1] = code[k].dst => k < j
    BY <1>1, <2>4, Zenon DEF SingleAssignment
  <2>6. ASSUME NEW k \in DOMAIN new, new[k].op \in Defining
        PROVE  /\ new[k].dst \notin m.pointers /\ ~IsConstant(new[k].dst)
               /\ \A j \in DOMAIN f.params : f.params[j] # new[k].dst
               /\ \A j \in DOMAIN new :
                     /\ new[k].dst \in DefinedBy(new[j]) => j = k
                     /\ new[j].op = "dbg" /\ new[j].args[1] = new[k].dst => k < j
    <3>1. k \in DOMAIN code /\ code[k].op \in Defining /\ new[k].dst = code[k].dst
      BY <1>1, <2>1, <2>6
    <3>2. \A j \in DOMAIN new : new[k].dst \in DefinedBy(new[j]) => j = k
      BY <1>1, <2>2, <2>5, <3>1
    <3>3. \A j \in DOMAIN new : new[j].op = "dbg" /\ new[j].args[1] = new[k].dst => k < j
      BY <1>1, <2>3, <2>5, <3>1
    <3> QED BY <2>5, <3>1, <3>2, <3>3
  <2>7. /\ \A j \in DOMAIN f.params : f.params[j] \notin m.pointers /\ ~IsConstant(f.params[j])
        /\ \A p \in m.pointers : ~IsConstant(p)
    BY <2>4, Zenon DEF SingleAssignment
  <2> QED BY <1>1, <2>6, <2>7, Zenon DEF SingleAssignment
<1>7. Dominated(m, avail)
  BY Zenon DEF SelfContained
<1>8. ASSUME NEW k \in live PROVE OperandsThere(mid, new[k], k, left)
  <2> DEFINE i == code[k]  j == new[k]
  <2>1. k \in DOMAIN avail /\ k \in DOMAIN code /\ j.op = i.op
    BY <1>1, <1>2
  <2>2. OperandsThere(m, i, k, avail)
    BY <1>1, <1>7, <2>1, Zenon DEF Dominated
  <2>3. BecameShape(m, mid, truth, k)
    BY <1>3
  <2> HIDE DEF i, j
  <2>4. CASE i.op = "load"
    <3>1. i.args[1] \in DOMAIN m.globals
      BY <2>2, <2>4, Zenon DEF OperandsThere
    <3>2. i.args[1] \in m.pointers
      <4>1. DOMAIN m.globals \subseteq m.pointers
        BY DEF WellFormed
      <4> QED BY <3>1, <4>1
    <3>3. 1 \in DOMAIN i.args
      <4>1. DOMAIN i.args = 1 .. 1
        BY <2>1, <2>4, EntryShape, Zenon DEF UnaryOps, i
      <4> QED BY <4>1, SMT
    <3>4. j.args[1] = i.args[1]
      <4>1. j.args[1] = Replacement(i.args[1], truth)
        <5>1. i.op \notin {"phi", "br", "icmp"}
          BY <2>4
        <5> QED BY <2>3, <3>3, <5>1, Zenon DEF BecameShape, i, j
      <4> QED BY <3>2, <4>1, ReplacementIs
    <3> QED BY <1>1, <2>1, <2>4, <3>1, <3>4, Zenon DEF OperandsThere, j
  <2>5. CASE i.op = "phi"
    <3>1. \A a \in DOMAIN j.args : \E c \in DOMAIN i.args :
             /\ j.args[a] = Replacement(i.args[c], truth)
             /\ j.at[a] = i.at[c] /\ i.at[c] \in live
      <4>1. Became(i, j, k, truth, live, new)
        BY Zenon DEF Rewrites, i, j
      <4> QED BY <2>5, <4>1, Zenon DEF Became
    <3>2. \A c \in DOMAIN i.args : i.at[c] \in DOMAIN avail => IsConstant(i.args[c]) \/ i.args[c] \in avail[i.at[c]]
      <4>1. i.op # "load"
        BY <2>5
      <4> QED BY <2>2, <2>5, <4>1, Zenon DEF OperandsThere
    <3>3. ASSUME NEW a \in DOMAIN j.args, j.at[a] \in DOMAIN left
          PROVE  IsConstant(j.args[a]) \/ j.args[a] \in left[j.at[a]]
      <4>1. PICK c \in DOMAIN i.args : /\ j.args[a] = Replacement(i.args[c], truth)
                                       /\ j.at[a] = i.at[c] /\ i.at[c] \in live
        BY <3>1
      <4>2. left[i.at[c]] = avail[i.at[c]]
        BY <4>1
      <4>3. IsConstant(i.args[c]) \/ i.args[c] \in avail[i.at[c]]
        BY <3>2, <4>1
      <4>4. j.args[a] = i.args[c] \/ IsConstant(j.args[a])
        BY <4>1, ReplacementIs
      <4> QED BY <4>1, <4>2, <4>3, <4>4
    <3>4. j.op = "phi" /\ j.op # "load"
      BY <2>1, <2>5
    <3> QED BY <3>3, <3>4, Zenon DEF OperandsThere, j
  <2>6. CASE i.op \notin {"load", "phi"}
    <3>1. \A c \in DOMAIN i.args : \/ IsConstant(i.args[c])
                                   \/ i.args[c] \in avail[k]
                                   \/ i.args[c] \in DOMAIN m.globals /\ i.op = "dbg"
      <4>1. i.op # "load" /\ i.op # "phi"
        BY <2>6
      <4> QED BY <2>2, <4>1, Zenon DEF OperandsThere
    <3>2. ASSUME NEW c \in DOMAIN j.args PROVE \E d \in DOMAIN i.args : j.args[c] = Replacement(i.args[d], truth)
      <4>1. CASE i.op = "icmp"
        <5>1. c \in 1 .. 2 /\ DOMAIN i.args = 1 .. 2
          BY <2>3, <3>2, <4>1, Zenon DEF BecameShape, i, j
        <5>2. /\ j.args[c] = Replacement(Normalised(i).args[c], truth)
              /\ \E d \in 1 .. 2 : Normalised(i).args[c] = i.args[d]
          BY <2>3, <4>1, <5>1, Zenon DEF BecameShape, i, j
        <5> QED BY <5>1, <5>2
      <4>2. CASE i.op = "br"
        BY <2>3, <4>2, Zenon DEF BecameShape, i, j
      <4>3. CASE i.op # "icmp" /\ i.op # "br"
        <5>1. i.op \notin {"phi", "br", "icmp"}
          BY <2>6, <4>3
        <5>2. DOMAIN j.args = DOMAIN i.args /\ \A d \in DOMAIN i.args : j.args[d] = Replacement(i.args[d], truth)
          BY <2>3, <5>1, Zenon DEF BecameShape, i, j
        <5> QED BY <5>2
      <4> QED BY <4>1, <4>2, <4>3
    <3>3. ASSUME NEW c \in DOMAIN j.args
          PROVE  \/ IsConstant(j.args[c])
                 \/ j.args[c] \in left[k]
                 \/ j.args[c] \in DOMAIN mid.globals /\ j.op = "dbg"
      <4>1. PICK d \in DOMAIN i.args : j.args[c] = Replacement(i.args[d], truth)
        BY <3>2
      <4>2. j.args[c] = i.args[d] \/ IsConstant(j.args[c])
        BY <4>1, ReplacementIs
      <4>3. left[k] = avail[k]
        OBVIOUS
      <4> QED BY <1>1, <2>1, <3>1, <4>2, <4>3
    <3>4. j.op # "load" /\ j.op # "phi"
      BY <2>1, <2>6
    <3> QED BY <3>3, <3>4, Zenon DEF OperandsThere, j
  <2> QED BY <2>4, <2>5, <2>6
<1>9. Dominated(mid, left)
  <2>1. ASSUME NEW k \in live, NEW s \in Successors(new, k)
        PROVE  s \in DOMAIN left /\ left[s] \subseteq left[k] \cup DefinedBy(new[k])
    <3>1. s \in live /\ s \in Successors(code, k) /\ k \in DOMAIN avail /\ k \in DOMAIN code
      BY <1>1, <1>3, <2>1
    <3>2. avail[s] \subseteq avail[k] \cup DefinedBy(code[k])
      BY <1>1, <1>7, <3>1, Zenon DEF Dominated
    <3>3. DefinedBy(new[k]) = DefinedBy(code[k])
      <4>1. new[k].op = code[k].op /\ (code[k].op # "br" => new[k].dst = code[k].dst)
        BY <1>2, <3>1
      <4> QED BY <1>5, <4>1, Zenon DEF DefinedBy
    <3>4. left[s] = avail[s] /\ left[k] = avail[k] /\ DOMAIN left = live
      BY <3>1
    <3> QED BY <3>1, <3>2, <3>3, <3>4
  <2>2. avail[1] \subseteq {f.params[j] : j \in DOMAIN f.params}
    BY <1>7, Zenon DEF Dominated
  <2>3. DOMAIN left = live /\ left[1] = avail[1]
    BY <1>1
  <2> HIDE DEF left
  <2> QED BY <1>1, <1>8, <2>1, <2>2, <2>3, Zenon DEF Dominated
<1>10. PhisHeadBlocks(mid, left)
  <2>1. PhisHeadBlocks(m, avail)
    BY Zenon DEF SelfContained
  <2>2. code[1].op # "phi"
    BY <1>1, <2>1, Zenon DEF PhisHeadBlocks
  <2>3. new[1].op # "phi"
    BY <1>1, <1>2, <2>2
  <2>4. ASSUME NEW k \in live, new[k].op = "phi"
        PROVE  /\ \A p \in live :
                     /\ k \in Successors(new, p) => new[p].op \in {"br", "phi"}
                     /\ new[p].op = "br" /\ Arrives(new, p, k) => \E j \in DOMAIN new[k].args : new[k].at[j] = p
               /\ \A i, j \in DOMAIN new[k].args :
                     new[k].at[i] = new[k].at[j] => new[k].args[i] = new[k].args[j]
    <3>1. code[k].op = "phi" /\ k \in DOMAIN avail /\ k \in DOMAIN code
      BY <1>1, <1>2, <2>4
    <3>2. /\ \A p \in DOMAIN avail :
                /\ k \in Successors(code, p) => code[p].op \in {"br", "phi"}
                /\ code[p].op = "br" /\ Arrives(code, p, k) => \E j \in DOMAIN code[k].args : code[k].at[j] = p
          /\ \A i, j \in DOMAIN code[k].args :
                code[k].at[i] = code[k].at[j] => code[k].args[i] = code[k].args[j]
      BY <1>1, <2>1, <3>1, Zenon DEF PhisHeadBlocks, EntryCode
    <3>3. /\ \A a \in DOMAIN new[k].args : \E c \in DOMAIN code[k].args :
                new[k].args[a] = Replacement(code[k].args[c], truth) /\ new[k].at[a] = code[k].at[c]
          /\ \A c \in DOMAIN code[k].args :
                code[k].at[c] \in live /\ Arrives(new, code[k].at[c], k) =>
                   \E a \in DOMAIN new[k].args : new[k].at[a] = code[k].at[c]
      <4>1. Became(code[k], new[k], k, truth, live, new)
        BY Zenon DEF Rewrites
      <4> QED BY <3>1, <4>1, Zenon DEF Became
    <3>4. ASSUME NEW p \in live, k \in Successors(new, p) PROVE new[p].op \in {"br", "phi"}
      <4>1. k \in Successors(code, p) /\ p \in DOMAIN avail /\ new[p].op = code[p].op
        BY <1>1, <1>2, <1>3, <3>4
      <4> QED BY <3>2, <4>1
    <3>5. ASSUME NEW p \in live, new[p].op = "br", Arrives(new, p, k)
          PROVE  \E j \in DOMAIN new[k].args : new[k].at[j] = p
      <4>1. PICK t \in Successors(new, p) : t <= k /\ \A j \in t .. k : new[j].op = "phi"
        BY <3>5, Zenon DEF Arrives
      <4>2. t \in Successors(code, p) /\ t \in live
        BY <1>1, <1>3, <4>1
      <4>3. \A j \in t .. k : j \in DOMAIN code
        BY <1>1, <3>1, <4>2, EntryShape, SMT
      <4>4. \A j \in t .. k : code[j].op = "phi"
        <5>1. "phi" # "erased"
          OBVIOUS
        <5> QED BY <1>2, <4>1, <4>3, <5>1
      <4>5. Arrives(code, p, k) /\ code[p].op = "br" /\ p \in DOMAIN avail
        BY <1>1, <1>2, <3>5, <4>1, <4>2, <4>4, Zenon DEF Arrives
      <4>6. PICK c \in DOMAIN code[k].args : code[k].at[c] = p
        BY <3>2, <4>5
      <4> QED BY <3>3, <3>5, <4>6
    <3>6. ASSUME NEW i \in DOMAIN new[k].args, NEW j \in DOMAIN new[k].args, new[k].at[i] = new[k].at[j]
          PROVE  new[k].args[i] = new[k].args[j]
      <4>1. PICK c \in DOMAIN code[k].args :
               new[k].args[i] = Replacement(code[k].args[c], truth) /\ new[k].at[i] = code[k].at[c]
        BY <3>3
      <4>2. PICK d \in DOMAIN code[k].args :
               new[k].args[j] = Replacement(code[k].args[d], truth) /\ new[k].at[j] = code[k].at[d]
        BY <3>3
      <4>3. code[k].at[c] = code[k].at[d]
        BY <3>6, <4>1, <4>2
      <4>4. code[k].args[c] = code[k].args[d]
        BY <3>2, <4>3
      <4> QED BY <4>1, <4>2, <4>4
    <3> QED BY <3>4, <3>5, <3>6
  <2>5. DOMAIN left = live
    OBVIOUS
  <2> QED BY <1>1, <2>3, <2>4, <2>5, Zenon DEF PhisHeadBlocks, EntryCode
<1>11. OwnInstructions(m)
  BY Zenon DEF SelfContained
<1>12. OwnInstructions(mid)
  <2> SUFFICES ASSUME NEW k \in DOMAIN new
               PROVE  LET i == new[k]
                      IN  /\ i.op \in Defining \cup {"dbg", "br", "ret", "erased"}
                          /\ i.op = "br" => /\ i.at \in Seq(Nat) /\ Len(i.at) \in {1, 2}
                                            /\ Len(i.at) = 2 => Len(i.args) = 1
                          /\ i.op = "dbg" => ~IsConstant(i.args[1])
                          /\ i.op = "ret" => Len(i.args) <= 1
    BY <1>1, Zenon DEF OwnInstructions
  <2>1. CASE k \notin live
    <3>1. new[k].op = "erased"
      BY <1>1, <1>2, <2>1
    <3> QED BY <3>1
  <2>2. CASE k \in live
    <3>1. new[k].op = code[k].op /\ k \in DOMAIN code /\ BecameShape(m, mid, truth, k)
      BY <1>1, <1>2, <1>3, <2>2
    <3>2. /\ code[k].op \in Defining \cup {"dbg", "br", "ret", "erased"}
          /\ code[k].op = "dbg" => ~IsConstant(code[k].args[1])
          /\ code[k].op = "ret" => Len(code[k].args) <= 1
      BY <1>1, <1>11, <3>1, Zenon DEF OwnInstructions
    <3>3. code[k].op = "br" => /\ new[k].at \in Seq(Nat) /\ Len(new[k].at) \in {1, 2}
                               /\ Len(new[k].at) = 2 => Len(new[k].args) = 1
      BY <3>1, Zenon DEF BecameShape
    <3>4. code[k].op = "ret" => Len(new[k].args) <= 1
      <4>1. code[k].op = "ret" => Len(new[k].args) = Len(code[k].args)
        <5>1. code[k].op = "ret" => code[k].op \notin {"phi", "br", "icmp"}
          OBVIOUS
        <5> QED BY <3>1, <5>1, Zenon DEF BecameShape
      <4> QED BY <3>2, <4>1
    <3>5. code[k].op = "dbg" => new[k].args[1] = code[k].args[1]
      BY <1>4, <2>2
    <3> QED BY <3>1, <3>2, <3>3, <3>4, <3>5
  <2> QED BY <2>1, <2>2
<1>13. ChecksFirst(mid)
  <2>1. ASSUME NEW k \in DOMAIN new, NEW j \in DOMAIN new, new[k].op = "dbg", new[j].op = "br",
               NEW s \in Successors(new, j)
        PROVE  k < s
    <3>1. code[k].op = "dbg" /\ code[j].op = "br" /\ j \in live /\ k \in DOMAIN code /\ j \in DOMAIN code
      BY <1>1, <1>2, <2>1
    <3>2. s \in Successors(code, j)
      BY <1>3, <2>1, <3>1
    <3> QED BY <1>1, <3>1, <3>2, Zenon DEF SelfContained, ChecksFirst
  <2> QED BY <1>1, <2>1, Zenon DEF ChecksFirst
<1>14. TruthsApart(mid)
  <2>1. ASSUME NEW k \in DOMAIN new, NEW j \in DOMAIN new, new[k].op = "icmp", new[j].op \in {"rem", "dbg"}
        PROVE  new[j].args[1] # new[k].dst
    <3>1. k \in DOMAIN code /\ j \in DOMAIN code /\ j \in live /\ k \in live
      BY <1>1, <1>2, <2>1
    <3>2. code[k].op = "icmp" /\ new[k].dst = code[k].dst /\ code[j].op \in {"rem", "dbg"}
      BY <1>2, <2>1, <3>1
    <3>3. new[j].args[1] = code[j].args[1]
      BY <1>4, <3>1, <3>2
    <3> QED BY <1>1, <3>1, <3>2, <3>3, Zenon DEF SelfContained, TruthsApart
  <2> QED BY <1>1, <2>1, Zenon DEF TruthsApart
<1> QED BY <1>6, <1>9, <1>10, <1>12, <1>13, <1>14, Zenon DEF SelfContained

\* the other shapes a run is followed through: debug intrinsics come before the
\* end, constants of equalities are what they are when zero-extended
Plain(m) ==
    \A k \in DOMAIN EntryCode(m) :
        /\ EntryCode(m)[k].op = "dbg" =>
              \A j \in DOMAIN EntryCode(m) : EntryCode(m)[j].op = "ret" => k < j
        /\ EntryCode(m)[k].op = "icmp" /\ EntryCode(m)[k].name \in {"eq", "ne"} =>
              \A c \in 1 .. 2 : IsConstant(EntryCode(m)[k].args[c]) => ConstantValue[EntryCode(m)[k].args[c]] >= 0

\* The shapes that are trusted are the ones the comparisons are judged by.
LEMMA TrustedPlain ==
    ASSUME Trusted, WellFormed(source)
    PROVE  Plain(source)
<1> SUFFICES ASSUME NEW k \in DOMAIN EntryCode(source)
             PROVE  /\ EntryCode(source)[k].op = "dbg" =>
                          \A j \in DOMAIN EntryCode(source) : EntryCode(source)[j].op = "ret" => k < j
                    /\ EntryCode(source)[k].op = "icmp" /\ EntryCode(source)[k].name \in {"eq", "ne"} =>
                          \A c \in 1 .. 2 : IsConstant(EntryCode(source)[k].args[c]) =>
                                               ConstantValue[EntryCode(source)[k].args[c]] >= 0
  BY DEF Plain
<1>1. source.entry \in Functions /\ CodeOf(source.entry) = EntryCode(source)
  BY EntryShape DEF Functions, CodeOf, EntryCode
<1>2. EntryCode(source)[k] \in AllInstrs
  BY <1>1 DEF AllInstrs, InstrsOf
<1>3. EntryCode(source)[k].op = "icmp" /\ EntryCode(source)[k].name \in {"eq", "ne"} =>
         \A c \in 1 .. 2 : IsConstant(EntryCode(source)[k].args[c]) =>
                              ConstantValue[EntryCode(source)[k].args[c]] >= 0
  BY <1>2, Zenon DEF Trusted, PlainEqualities
<1>4. \A j \in DOMAIN EntryCode(source) :
          EntryCode(source)[k].op = "dbg" /\ EntryCode(source)[j].op \in {"br", "call", "ret"} => k < j
  BY <1>1, Zenon DEF Trusted, SeedsDominate
<1> QED BY <1>3, <1>4

\* What is cleaned still follows the rules.
LEMMA RewritesFollow ==
    ASSUME NEW m, NEW avail, WellFormed(m), SelfContained(m, avail), Follow(m), NEW mid,
           NEW truth, NEW live, Rewrites(m, mid, truth, live), TruthNames(m, truth),
           \A n \in DOMAIN truth : ConstantValue[truth[n]] >= 0
    PROVE  Follow(mid)
<1> DEFINE code == EntryCode(m)  new == EntryCode(mid)
<1>1. ASSUME NEW k \in DOMAIN new
      PROVE  /\ k \in DOMAIN code
             /\ new[k].op # "erased" => k \in live
             /\ k \in live => BecameShape(m, mid, truth, k) /\ new[k].op = code[k].op
             /\ k \notin live => new[k].op = "erased"
  BY LeftShape
<1>2. ASSUME NEW k \in DOMAIN new PROVE KeepsOrder(new[k])
  <2>1. CASE k \notin live
    <3>1. new[k].op = "erased"
      BY <1>1, <2>1
    <3> QED BY <3>1, Zenon DEF KeepsOrder
  <2>2. CASE k \in live
    <3>1. k \in DOMAIN code /\ new[k].op = code[k].op /\ BecameShape(m, mid, truth, k) /\ KeepsOrder(code[k])
      BY <1>1, <2>2 DEF Follow
    <3>2. ASSUME code[k].op = "mul", NEW c \in 1 .. 2, IsConstant(new[k].args[c])
          PROVE  ConstantValue[new[k].args[c]] >= 0
      <4>1. DOMAIN code[k].args = 1 .. 2
        BY <3>1, <3>2, EntryShape, Zenon DEF BinaryOps
      <4>2. new[k].args[c] = Replacement(code[k].args[c], truth)
        <5>1. code[k].op \notin {"phi", "br", "icmp"}
          BY <3>2
        <5> QED BY <3>1, <3>2, <4>1, <5>1, Zenon DEF BecameShape
      <4>3. IsConstant(code[k].args[c]) => ConstantValue[code[k].args[c]] >= 0
        BY <3>1, <3>2, Zenon DEF KeepsOrder
      <4>4. CASE code[k].args[c] \in DOMAIN truth
        BY <4>2, <4>4, Zenon DEF Replacement
      <4>5. CASE code[k].args[c] \notin DOMAIN truth
        BY <3>2, <4>2, <4>3, <4>5, Zenon DEF Replacement
      <4> QED BY <4>4, <4>5
    <3>3. ASSUME code[k].op = "rem" PROVE ~IsConstant(new[k].args[1])
      <4>1. new[k].args[1] = code[k].args[1]
        BY <2>2, <3>3, DescribedStays
      <4> QED BY <3>1, <3>3, <4>1, Zenon DEF KeepsOrder
    <3>4. code[k].op # "fneg"
      BY <3>1, Zenon DEF KeepsOrder
    <3> QED BY <3>1, <3>2, <3>3, <3>4, Zenon DEF KeepsOrder
  <2> QED BY <2>1, <2>2
<1>3. ASSUME NEW k \in DOMAIN new, NEW j \in DOMAIN new, new[k].op = "dbg", new[j].op = "br" PROVE k < j
  <2>1. k \in DOMAIN code /\ j \in DOMAIN code /\ code[k].op = "dbg" /\ code[j].op = "br"
    BY <1>1, <1>3
  <2> QED BY <2>1, Zenon DEF Follow
<1> QED BY <1>2, <1>3 DEF Follow

-----------------------------------------------------------------------------
(* A verdict is what the comparison gives.                                 *)

\* two values, in the ranges their comparison is judged by
LEMMA VerdictIs ==
    ASSUME NEW b \in Bounds, NEW regs, NEW j, NEW v, NEW w, j.args[1] = v, j.args[2] = w,
           OperandIn(b, regs, v), OperandIn(b, regs, w),
           j.name \in {"eq", "ne"} /\ IsConstant(w) => ConstantValue[w] >= 0
    PROVE  /\ Verdict(b, j) = "AlwaysTrue" => Holds(j.name, Value(regs, v), Value(regs, w))
           /\ Verdict(b, j) = "AlwaysFalse" => ~Holds(j.name, Value(regs, v), Value(regs, w))
<1> DEFINE ls == OperandRange(b, v)  rs == ComparedRange(b, j.name, w)
           x == Value(regs, v)  y == Value(regs, w)
<1>1. x \in Int /\ y \in Int /\ \A r \in ls : r \in RangePairs /\ In(x, r)
  BY DEF OperandIn
<1>2. \A r \in rs : r \in RangePairs /\ In(y, r)
  <2>1. CASE IsConstant(w) /\ j.name \in {"eq", "ne"}
    <3> DEFINE c == ConstantValue[w]  top == 2^Width
    <3>1. c \in Int /\ c >= 0 /\ c < top /\ top \in Nat
      BY <2>1, ConstantAssumption, WidthAssumption DEF IsConstant
    <3>2. rs = {Point(c % top)} /\ y = c
      BY <2>1, Zenon DEF ComparedRange, Value
    <3> HIDE DEF c, top, rs, y
    <3>3. c % top = c
      BY <3>1, SMT
    <3>4. Point(c) \in RangePairs /\ In(c, Point(c))
      BY <3>1, SMT DEF Point, Pair, In, RangePairs
    <3> QED BY <3>2, <3>3, <3>4
  <2>2. CASE ~(IsConstant(w) /\ j.name \in {"eq", "ne"})
    <3>1. rs = OperandRange(b, w)
      BY <2>2, Zenon DEF ComparedRange
    <3> QED BY <3>1 DEF OperandIn
  <2> QED BY <2>1, <2>2
<1> DEFINE l == CHOOSE l \in ls : TRUE  r == CHOOSE r \in rs : TRUE
<1>3. Verdict(b, j) # "Depends" => ls # {} /\ rs # {} /\ Verdict(b, j) = compareICmp(j.name, l, r)
  BY Zenon DEF Verdict
<1> HIDE DEF ls, rs, x, y
<1>4. SUFFICES ASSUME Verdict(b, j) # "Depends"
               PROVE  /\ Verdict(b, j) = "AlwaysTrue" => Holds(j.name, x, y)
                      /\ Verdict(b, j) = "AlwaysFalse" => ~Holds(j.name, x, y)
  BY Zenon DEF x, y
<1>5. l \in ls /\ r \in rs
  BY <1>3, <1>4
<1> HIDE DEF l, r
<1>6. l \in RangePairs /\ r \in RangePairs /\ In(x, l) /\ In(y, r)
  BY <1>1, <1>2, <1>5
<1> QED BY <1>1, <1>3, <1>4, <1>6, FoldIsRight

\* exchanged operands, for whatever is compared
LEMMA SwappedHolds ==
    ASSUME NEW pred, NEW x \in Int, NEW y \in Int
    PROVE  Holds(Swapped(pred), y, x) <=> Holds(pred, x, y)
<1>1. CASE pred \in {"eq", "ne", "slt", "sle", "sgt", "sge"}
  BY <1>1, SwapIsRight
<1>2. CASE pred \notin {"eq", "ne", "slt", "sle", "sgt", "sge"}
  <2>1. Swapped(pred) = pred
    BY <1>2, Zenon DEF Swapped
  <2> QED BY <1>2, <2>1, Zenon DEF Holds
<1> QED BY <1>1, <1>2

\* the comparison, as it is judged, compares the same
LEMMA NormalisedHolds ==
    ASSUME NEW i, NEW regs, Value(regs, i.args[1]) \in Int, Value(regs, i.args[2]) \in Int
    PROVE  /\ Holds(Normalised(i).name, Value(regs, Normalised(i).args[1]), Value(regs, Normalised(i).args[2]))
              <=> Holds(i.name, Value(regs, i.args[1]), Value(regs, i.args[2]))
           /\ \/ Normalised(i) = i
              \/ /\ Normalised(i).args[1] = i.args[2] /\ Normalised(i).args[2] = i.args[1]
                 /\ Normalised(i).name = Swapped(i.name)
<1> DEFINE j == Compare(Swapped(i.name), i.dst, i.args[2], i.args[1])
<1>1. j.args = <<i.args[2], i.args[1]>> /\ j.name = Swapped(i.name)
  BY DEF Compare, Instr
<1>2. j.args[1] = i.args[2] /\ j.args[2] = i.args[1]
  BY <1>1
<1>3. Normalised(i) = i \/ Normalised(i) = j
  BY Zenon DEF Normalised
<1> HIDE DEF j
<1>4. CASE Normalised(i) = i
  BY <1>4
<1>5. CASE Normalised(i) = j
  BY <1>1, <1>2, <1>5, SwappedHolds
<1> QED BY <1>3, <1>4, <1>5

\* A comparison that is decided gives what was decided.
LEMMA DecidedRight ==
    ASSUME NEW b \in Bounds, NEW regs, NEW i, OperandIn(b, regs, i.args[1]), OperandIn(b, regs, i.args[2]),
           i.name \in {"eq", "ne"} => \A c \in 1 .. 2 : IsConstant(i.args[c]) => ConstantValue[i.args[c]] >= 0
    PROVE  /\ Verdict(b, Normalised(i)) = "AlwaysTrue" => Holds(i.name, Value(regs, i.args[1]), Value(regs, i.args[2]))
           /\ Verdict(b, Normalised(i)) = "AlwaysFalse" => ~Holds(i.name, Value(regs, i.args[1]), Value(regs, i.args[2]))
<1> DEFINE j == Normalised(i)
<1>1. Value(regs, i.args[1]) \in Int /\ Value(regs, i.args[2]) \in Int
  BY DEF OperandIn
<1>2. /\ Holds(j.name, Value(regs, j.args[1]), Value(regs, j.args[2]))
         <=> Holds(i.name, Value(regs, i.args[1]), Value(regs, i.args[2]))
      /\ \/ j = i
         \/ j.args[1] = i.args[2] /\ j.args[2] = i.args[1] /\ j.name = Swapped(i.name)
  BY <1>1, NormalisedHolds
<1>3. OperandIn(b, regs, j.args[1]) /\ OperandIn(b, regs, j.args[2])
  BY <1>2
<1>4. j.name \in {"eq", "ne"} /\ IsConstant(j.args[2]) => ConstantValue[j.args[2]] >= 0
  <2>1. 1 \in 1 .. 2 /\ 2 \in 1 .. 2
    BY SMT
  <2>2. CASE j = i
    BY <2>1, <2>2
  <2>3. CASE j.args[2] = i.args[1] /\ j.name = Swapped(i.name)
    <3>1. Swapped(i.name) \in {"eq", "ne"} => i.name \in {"eq", "ne"}
      <4>1. CASE i.name \in {"slt", "sle", "sgt", "sge"}
        BY <4>1, SMT DEF Swapped
      <4>2. CASE i.name \notin {"slt", "sle", "sgt", "sge"}
        <5>1. Swapped(i.name) = i.name
          BY <4>2, Zenon DEF Swapped
        <5> QED BY <5>1
      <4> QED BY <4>1, <4>2
    <3> QED BY <2>1, <2>3, <3>1
  <2> QED BY <1>2, <2>2, <2>3
<1> HIDE DEF j
<1>5. /\ Verdict(b, j) = "AlwaysTrue" => Holds(j.name, Value(regs, j.args[1]), Value(regs, j.args[2]))
      /\ Verdict(b, j) = "AlwaysFalse" => ~Holds(j.name, Value(regs, j.args[1]), Value(regs, j.args[2]))
  BY <1>3, <1>4, VerdictIs
<1> QED BY <1>2, <1>5 DEF j

-----------------------------------------------------------------------------
(* Two modules whose instructions at a position see the same values.       *)

\* the variable of a debug intrinsic, the target of a branch, what is returned
Described(m, i, regs) == IF i.args[1] \in m.pointers THEN m.globals[Value(regs, i.args[1])]
                         ELSE Value(regs, i.args[1])
Target(i, regs)   == i.at[IF Len(i.at) = 1 \/ Value(regs, i.args[1]) # 0 THEN 1 ELSE 2]
Returned(i, regs) == IF i.args = <<>> THEN 0 ELSE Value(regs, i.args[1])

\* i and j, at position pos, do the same with the registers each of them sees
Alike(m, q, i, j, pos, from, regs, seen) ==
    /\ j.op = i.op /\ i.op \in Defining \cup {"dbg", "br", "ret", "erased"}
    /\ i.op = "dbg" => j.name = i.name /\ Described(q, j, seen) = Described(m, i, regs)
    /\ i.op = "rem" => Value(seen, j.args[2]) = Value(regs, i.args[2])
    /\ i.op \in Defining =>
          /\ j.dst = i.dst
          /\ \A st, res : Result(Mach(q, pos, from, seen, st, res), Act(q, pos, from, seen), j) =
                             Result(Mach(m, pos, from, regs, st, res), Act(m, pos, from, regs), i)
    /\ i.op = "br" => Target(j, seen) = Target(i, regs)
    /\ i.op = "ret" => Returned(j, seen) = Returned(i, regs)

\* modules with the same entry function and globals have the same machines
LEMMA SameMachine ==
    ASSUME NEW m, NEW q, q.entry = m.entry, q.globals = m.globals,
           NEW pos, NEW from, NEW regs, NEW st, NEW res
    PROVE  Mach(q, pos, from, regs, st, res) = Mach(m, pos, from, regs, st, res)
BY DEF Mach, Act

\* a machine is at one position, with one set of registers
LEMMA MachineIs ==
    ASSUME NEW m, NEW pos, NEW from, NEW regs, NEW st, NEW res,
           NEW pos2, NEW from2, NEW regs2, NEW st2, NEW res2,
           Mach(m, pos, from, regs, st, res) = Mach(m, pos2, from2, regs2, st2, res2)
    PROVE  pos = pos2 /\ from = from2 /\ regs = regs2 /\ st = st2 /\ res = res2
<1> DEFINE a == Mach(m, pos, from, regs, st, res)  b == Mach(m, pos2, from2, regs2, st2, res2)
<1>1. /\ a.stack[1] = Act(m, pos, from, regs) /\ b.stack[1] = Act(m, pos2, from2, regs2)
  BY MachineReads
<1>2. a.status = st /\ a.result = res /\ b.status = st2 /\ b.result = res2
  BY DEF Mach
<1> HIDE DEF a, b
<1>3. a = b
  BY DEF a, b
<1>4. Act(m, pos, from, regs) = Act(m, pos2, from2, regs2)
  BY <1>1, <1>3
<1>5. pos = pos2 /\ from = from2 /\ regs = regs2
  <2>1. /\ Act(m, pos, from, regs).pos = pos /\ Act(m, pos, from, regs).from = from
        /\ Act(m, pos, from, regs).regs = regs
    BY DEF Act
  <2>2. /\ Act(m, pos2, from2, regs2).pos = pos2 /\ Act(m, pos2, from2, regs2).from = from2
        /\ Act(m, pos2, from2, regs2).regs = regs2
    BY DEF Act
  <2> QED BY <1>4, <2>1, <2>2, Zenon
<1> QED BY <1>2, <1>3, <1>5

\* steps to the same position, with the registers that were seen, or with a
\* register more
StepsAlike(m, i, regs, seen, next, then) ==
    \E pos2, from2, st2, res2 :
        \/ /\ next = Mach(m, pos2, from2, regs, st2, res2)
           /\ then = Mach(m, pos2, from2, seen, st2, res2)
           /\ i.op \in Defining => st2 # "running"
        \/ \E v : /\ i.op \in Defining
                  /\ next = Mach(m, pos2, from2, Update(regs, i.dst, v), st2, res2)
                  /\ then = Mach(m, pos2, from2, Update(seen, i.dst, v), st2, res2)

\* Where instructions do the same, so do the steps.
LEMMA AlikeStep ==
    ASSUME NEW m, NEW q, q.entry = m.entry, q.globals = m.globals, q.pointers = m.pointers,
           NEW pos, NEW from, NEW regs, NEW seen, NEW st, NEW res,
           Alike(m, q, EntryCode(m)[pos], EntryCode(q)[pos], pos, from, regs, seen)
    PROVE  StepsAlike(m, EntryCode(m)[pos], regs, seen,
                      Step(m, TypeRange, Mach(m, pos, from, regs, st, res)),
                      Step(q, TypeRange, Mach(m, pos, from, seen, st, res)))
<1> DEFINE i == EntryCode(m)[pos]  j == EntryCode(q)[pos]
           next == Step(m, TypeRange, Mach(m, pos, from, regs, st, res))
           then == Step(q, TypeRange, Mach(m, pos, from, seen, st, res))
           Goal == StepsAlike(m, i, regs, seen, next, then)
<1>1. StepIs(m, pos, from, regs, st, res, next)
  BY OneStep
<1>2. StepIs(q, pos, from, seen, st, res, then)
  <2>1. Mach(q, pos, from, seen, st, res) = Mach(m, pos, from, seen, st, res)
    BY SameMachine
  <2>2. StepIs(q, pos, from, seen, st, res, Step(q, TypeRange, Mach(q, pos, from, seen, st, res)))
    BY OneStep
  <2> QED BY <2>1, <2>2
<1>3. \A p, f, r, s, t : Mach(q, p, f, r, s, t) = Mach(m, p, f, r, s, t)
  BY SameMachine
<1> SUFFICES Goal
  BY Zenon
<1> HIDE DEF next, then, i, j
<1>4. /\ i.op = "dbg" =>
           IF i.name \in DOMAIN TypeRange /\ ~In(Described(m, i, regs), TypeRange[i.name])
           THEN next = Mach(m, pos, from, regs, "outOfSpecification", res)
           ELSE next = Mach(m, pos + 1, from, regs, st, res)
      /\ i.op = "rem" /\ Value(regs, i.args[2]) = 0 => next = Mach(m, pos, from, regs, "undefined", res)
      /\ i.op \in Defining /\ ~(i.op = "rem" /\ Value(regs, i.args[2]) = 0) =>
           next = Mach(m, pos + 1, from,
                       Update(regs, i.dst, Result(Mach(m, pos, from, regs, st, res), Act(m, pos, from, regs), i)), st, res)
      /\ i.op = "br" => next = Mach(m, Target(i, regs), pos, regs, st, res)
      /\ i.op = "erased" => next = Mach(m, pos + 1, from, regs, st, res)
      /\ i.op = "ret" => next = Mach(m, pos, from, regs, "returned", Returned(i, regs))
  BY <1>1, Zenon DEF StepIs, Described, Target, Returned, i
<1>5. /\ j.op = "dbg" =>
           IF j.name \in DOMAIN TypeRange /\ ~In(Described(q, j, seen), TypeRange[j.name])
           THEN then = Mach(q, pos, from, seen, "outOfSpecification", res)
           ELSE then = Mach(q, pos + 1, from, seen, st, res)
      /\ j.op = "rem" /\ Value(seen, j.args[2]) = 0 => then = Mach(q, pos, from, seen, "undefined", res)
      /\ j.op \in Defining /\ ~(j.op = "rem" /\ Value(seen, j.args[2]) = 0) =>
           then = Mach(q, pos + 1, from,
                       Update(seen, j.dst, Result(Mach(q, pos, from, seen, st, res), Act(q, pos, from, seen), j)), st, res)
      /\ j.op = "br" => then = Mach(q, Target(j, seen), pos, seen, st, res)
      /\ j.op = "erased" => then = Mach(q, pos + 1, from, seen, st, res)
      /\ j.op = "ret" => then = Mach(q, pos, from, seen, "returned", Returned(j, seen))
  BY <1>2, Zenon DEF StepIs, Described, Target, Returned, j
<1>6. Alike(m, q, i, j, pos, from, regs, seen)
  BY DEF i, j
<1>7. i.op \in Defining \cup {"dbg", "br", "ret", "erased"} /\ j.op = i.op
  BY <1>6 DEF Alike
<1>8. {"dbg", "br", "ret", "erased"} \cap Defining = {}
  BY DEF Defining
\* both stay at one set of registers
<1>14. ASSUME NEW p, NEW f, NEW s, NEW t, i.op \notin Defining,
              next = Mach(m, p, f, regs, s, t), then = Mach(q, p, f, seen, s, t)
       PROVE  Goal
  <2>1. then = Mach(m, p, f, seen, s, t)
    BY <1>3, <1>14
  <2> QED BY <1>14, <2>1, Zenon DEF StepsAlike
<1>15. ASSUME NEW p, NEW f, NEW s, NEW t, s # "running",
              next = Mach(m, p, f, regs, s, t), then = Mach(m, p, f, seen, s, t)
       PROVE  Goal
  BY <1>15 DEF StepsAlike
<1> HIDE DEF Goal
<1>9. CASE i.op = "dbg"
  <2>1. j.name = i.name /\ Described(q, j, seen) = Described(m, i, regs) /\ i.op \notin Defining /\ j.op = "dbg"
    BY <1>6, <1>8, <1>9, Zenon DEF Alike
  <2>2. CASE i.name \in DOMAIN TypeRange /\ ~In(Described(m, i, regs), TypeRange[i.name])
    <3>1. next = Mach(m, pos, from, regs, "outOfSpecification", res)
      BY <1>4, <1>9, <2>2, Zenon
    <3>2. then = Mach(q, pos, from, seen, "outOfSpecification", res)
      BY <1>5, <2>1, <2>2, Zenon
    <3> QED BY <1>14, <2>1, <3>1, <3>2
  <2>3. CASE ~(i.name \in DOMAIN TypeRange /\ ~In(Described(m, i, regs), TypeRange[i.name]))
    <3>1. next = Mach(m, pos + 1, from, regs, st, res)
      BY <1>4, <1>9, <2>3, Zenon
    <3>2. then = Mach(q, pos + 1, from, seen, st, res)
      BY <1>5, <2>1, <2>3, Zenon
    <3> QED BY <1>14, <2>1, <3>1, <3>2
  <2> QED BY <2>2, <2>3
<1>10. CASE i.op = "br"
  <2>1. Target(j, seen) = Target(i, regs) /\ i.op \notin Defining /\ j.op = "br"
    BY <1>6, <1>8, <1>10, Zenon DEF Alike
  <2>2. next = Mach(m, Target(i, regs), pos, regs, st, res)
    BY <1>4, <1>10, Zenon
  <2>3. then = Mach(q, Target(i, regs), pos, seen, st, res)
    BY <1>5, <2>1, Zenon
  <2> QED BY <1>14, <2>1, <2>2, <2>3
<1>11. CASE i.op = "erased"
  <2>1. i.op \notin Defining /\ j.op = "erased"
    BY <1>7, <1>8, <1>11
  <2>2. next = Mach(m, pos + 1, from, regs, st, res)
    BY <1>4, <1>11, Zenon
  <2>3. then = Mach(q, pos + 1, from, seen, st, res)
    BY <1>5, <2>1, Zenon
  <2> QED BY <1>14, <2>1, <2>2, <2>3
<1>12. CASE i.op = "ret"
  <2>1. Returned(j, seen) = Returned(i, regs) /\ i.op \notin Defining /\ j.op = "ret"
    BY <1>6, <1>8, <1>12, Zenon DEF Alike
  <2>2. next = Mach(m, pos, from, regs, "returned", Returned(i, regs))
    BY <1>4, <1>12, Zenon
  <2>3. then = Mach(q, pos, from, seen, "returned", Returned(i, regs))
    BY <1>5, <2>1, Zenon
  <2> QED BY <1>14, <2>1, <2>2, <2>3
<1>13. CASE i.op \in Defining
  <2>1. /\ j.dst = i.dst
        /\ i.op = "rem" => Value(seen, j.args[2]) = Value(regs, i.args[2])
    BY <1>6, <1>13, Zenon DEF Alike
  <2> DEFINE v == Result(Mach(m, pos, from, regs, st, res), Act(m, pos, from, regs), i)
             w == Result(Mach(q, pos, from, seen, st, res), Act(q, pos, from, seen), j)
  <2>2. w = v
    BY <1>6, <1>13, Zenon DEF Alike
  <2> HIDE DEF v, w
  <2>3. CASE i.op = "rem" /\ Value(regs, i.args[2]) = 0
    <3>1. next = Mach(m, pos, from, regs, "undefined", res)
      BY <1>4, <2>3, Zenon
    <3>2. j.op = "rem" /\ Value(seen, j.args[2]) = 0
      BY <1>7, <2>1, <2>3, Zenon
    <3>3. then = Mach(m, pos, from, seen, "undefined", res)
      BY <1>3, <1>5, <3>2, Zenon
    <3>4. "undefined" # "running"
      OBVIOUS
    <3> QED BY <1>15, <3>1, <3>3, <3>4
  <2>4. CASE ~(i.op = "rem" /\ Value(regs, i.args[2]) = 0)
    <3>1. next = Mach(m, pos + 1, from, Update(regs, i.dst, v), st, res)
      BY <1>4, <1>13, <2>4, Zenon DEF v
    <3>2. j.op \in Defining /\ ~(j.op = "rem" /\ Value(seen, j.args[2]) = 0)
      BY <1>7, <1>13, <2>1, <2>4, Zenon
    <3>3. then = Mach(m, pos + 1, from, Update(seen, i.dst, w), st, res)
      <4>1. then = Mach(q, pos + 1, from, Update(seen, j.dst, w), st, res)
        BY <1>5, <3>2, Zenon DEF w
      <4>2. then = Mach(m, pos + 1, from, Update(seen, j.dst, w), st, res)
        BY <1>3, <4>1
      <4> QED BY <2>1, <4>2, Zenon
    <3> QED BY <1>13, <2>2, <3>1, <3>3, Zenon DEF Goal, StepsAlike
  <2> QED BY <2>3, <2>4
<1> QED BY <1>7, <1>9, <1>10, <1>11, <1>12, <1>13, Zenon

\* the operands two instructions of the same kind compute with
SameOperands(i, j, from, regs, seen) ==
    /\ i.op \in BinaryOps => /\ Value(seen, j.args[1]) = Value(regs, i.args[1])
                              /\ Value(seen, j.args[2]) = Value(regs, i.args[2])
    /\ i.op \in UnaryOps => Value(seen, j.args[1]) = Value(regs, i.args[1]) /\ j.name = i.name
    /\ i.op = "icmp" => (Holds(j.name, Value(seen, j.args[1]), Value(seen, j.args[2]))
                            <=> Holds(i.name, Value(regs, i.args[1]), Value(regs, i.args[2])))
    /\ i.op = "phi" => Value(seen, j.args[Taken(j, from)]) = Value(regs, i.args[Taken(i, from)])

\* what they compute is the same
LEMMA ResultAlike ==
    ASSUME NEW m, NEW q, q.globals = m.globals, NEW pos, NEW from, NEW regs, NEW seen, NEW i, NEW j,
           j.op = i.op, i.op \in Defining, NEW st, NEW res,
           SameOperands(i, j, from, regs, seen)
    PROVE  Result(Mach(q, pos, from, seen, st, res), Act(q, pos, from, seen), j) =
              Result(Mach(m, pos, from, regs, st, res), Act(m, pos, from, regs), i)
<1> DEFINE f == Act(m, pos, from, regs)  g == Act(q, pos, from, seen)
           a == Mach(m, pos, from, regs, st, res)  b == Mach(q, pos, from, seen, st, res)
<1>0. /\ i.op \in BinaryOps => /\ Value(seen, j.args[1]) = Value(regs, i.args[1])
                                 /\ Value(seen, j.args[2]) = Value(regs, i.args[2])
      /\ i.op \in UnaryOps => Value(seen, j.args[1]) = Value(regs, i.args[1]) /\ j.name = i.name
      /\ i.op = "icmp" => (Holds(j.name, Value(seen, j.args[1]), Value(seen, j.args[2]))
                              <=> Holds(i.name, Value(regs, i.args[1]), Value(regs, i.args[2])))
      /\ i.op = "phi" => Value(seen, j.args[Taken(j, from)]) = Value(regs, i.args[Taken(i, from)])
  BY Zenon DEF SameOperands
<1>1. f.regs = regs /\ f.from = from /\ g.regs = seen /\ g.from = from
  BY DEF Act
<1>2. a.mem = b.mem
  BY MachineReads
<1> HIDE DEF f, g, a, b
<1> SUFFICES Result(b, g, j) = Result(a, f, i)
  BY DEF f, g, a, b
<1>3. i.op = "add" \/ i.op = "sub" \/ i.op = "mul" \/ i.op = "rem" => i.op \in BinaryOps
  BY DEF BinaryOps
<1>4. i.op = "cast" \/ i.op = "load" \/ i.op = "math" \/ i.op = "fneg" => i.op \in UnaryOps
  BY DEF UnaryOps
<1>5. CASE i.op = "add"
  BY <1>0, <1>1, <1>3, <1>5, Zenon DEF Result
<1>6. CASE i.op = "sub"
  BY <1>0, <1>1, <1>3, <1>6, Zenon DEF Result
<1>7. CASE i.op = "mul"
  BY <1>0, <1>1, <1>3, <1>7, Zenon DEF Result
<1>8. CASE i.op = "rem"
  BY <1>0, <1>1, <1>3, <1>8, Zenon DEF Result
<1>9. CASE i.op = "fneg"
  BY <1>0, <1>1, <1>4, <1>9, Zenon DEF Result
<1>10. CASE i.op = "cast"
  BY <1>0, <1>1, <1>4, <1>10, Zenon DEF Result
<1>11. CASE i.op = "load"
  BY <1>0, <1>1, <1>2, <1>4, <1>11, Zenon DEF Result
<1>12. CASE i.op = "math"
  BY <1>0, <1>1, <1>4, <1>12, Zenon DEF Result
<1>13. CASE i.op = "icmp"
  BY <1>0, <1>1, <1>13, Zenon DEF Result
<1>14. CASE i.op = "phi"
  BY <1>0, <1>1, <1>14, Zenon DEF Result, Taken
<1>15. i.op = "add" \/ i.op = "sub" \/ i.op = "mul" \/ i.op = "rem" \/ i.op = "fneg" \/ i.op = "cast"
       \/ i.op = "load" \/ i.op = "math" \/ i.op = "icmp" \/ i.op = "phi"
  <2> HIDE DEF f
  <2> QED BY SMT DEF Defining
<1> QED
  BY <1>5, <1>6, <1>7, <1>8, <1>9, <1>10, <1>11, <1>12, <1>13, <1>14, <1>15

-----------------------------------------------------------------------------
(* The cleaned module does, step by step, what the module does.            *)

\* the registers of decided comparisons have the values they were replaced by
Truths(truth, regs) == \A n \in DOMAIN truth \cap DOMAIN regs : regs[n] = ConstantValue[truth[n]]

\* an operand that was replaced has the value it had
LEMMA ReplacedValue ==
    ASSUME NEW m, NEW truth, TruthNames(m, truth), NEW regs, Truths(truth, regs),
           NEW v, IsConstant(v) \/ v \in m.pointers \/ v \in DOMAIN regs
    PROVE  Value(regs, Replacement(v, truth)) = Value(regs, v)
<1>1. CASE v \in DOMAIN truth
  <2>1. IsConstant(truth[v]) /\ ~IsConstant(v) /\ v \in DOMAIN regs
    BY <1>1, Zenon DEF TruthNames
  <2>2. Value(regs, v) = ConstantValue[truth[v]] /\ Value(regs, truth[v]) = ConstantValue[truth[v]]
    BY <1>1, <2>1, Zenon DEF Value, Truths
  <2> QED BY <1>1, <2>2, Zenon DEF Replacement
<1>2. CASE v \notin DOMAIN truth
  BY <1>2, Zenon DEF Replacement
<1> QED BY <1>1, <1>2

\* what both modules have at a position the run is at
LEMMA AlikeMid ==
    ASSUME NEW m, NEW avail, WellFormed(m), SelfContained(m, avail),
           NEW mid, NEW truth, NEW live, Rewrites(m, mid, truth, live), live \subseteq DOMAIN avail,
           TruthNames(m, truth), NEW pos, NEW from, NEW regs,
           RegistersThere(m, avail, pos, from, regs),
           RegistersThere(mid, [k \in live |-> avail[k]], pos, from, regs), Truths(truth, regs)
    PROVE  Alike(m, mid, EntryCode(m)[pos], EntryCode(mid)[pos], pos, from, regs, regs)
<1> DEFINE i == EntryCode(m)[pos]  j == EntryCode(mid)[pos]  avail2 == [k \in live |-> avail[k]]
<1>1. /\ pos \in live /\ pos \in DOMAIN avail /\ pos \in DOMAIN EntryCode(m) /\ DOMAIN avail2 = live
      /\ mid.globals = m.globals /\ mid.pointers = m.pointers
      /\ Became(i, j, pos, truth, live, EntryCode(mid))
      /\ i.op \in Defining \cup {"dbg", "br", "ret", "erased"}
  <2>1. DOMAIN avail2 = live
    OBVIOUS
  <2> QED BY <2>1, PositionThere, Zenon DEF RegistersThere, Rewrites, SelfContained, OwnInstructions, EntryCode
<1>2. BecameShape(m, mid, truth, pos)
  BY <1>1, BecameIs
<1>3. /\ j.op = i.op /\ (i.op # "br" => j.dst = i.dst)
      /\ i.op \notin {"phi", "br", "icmp"} =>
              /\ j.name = i.name
              /\ (i.args = <<>> <=> j.args = <<>>)
              /\ \A c \in DOMAIN i.args : j.args[c] = Replacement(i.args[c], truth)
      /\ i.op = "icmp" =>
              /\ DOMAIN i.args = 1 .. 2
              /\ j.name = Normalised(i).name
              /\ \A c \in 1 .. 2 : j.args[c] = Replacement(Normalised(i).args[c], truth)
              /\ \A c \in 1 .. 2 : \E d \in 1 .. 2 : Normalised(i).args[c] = i.args[d]
  BY <1>2, Zenon DEF BecameShape
<1>4. SelfContained(mid, avail2)
  BY RewritesSelfContained
<1>5. /\ i.args \in Seq(Names)
      /\ i.op \in BinaryOps \/ i.op = "icmp" => DOMAIN i.args = 1 .. 2
      /\ i.op \in UnaryOps \/ i.op = "dbg" => DOMAIN i.args = 1 .. 1
  BY <1>1, EntryShape
<1>6. \A c \in DOMAIN i.args : i.op \notin {"load", "dbg", "phi"} =>
         /\ Value(regs, i.args[c]) \in Int
         /\ IsConstant(i.args[c]) \/ i.args[c] \in DOMAIN regs
         /\ Value(regs, Replacement(i.args[c], truth)) = Value(regs, i.args[c])
  <2> SUFFICES ASSUME NEW c \in DOMAIN i.args, i.op \notin {"load", "dbg", "phi"}
               PROVE  /\ Value(regs, i.args[c]) \in Int
                      /\ IsConstant(i.args[c]) \/ i.args[c] \in DOMAIN regs
                      /\ Value(regs, Replacement(i.args[c], truth)) = Value(regs, i.args[c])
    OBVIOUS
  <2>1. Value(regs, i.args[c]) \in Int /\ (IsConstant(i.args[c]) \/ i.args[c] \in DOMAIN regs)
    BY OperandValues
  <2> QED BY <2>1, ReplacedValue
<1> HIDE DEF i, j, avail2
<1>7. ASSUME i.op = "dbg" PROVE j.name = i.name /\ Described(mid, j, regs) = Described(m, i, regs)
  <2>1. j.args[1] = i.args[1] /\ j.name = i.name
    BY <1>1, <1>7, DescribedStays DEF i, j
  <2> QED BY <1>1, <2>1, Zenon DEF Described
<1>8. ASSUME i.op = "rem" PROVE Value(regs, j.args[2]) = Value(regs, i.args[2])
  <2>1. 2 \in DOMAIN i.args /\ i.op \notin {"load", "dbg", "phi"} /\ i.op \notin {"phi", "br", "icmp"}
    BY <1>5, <1>8, SMT DEF BinaryOps
  <2> QED BY <1>3, <1>6, <2>1, Zenon
<1>9. ASSUME i.op = "ret" PROVE Returned(j, regs) = Returned(i, regs)
  <2>1. i.op \notin {"load", "dbg", "phi"} /\ i.op \notin {"phi", "br", "icmp"}
    BY <1>9
  <2>2. i.args # <<>> => 1 \in DOMAIN i.args
    BY <1>5, SMT
  <2> QED BY <1>3, <1>6, <2>1, <2>2, Zenon DEF Returned
<1>10. ASSUME i.op = "br" PROVE Target(j, regs) = Target(i, regs)
  <2>1. i.op \notin {"load", "dbg", "phi"}
    BY <1>10
  <2>2. i.at \in Seq(Nat) /\ Len(i.at) \in {1, 2} /\ (Len(i.at) = 2 => Len(i.args) = 1)
    BY <1>1, <1>10, Zenon DEF SelfContained, OwnInstructions, EntryCode, i
  <2>3. Len(i.at) = 2 => 1 \in DOMAIN i.args
    BY <1>5, <2>2, SMT
  <2>4. CASE j.at = i.at /\ j.args = WithUses(i.args, truth)
    <3>1. Len(i.at) = 2 => j.args[1] = Replacement(i.args[1], truth)
      BY <2>3, <2>4 DEF WithUses
    <3>2. Len(i.at) = 2 => Value(regs, j.args[1]) = Value(regs, i.args[1])
      BY <1>6, <2>1, <2>3, <3>1
    <3>3. Len(i.at) # 2 => Len(i.at) = 1
      BY <2>2
    <3> QED BY <2>4, <3>2, <3>3, Zenon DEF Target
  <2>5. ASSUME NEW c, c = Replacement(i.args[1], truth), Len(i.at) = 2, IsConstant(c),
               j.at = <<i.at[IF ConstantValue[c] # 0 THEN 1 ELSE 2]>>
        PROVE  Target(j, regs) = Target(i, regs)
    <3>1. Value(regs, c) = ConstantValue[c] /\ Value(regs, c) = Value(regs, i.args[1])
      BY <1>6, <2>1, <2>3, <2>5, Zenon DEF Value
    <3> DEFINE t == i.at[IF ConstantValue[c] # 0 THEN 1 ELSE 2]
    <3>2. Target(i, regs) = t
      <4>1. Len(i.at) # 1
        BY <2>5
      <4> QED BY <3>1, <4>1, Zenon DEF Target
    <3> HIDE DEF t
    <3>3. j.at = <<t>>
      BY <2>5 DEF t
    <3>4. Len(j.at) = 1 /\ j.at[1] = t
      BY <3>3
    <3>5. Target(j, regs) = t
      BY <3>4, Zenon DEF Target
    <3> QED BY <3>2, <3>5
  <2> QED BY <1>1, <1>10, <2>4, <2>5, Zenon DEF Became
<1>11. ASSUME i.op \in Defining PROVE j.dst = i.dst
  <2>1. i.op # "br"
    BY <1>11 DEF Defining
  <2> QED BY <1>3, <2>1
<1>12. ASSUME i.op \in Defining, NEW st, NEW res
       PROVE  Result(Mach(mid, pos, from, regs, st, res), Act(mid, pos, from, regs), j) =
                 Result(Mach(m, pos, from, regs, st, res), Act(m, pos, from, regs), i)
  <2>1. ASSUME i.op \in BinaryOps
        PROVE  /\ Value(regs, j.args[1]) = Value(regs, i.args[1])
               /\ Value(regs, j.args[2]) = Value(regs, i.args[2])
    <3>1. /\ 1 \in DOMAIN i.args /\ 2 \in DOMAIN i.args
          /\ i.op \notin {"load", "dbg", "phi"} /\ i.op \notin {"phi", "br", "icmp"}
      BY <1>5, <2>1, SMT DEF BinaryOps
    <3> QED BY <1>3, <1>6, <3>1, Zenon
  <2>2. ASSUME i.op \in UnaryOps
        PROVE  Value(regs, j.args[1]) = Value(regs, i.args[1]) /\ j.name = i.name
    <3>1. 1 \in DOMAIN i.args /\ i.op \notin {"dbg", "phi"} /\ i.op \notin {"phi", "br", "icmp"}
      BY <1>5, <2>2, SMT DEF UnaryOps
    <3>2. j.args[1] = Replacement(i.args[1], truth) /\ j.name = i.name
      BY <1>3, <3>1, Zenon
    <3>3. CASE i.op = "load"
      <4>1. OperandsThere(m, i, pos, avail)
        BY <1>1, Zenon DEF SelfContained, Dominated, EntryCode, i
      <4>2. i.args[1] \in m.pointers
        BY <3>3, <4>1 DEF OperandsThere, WellFormed
      <4> QED BY <3>2, <4>2, ReplacedValue
    <3>4. CASE i.op # "load"
      <4>1. i.op \notin {"load", "dbg", "phi"}
        BY <3>1, <3>4
      <4> QED BY <1>6, <3>1, <3>2, <4>1, Zenon
    <3> QED BY <3>3, <3>4
  <2>3. ASSUME i.op = "icmp"
        PROVE  Holds(j.name, Value(regs, j.args[1]), Value(regs, j.args[2]))
                  <=> Holds(i.name, Value(regs, i.args[1]), Value(regs, i.args[2]))
    <3>1. 1 \in 1 .. 2 /\ 2 \in 1 .. 2 /\ i.op \notin {"load", "dbg", "phi"}
      BY <2>3, SMT
    <3>2. \A c \in 1 .. 2 : Value(regs, j.args[c]) = Value(regs, Normalised(i).args[c])
      <4> SUFFICES ASSUME NEW c \in 1 .. 2
                   PROVE  Value(regs, j.args[c]) = Value(regs, Normalised(i).args[c])
        OBVIOUS
      <4>1. PICK d \in 1 .. 2 : Normalised(i).args[c] = i.args[d]
        BY <1>3, <2>3, Zenon
      <4>2. j.args[c] = Replacement(i.args[d], truth)
        BY <1>3, <2>3, <4>1, Zenon
      <4>3. d \in DOMAIN i.args
        BY <1>3, <2>3, Zenon
      <4>4. Value(regs, Replacement(i.args[d], truth)) = Value(regs, i.args[d])
        BY <1>6, <3>1, <4>3, Zenon
      <4> QED BY <4>1, <4>2, <4>4, Zenon
    <3>3. Value(regs, i.args[1]) \in Int /\ Value(regs, i.args[2]) \in Int
      BY <1>3, <1>6, <2>3, <3>1, Zenon
    <3>4. Holds(Normalised(i).name, Value(regs, Normalised(i).args[1]), Value(regs, Normalised(i).args[2]))
              <=> Holds(i.name, Value(regs, i.args[1]), Value(regs, i.args[2]))
      BY <3>3, NormalisedHolds
    <3>5. j.name = Normalised(i).name
      BY <1>3, <2>3
    <3> QED BY <3>1, <3>2, <3>4, <3>5, Zenon
  <2>4. ASSUME i.op = "phi"
        PROVE  Value(regs, j.args[Taken(j, from)]) = Value(regs, i.args[Taken(i, from)])
    <3> DEFINE c == Taken(j, from)  d == Taken(i, from)
    <3>1. /\ d \in DOMAIN i.args /\ (IsConstant(i.args[d]) \/ i.args[d] \in DOMAIN regs)
      BY <2>4, PhiOperand DEF i
    <3>2. from \in DOMAIN avail /\ EntryCode(m)[from].op = "br" /\ Arrives(EntryCode(m), from, pos)
      BY <2>4, Zenon DEF RegistersThere, i
    <3>3. \E a \in DOMAIN i.args : i.at[a] = from
      BY <1>1, <2>4, <3>2, Zenon DEF SelfContained, PhisHeadBlocks, EntryCode, i
    <3>4. i.at[d] = from
      BY <3>3 DEF Taken
    <3>5. j.op = "phi"
      BY <1>3, <2>4
    <3>6. pos \in DOMAIN avail2 /\ from \in DOMAIN avail2 /\ EntryCode(mid)[from].op = "br" /\ Arrives(EntryCode(mid), from, pos)
      BY <3>5, Zenon DEF RegistersThere, j, avail2
    <3>7. \E a \in DOMAIN j.args : j.at[a] = from
      BY <1>4, <3>5, <3>6, Zenon DEF SelfContained, PhisHeadBlocks, EntryCode, j
    <3>8. c \in DOMAIN j.args /\ j.at[c] = from
      BY <3>7 DEF Taken
    <3> HIDE DEF c, d
    <3>9. PICK a \in DOMAIN i.args : j.args[c] = Replacement(i.args[a], truth) /\ j.at[c] = i.at[a]
      BY <1>1, <2>4, <3>8, Zenon DEF Became
    <3>10. i.args[a] = i.args[d]
      <4>1. \A e, g \in DOMAIN i.args : i.at[e] = i.at[g] => i.args[e] = i.args[g]
        BY <1>1, <2>4, Zenon DEF SelfContained, PhisHeadBlocks, EntryCode, i
      <4> QED BY <3>1, <3>4, <3>8, <3>9, <4>1, Zenon
    <3>11. Value(regs, Replacement(i.args[d], truth)) = Value(regs, i.args[d])
      BY <3>1, ReplacedValue
    <3> QED BY <3>9, <3>10, <3>11 DEF c, d
  <2>5. SameOperands(i, j, from, regs, regs)
    BY <2>1, <2>2, <2>3, <2>4, Zenon DEF SameOperands
  <2>6. j.op = i.op /\ mid.globals = m.globals
    BY <1>1, <1>3
  <2> QED BY <1>12, <2>5, <2>6, ResultAlike
<1> QED BY <1>1, <1>3, <1>7, <1>8, <1>9, <1>10, <1>11, <1>12, Zenon DEF Alike, i, j

\* steps of the two modules are the same
LEMMA MidStep ==
    ASSUME NEW m, NEW avail, WellFormed(m), SelfContained(m, avail),
           NEW mid, NEW truth, NEW live, Rewrites(m, mid, truth, live), live \subseteq DOMAIN avail,
           TruthNames(m, truth), NEW pos, NEW from, NEW regs,
           RegistersThere(m, avail, pos, from, regs),
           RegistersThere(mid, [k \in live |-> avail[k]], pos, from, regs), Truths(truth, regs),
           NEW st, NEW res
    PROVE  Step(mid, TypeRange, Mach(m, pos, from, regs, st, res)) =
              Step(m, TypeRange, Mach(m, pos, from, regs, st, res))
<1>1. Alike(m, mid, EntryCode(m)[pos], EntryCode(mid)[pos], pos, from, regs, regs)
  BY AlikeMid
<1>2. mid.entry = m.entry /\ mid.globals = m.globals /\ mid.pointers = m.pointers
  BY DEF Rewrites
<1> DEFINE next == Step(m, TypeRange, Mach(m, pos, from, regs, st, res))
           then == Step(mid, TypeRange, Mach(m, pos, from, regs, st, res))
<1>3. StepsAlike(m, EntryCode(m)[pos], regs, regs, next, then)
  BY <1>1, <1>2, AlikeStep
<1> HIDE DEF next, then
<1>4. next = then
  BY <1>3, Zenon DEF StepsAlike
<1> QED BY <1>4 DEF next, then

\* how a run goes on
Moves(m, pos, from, regs, pos2, from2, regs2) ==
    LET i == EntryCode(m)[pos]
    IN  \/ /\ i.op \in Defining /\ ~(i.op = "rem" /\ Value(regs, i.args[2]) = 0)
           /\ pos2 = pos + 1 /\ from2 = from
           /\ \E st, res : regs2 = Update(regs, i.dst, Result(Mach(m, pos, from, regs, st, res),
                                                             Act(m, pos, from, regs), i))
        \/ /\ i.op \in {"dbg", "erased"} /\ pos2 = pos + 1 /\ from2 = from /\ regs2 = regs
           /\ i.op = "dbg" /\ i.name \in DOMAIN TypeRange => In(Described(m, i, regs), TypeRange[i.name])
        \/ i.op = "br" /\ pos2 \in Successors(EntryCode(m), pos) /\ from2 = pos /\ regs2 = regs

\* A run that goes on has moved as its instruction says.
LEMMA RunningStep ==
    ASSUME NEW m, NEW avail, SelfContained(m, avail),
           NEW pos, NEW from, NEW regs, RegistersThere(m, avail, pos, from, regs),
           NEW res, NEW pos2, NEW from2, NEW regs2, NEW res2,
           Step(m, TypeRange, Mach(m, pos, from, regs, "running", res)) =
              Mach(m, pos2, from2, regs2, "running", res2)
    PROVE  Moves(m, pos, from, regs, pos2, from2, regs2) /\ res2 = res
<1> DEFINE i == EntryCode(m)[pos]
           next == Step(m, TypeRange, Mach(m, pos, from, regs, "running", res))
<1>1. StepIs(m, pos, from, regs, "running", res, next)
  BY OneStep
<1>2. i.op \in Defining \cup {"dbg", "br", "ret", "erased"}
  BY PositionThere, Zenon DEF SelfContained, OwnInstructions, EntryCode
<1>3. ASSUME NEW p, NEW f, NEW r, NEW s, NEW t, next = Mach(m, p, f, r, s, t)
      PROVE  pos2 = p /\ from2 = f /\ regs2 = r /\ s = "running" /\ res2 = t
  <2>1. Mach(m, pos2, from2, regs2, "running", res2) = Mach(m, p, f, r, s, t)
    BY <1>3
  <2> QED BY <2>1, MachineIs
<1> HIDE DEF next, i
<1>4. CASE i.op \in Defining /\ ~(i.op = "rem" /\ Value(regs, i.args[2]) = 0)
  <2>1. next = Mach(m, pos + 1, from,
                    Update(regs, i.dst, Result(Mach(m, pos, from, regs, "running", res), Act(m, pos, from, regs), i)),
                    "running", res)
    BY <1>1, <1>4, Zenon DEF StepIs, i
  <2>2. /\ pos2 = pos + 1 /\ from2 = from /\ res2 = res
        /\ regs2 = Update(regs, i.dst, Result(Mach(m, pos, from, regs, "running", res), Act(m, pos, from, regs), i))
    BY <1>3, <2>1
  <2> QED BY <1>4, <2>2, Zenon DEF Moves, i
<1>5. CASE i.op = "rem" /\ Value(regs, i.args[2]) = 0
  <2>1. next = Mach(m, pos, from, regs, "undefined", res)
    BY <1>1, <1>5, Zenon DEF StepIs, i
  <2>2. "undefined" = "running"
    BY <1>3, <2>1
  <2> QED BY <2>2
<1>6. CASE i.op = "ret"
  <2>1. next = Mach(m, pos, from, regs, "returned", Returned(i, regs))
    BY <1>1, <1>6, Zenon DEF StepIs, i, Returned
  <2>2. "returned" = "running"
    BY <1>3, <2>1
  <2> QED BY <2>2
<1>7. CASE i.op = "erased"
  <2>1. next = Mach(m, pos + 1, from, regs, "running", res)
    BY <1>1, <1>7, Zenon DEF StepIs, i
  <2>2. pos2 = pos + 1 /\ from2 = from /\ res2 = res /\ regs2 = regs
    BY <1>3, <2>1
  <2>3. i.op # "dbg"
    BY <1>7
  <2> QED BY <1>7, <2>2, <2>3 DEF Moves, i
<1>8. CASE i.op = "br"
  <2>1. next = Mach(m, Target(i, regs), pos, regs, "running", res)
    BY <1>1, <1>8, Zenon DEF StepIs, i, Target
  <2>2. pos2 = Target(i, regs) /\ from2 = pos /\ res2 = res /\ regs2 = regs
    BY <1>3, <2>1
  <2>3. Target(i, regs) \in Successors(EntryCode(m), pos)
    <3>1. i.at \in Seq(Nat) /\ Len(i.at) \in {1, 2}
      BY <1>8, PositionThere, Zenon DEF SelfContained, OwnInstructions, EntryCode, i
    <3> DEFINE c == IF Len(i.at) = 1 \/ Value(regs, i.args[1]) # 0 THEN 1 ELSE 2
    <3>2. c \in DOMAIN i.at
      BY <3>1, SMT
    <3>3. Target(i, regs) = i.at[c]
      BY Zenon DEF Target
    <3> QED BY <1>8, <3>2, <3>3, Zenon DEF Successors, i
  <2> QED BY <1>8, <2>2, <2>3 DEF Moves, i
<1>9. CASE i.op = "dbg"
  <2>1. IF i.name \in DOMAIN TypeRange /\ ~In(Described(m, i, regs), TypeRange[i.name])
        THEN next = Mach(m, pos, from, regs, "outOfSpecification", res)
        ELSE next = Mach(m, pos + 1, from, regs, "running", res)
    BY <1>1, <1>9, Zenon DEF StepIs, i, Described
  <2>2. CASE i.name \in DOMAIN TypeRange /\ ~In(Described(m, i, regs), TypeRange[i.name])
    <3>1. "outOfSpecification" = "running"
      BY <1>3, <2>1, <2>2
    <3> QED BY <3>1
  <2>3. CASE ~(i.name \in DOMAIN TypeRange /\ ~In(Described(m, i, regs), TypeRange[i.name]))
    <3>1. pos2 = pos + 1 /\ from2 = from /\ res2 = res /\ regs2 = regs
      BY <1>3, <2>1, <2>3
    <3> QED BY <1>9, <2>3, <3>1, Zenon DEF Moves, i
  <2> QED BY <2>2, <2>3
<1> QED BY <1>2, <1>4, <1>5, <1>6, <1>7, <1>8, <1>9

\* a run returns at a return, with its operand
LEMMA ReturningStep ==
    ASSUME NEW m, NEW avail, SelfContained(m, avail),
           NEW pos, NEW from, NEW regs, RegistersThere(m, avail, pos, from, regs), NEW res,
           Step(m, TypeRange, Mach(m, pos, from, regs, "running", res)).status = "returned"
    PROVE  /\ EntryCode(m)[pos].op = "ret"
           /\ Step(m, TypeRange, Mach(m, pos, from, regs, "running", res)) =
                 Mach(m, pos, from, regs, "returned", Returned(EntryCode(m)[pos], regs))
<1> DEFINE i == EntryCode(m)[pos]
           next == Step(m, TypeRange, Mach(m, pos, from, regs, "running", res))
<1>1. StepIs(m, pos, from, regs, "running", res, next)
  BY OneStep
<1>2. i.op \in Defining \cup {"dbg", "br", "ret", "erased"}
  BY PositionThere, Zenon DEF SelfContained, OwnInstructions, EntryCode
<1>3. next.status = "returned"
  OBVIOUS
<1>4. \A p, f, r, s, t : Mach(m, p, f, r, s, t).status = s
  BY DEF Mach
<1> HIDE DEF next, i
<1>5. CASE i.op = "ret"
  <2>1. next = Mach(m, pos, from, regs, "returned", Returned(i, regs))
    BY <1>1, <1>5, Zenon DEF StepIs, i, Returned
  <2> QED BY <1>5, <2>1 DEF i, next
<1>6. ASSUME i.op # "ret" PROVE FALSE
  <2>1. \E p, f, r, s, t : next = Mach(m, p, f, r, s, t) /\ s \in {"running", "undefined", "outOfSpecification"}
    <3>1. CASE i.op \in Defining /\ ~(i.op = "rem" /\ Value(regs, i.args[2]) = 0)
      <4>1. next = Mach(m, pos + 1, from,
                    Update(regs, i.dst, Result(Mach(m, pos, from, regs, "running", res), Act(m, pos, from, regs), i)),
                    "running", res)
        BY <1>1, <3>1, Zenon DEF StepIs, i
      <4> QED BY <4>1, Zenon
    <3>2. CASE i.op = "rem" /\ Value(regs, i.args[2]) = 0
      <4>1. next = Mach(m, pos, from, regs, "undefined", res)
        BY <1>1, <3>2, Zenon DEF StepIs, i
      <4> QED BY <4>1, Zenon
    <3>3. CASE i.op = "erased"
      <4>1. next = Mach(m, pos + 1, from, regs, "running", res)
        BY <1>1, <3>3, Zenon DEF StepIs, i
      <4> QED BY <4>1, Zenon
    <3>4. CASE i.op = "br"
      <4>1. next = Mach(m, Target(i, regs), pos, regs, "running", res)
        BY <1>1, <3>4, Zenon DEF StepIs, i, Target
      <4> QED BY <4>1, Zenon
    <3>5. CASE i.op = "dbg"
      <4>1. \/ next = Mach(m, pos, from, regs, "outOfSpecification", res)
            \/ next = Mach(m, pos + 1, from, regs, "running", res)
        BY <1>1, <3>5, Zenon DEF StepIs, i
      <4> QED BY <4>1, Zenon
    <3> QED BY <1>2, <1>6, <3>1, <3>2, <3>3, <3>4, <3>5
  <2> QED BY <1>3, <1>4, <2>1
<1> QED BY <1>5, <1>6

\* every register with an entry is in it
Full(b, regs) == \A n \in DOMAIN regs \cap DOMAIN b : In(regs[n], b[n])

\* Operands whose registers are in their ranges are in theirs.
LEMMA FullOperand ==
    ASSUME NEW b \in Bounds, NEW regs, Full(b, regs), NEW v, IsConstant(v) \/ v \in DOMAIN regs,
           Value(regs, v) \in Int
    PROVE  OperandIn(b, regs, v)
<1>1. OperandRange(b, v) \in SUBSET RangePairs
  BY OperandType
<1>2. CASE IsConstant(v)
  <2>1. Value(regs, v) = ConstantValue[v] /\ ConstantValue[v] \in Int
    BY <1>2, ConstantAssumption DEF Value, IsConstant
  <2>2. OperandRange(b, v) = {Point(ConstantValue[v])}
    BY <1>2, Zenon DEF OperandRange
  <2>3. In(ConstantValue[v], Point(ConstantValue[v]))
    BY <2>1, SMT DEF In, Point, Pair
  <2> QED BY <1>1, <2>1, <2>2, <2>3 DEF OperandIn
<1>3. CASE ~IsConstant(v)
  <2>1. v \in DOMAIN regs /\ Value(regs, v) = regs[v]
    BY <1>3, Zenon DEF Value
  <2>2. OperandRange(b, v) = IF v \in DOMAIN b THEN {b[v]} ELSE {}
    BY <1>3, Zenon DEF OperandRange
  <2>3. v \in DOMAIN b => In(regs[v], b[v])
    BY <2>1, Zenon DEF Full
  <2> QED BY <1>1, <2>1, <2>2, <2>3 DEF OperandIn
<1> QED BY <1>2, <1>3

\* a decided comparison gives the value its uses were replaced by
LEMMA TruthsStay ==
    ASSUME NEW m, NEW avail, WellFormed(m), SelfContained(m, avail), Plain(m),
           NEW b \in Bounds, NEW truth, IsTruth(m, b, truth),
           NEW pos, NEW from, NEW regs, RegistersThere(m, avail, pos, from, regs),
           Full(b, regs), Truths(truth, regs),
           NEW pos2, NEW from2, NEW regs2, Moves(m, pos, from, regs, pos2, from2, regs2)
    PROVE  Truths(truth, regs2)
<1> DEFINE i == EntryCode(m)[pos]
<1>1. regs2 = regs \/ (i.op \in Defining /\ \E st, res : regs2 = Update(regs, i.dst,
          Result(Mach(m, pos, from, regs, st, res), Act(m, pos, from, regs), i)))
  BY Zenon DEF Moves
<1>2. CASE regs2 = regs
  BY <1>2
<1>3. ASSUME i.op \in Defining, NEW st, NEW res,
             regs2 = Update(regs, i.dst, Result(Mach(m, pos, from, regs, st, res), Act(m, pos, from, regs), i))
      PROVE  Truths(truth, regs2)
  <2> DEFINE x == Result(Mach(m, pos, from, regs, st, res), Act(m, pos, from, regs), i)
  <2>1. /\ DOMAIN regs2 = DOMAIN regs \cup {i.dst} /\ regs2[i.dst] = x
        /\ \A n \in DOMAIN regs : n # i.dst => regs2[n] = regs[n]
    BY <1>3 DEF Update
  <2>2. ASSUME i.dst \in DOMAIN truth PROVE x = ConstantValue[truth[i.dst]]
    <3>1. PICK k \in DOMAIN EntryCode(m) :
            /\ EntryCode(m)[k].op = "icmp" /\ EntryCode(m)[k].dst = i.dst
            /\ \/ ConstantValue[truth[i.dst]] = 1 /\ Verdict(b, Normalised(EntryCode(m)[k])) = "AlwaysTrue"
               \/ ConstantValue[truth[i.dst]] = 0 /\ Verdict(b, Normalised(EntryCode(m)[k])) = "AlwaysFalse"
      BY <2>2, Zenon DEF IsTruth
    <3>2. pos \in DOMAIN EntryCode(m)
      BY PositionThere
    <3>3. "icmp" \in Defining
      BY DEF Defining
    <3>4. i.dst \in DefinedBy(EntryCode(m)[k])
      BY <3>1, <3>3 DEF DefinedBy
    <3>5. k = pos
      BY <1>3, <3>2, <3>4, Zenon DEF SelfContained, SingleAssignment, EntryCode
    <3>6. i.op = "icmp" /\ DOMAIN i.args = 1 .. 2
      BY <3>1, <3>2, <3>5, EntryShape
    <3>7. \A c \in 1 .. 2 : OperandIn(b, regs, i.args[c])
      <4> SUFFICES ASSUME NEW c \in 1 .. 2 PROVE OperandIn(b, regs, i.args[c])
        OBVIOUS
      <4>1. i.op \notin {"load", "dbg", "phi"} /\ c \in DOMAIN i.args
        BY <3>6
      <4>2. Value(regs, i.args[c]) \in Int /\ (IsConstant(i.args[c]) \/ i.args[c] \in DOMAIN regs)
        BY <4>1, OperandValues
      <4> QED BY <4>2, FullOperand
    <3>8. i.name \in {"eq", "ne"} => \A c \in 1 .. 2 : IsConstant(i.args[c]) => ConstantValue[i.args[c]] >= 0
      BY <3>2, <3>6, Zenon DEF Plain
    <3>9. x = IF Holds(i.name, Value(regs, i.args[1]), Value(regs, i.args[2])) THEN 1 ELSE 0
      <4>1. Act(m, pos, from, regs).regs = regs
        BY DEF Act
      <4> QED BY <3>6, <4>1, Zenon DEF Result
    <3> HIDE DEF x, i
    <3>10. 1 \in 1 .. 2 /\ 2 \in 1 .. 2
      BY SMT
    <3>11. /\ Verdict(b, Normalised(i)) = "AlwaysTrue" => Holds(i.name, Value(regs, i.args[1]), Value(regs, i.args[2]))
           /\ Verdict(b, Normalised(i)) = "AlwaysFalse" => ~Holds(i.name, Value(regs, i.args[1]), Value(regs, i.args[2]))
      BY <3>7, <3>8, <3>10, DecidedRight
    <3>12. /\ EntryCode(m)[k] = i
      BY <3>5 DEF i
    <3> QED BY <3>1, <3>9, <3>11, <3>12
  <2> HIDE DEF x
  <2> QED BY <2>1, <2>2 DEF Truths
<1> QED BY <1>1, <1>2, <1>3, Zenon

-----------------------------------------------------------------------------
(* The output does, step by step, what the cleaned module does, without the *)
(* registers that became constants.                                        *)

\* constantSubstitution removes i
Gone(m, b, i) == i.op \in Substitutable /\ i.dst \notin m.pointers /\ OnePoint(b, i.dst)

ConstantsOf(m, b) ==
    [n \in {EntryCode(m)[k].dst : k \in {j \in DOMAIN EntryCode(m) : Gone(m, b, EntryCode(m)[j])}} |->
        ConstantFor(b[n].lo)]

\* the entry function of q is that of m with the constants b gives
SubstitutedTo(m, q, b) ==
    /\ SameSurroundings(m, q) /\ DOMAIN EntryCode(q) = DOMAIN EntryCode(m)
    /\ \A k \in DOMAIN EntryCode(m) :
          LET i == EntryCode(m)[k]  j == EntryCode(q)[k]
          IN  IF Gone(m, b, i) THEN j = Erased
              ELSE i.op # "store" => /\ j.op = i.op /\ j.dst = i.dst /\ j.at = i.at /\ j.name = i.name
                                     /\ j.args = WithUses(i.args, ConstantsOf(m, b))

\* the registers that are left
Without(regs, const) == [n \in DOMAIN regs \ DOMAIN const |-> regs[n]]

\* the one-point ranges of b have constants
PointsNamed(b) == \A n \in DOMAIN b : OnePoint(b, n) => \E c \in DOMAIN ConstantValue : ConstantValue[c] = b[n].lo

\* what the removed registers are
LEMMA ConstantsAre ==
    ASSUME NEW m, NEW avail, WellFormed(m), SelfContained(m, avail), NEW b, PointsNamed(b)
    PROVE  /\ \A n \in DOMAIN ConstantsOf(m, b) :
                 /\ IsConstant(ConstantsOf(m, b)[n]) /\ ConstantValue[ConstantsOf(m, b)[n]] = b[n].lo
                 /\ n \in DOMAIN b /\ b[n].lo = b[n].hi /\ n \notin m.pointers /\ ~IsConstant(n)
                 /\ \A j \in DOMAIN m.body[m.entry].params : m.body[m.entry].params[j] # n
           /\ \A k \in DOMAIN EntryCode(m) :
                 LET i == EntryCode(m)[k]
                 IN  /\ Gone(m, b, i) => i.op \in Defining /\ i.dst \in DOMAIN ConstantsOf(m, b)
                     /\ i.op \in Defining /\ i.dst \in DOMAIN ConstantsOf(m, b) => Gone(m, b, i)
<1> DEFINE code == EntryCode(m)  const == ConstantsOf(m, b)
<1>1. ASSUME NEW k \in DOMAIN code, Gone(m, b, code[k]) PROVE code[k].op \in Defining
  <2>1. code[k].op \in Defining \cup {"dbg", "br", "ret", "erased"}
    BY Zenon DEF SelfContained, OwnInstructions, EntryCode
  <2>2. code[k].op \in BinaryOps \cup UnaryOps \cup {"phi", "call"}
    BY <1>1, Zenon DEF Gone, Substitutable
  <2> HIDE DEF code
  <2> QED BY <2>1, <2>2, SMT DEF BinaryOps, UnaryOps, Defining
<1>2. DOMAIN const = {code[k].dst : k \in {j \in DOMAIN code : Gone(m, b, code[j])}}
  BY DEF ConstantsOf
<1>3. ASSUME NEW n \in DOMAIN const
      PROVE  \E k \in DOMAIN code : code[k].dst = n /\ Gone(m, b, code[k])
  BY <1>2
<1>4. ASSUME NEW n \in DOMAIN const
      PROVE  /\ IsConstant(const[n]) /\ ConstantValue[const[n]] = b[n].lo
             /\ n \in DOMAIN b /\ b[n].lo = b[n].hi /\ n \notin m.pointers /\ ~IsConstant(n)
             /\ \A j \in DOMAIN m.body[m.entry].params : m.body[m.entry].params[j] # n
  <2>1. PICK k \in DOMAIN code : code[k].dst = n /\ Gone(m, b, code[k])
    BY <1>3
  <2>2. OnePoint(b, n) /\ n \notin m.pointers
    BY <2>1, Zenon DEF Gone
  <2>3. n \in DOMAIN b /\ b[n].lo = b[n].hi
    BY <2>2 DEF OnePoint
  <2>4. \E c \in DOMAIN ConstantValue : ConstantValue[c] = b[n].lo
    BY <2>2, <2>3 DEF PointsNamed
  <2>5. const[n] = ConstantFor(b[n].lo)
    BY DEF ConstantsOf
  <2>6. const[n] \in DOMAIN ConstantValue /\ ConstantValue[const[n]] = b[n].lo
    BY <2>4, <2>5 DEF ConstantFor
  <2>7. ~IsConstant(n) /\ \A j \in DOMAIN m.body[m.entry].params : m.body[m.entry].params[j] # n
    BY <1>1, <2>1, Zenon DEF SelfContained, SingleAssignment, EntryCode
  <2> QED BY <2>2, <2>3, <2>6, <2>7, Zenon DEF IsConstant
<1>5. ASSUME NEW k \in DOMAIN code, code[k].op \in Defining, code[k].dst \in DOMAIN const
      PROVE  Gone(m, b, code[k])
  <2>1. PICK j \in DOMAIN code : code[j].dst = code[k].dst /\ Gone(m, b, code[j])
    BY <1>3, <1>5
  <2>2. code[k].dst \in DefinedBy(code[j])
    BY <1>1, <2>1, Zenon DEF DefinedBy
  <2>3. j = k
    BY <1>5, <2>2, Zenon DEF SelfContained, SingleAssignment, EntryCode
  <2> QED BY <2>1, <2>3
<1>6. ASSUME NEW k \in DOMAIN code, Gone(m, b, code[k]) PROVE code[k].dst \in DOMAIN const
  BY <1>2, <1>6
<1> QED BY <1>1, <1>4, <1>5, <1>6, Zenon

\* an operand that is replaced has the value of its constant
LEMMA SubstitutedValue ==
    ASSUME NEW m, NEW avail, WellFormed(m), SelfContained(m, avail), NEW b \in Bounds, PointsNamed(b),
           NEW pos, NEW from, NEW regs, RegistersThere(m, avail, pos, from, regs), Full(b, regs),
           NEW v, IsConstant(v) \/ v \in m.pointers \/ v \in DOMAIN regs
    PROVE  Value(Without(regs, ConstantsOf(m, b)), Replacement(v, ConstantsOf(m, b))) = Value(regs, v)
<1> DEFINE const == ConstantsOf(m, b)  seen == Without(regs, const)
<1>1. DOMAIN seen = DOMAIN regs \ DOMAIN const /\ \A n \in DOMAIN seen : seen[n] = regs[n]
  BY DEF Without
<1>2. \A n \in DOMAIN const : /\ IsConstant(const[n]) /\ ConstantValue[const[n]] = b[n].lo
                              /\ n \in DOMAIN b /\ b[n].lo = b[n].hi /\ n \notin m.pointers /\ ~IsConstant(n)
  BY ConstantsAre
<1>3. \A n \in DOMAIN regs : regs[n] \in Int /\ n \notin m.pointers /\ ~IsConstant(n)
  BY Zenon DEF RegistersThere
<1> HIDE DEF const, seen
<1>4. CASE v \in DOMAIN const
  <2>1. v \in DOMAIN regs /\ v \in DOMAIN b
    BY <1>2, <1>4, Zenon
  <2>2. b[v] \in RangePairs
    BY <2>1, UseBounds
  <2>3. regs[v] = b[v].lo
    <3>1. In(regs[v], b[v]) /\ regs[v] \in Int /\ b[v].lo = b[v].hi
      BY <1>2, <1>3, <1>4, <2>1, Zenon DEF Full
    <3> QED BY <2>2, <3>1, SMT DEF In, RangePairs
  <2>4. Value(regs, v) = regs[v] /\ Value(seen, const[v]) = b[v].lo
    BY <1>2, <1>4, <2>1, Zenon DEF Value
  <2> QED BY <1>4, <2>3, <2>4, Zenon DEF Replacement, const, seen
<1>5. CASE v \notin DOMAIN const
  <2>1. Replacement(v, const) = v
    BY <1>5, Zenon DEF Replacement
  <2>2. v \in DOMAIN regs => v \in DOMAIN seen /\ seen[v] = regs[v]
    BY <1>1, <1>5
  <2>3. v \notin DOMAIN regs => v \notin DOMAIN seen
    BY <1>1
  <2>4. Value(seen, v) = Value(regs, v)
    BY <2>2, <2>3, Zenon DEF Value
  <2> QED BY <2>1, <2>4 DEF const, seen
<1> QED BY <1>4, <1>5

\* what is left does the same with the registers that are left
LEMMA AlikeOutput ==
    ASSUME NEW m, NEW avail, WellFormed(m), SelfContained(m, avail), NEW b \in Bounds, PointsNamed(b),
           NEW q, SubstitutedTo(m, q, b),
           NEW pos, NEW from, NEW regs, RegistersThere(m, avail, pos, from, regs), Full(b, regs),
           ~Gone(m, b, EntryCode(m)[pos])
    PROVE  Alike(m, q, EntryCode(m)[pos], EntryCode(q)[pos], pos, from, regs, Without(regs, ConstantsOf(m, b)))
<1> DEFINE i == EntryCode(m)[pos]  j == EntryCode(q)[pos]
           const == ConstantsOf(m, b)  seen == Without(regs, const)
<1>1. /\ pos \in DOMAIN EntryCode(m) /\ pos \in DOMAIN avail
      /\ q.globals = m.globals /\ q.pointers = m.pointers
      /\ i.op \in Defining \cup {"dbg", "br", "ret", "erased"}
  BY PositionThere, Zenon DEF RegistersThere, SelfContained, OwnInstructions, EntryCode, SubstitutedTo,
     SameSurroundings
<1>2. i.op # "store"
  <2> HIDE DEF i
  <2> QED BY <1>1, SMT DEF Defining
<1>3. j.op = i.op /\ j.dst = i.dst /\ j.at = i.at /\ j.name = i.name /\ j.args = WithUses(i.args, const)
  BY <1>1, <1>2, Zenon DEF SubstitutedTo
<1>4. /\ DOMAIN j.args = DOMAIN i.args /\ \A c \in DOMAIN i.args : j.args[c] = Replacement(i.args[c], const)
  BY <1>3 DEF WithUses
<1>5. /\ i.args \in Seq(Names)
      /\ i.op \in BinaryOps \/ i.op = "icmp" => DOMAIN i.args = 1 .. 2
      /\ i.op \in UnaryOps \/ i.op = "dbg" => DOMAIN i.args = 1 .. 1
  BY <1>1, EntryShape
<1>6. \A c \in DOMAIN i.args : i.op \notin {"load", "dbg", "phi"} => Value(seen, j.args[c]) = Value(regs, i.args[c])
  <2> SUFFICES ASSUME NEW c \in DOMAIN i.args, i.op \notin {"load", "dbg", "phi"}
               PROVE  Value(seen, j.args[c]) = Value(regs, i.args[c])
    OBVIOUS
  <2>1. IsConstant(i.args[c]) \/ i.args[c] \in DOMAIN regs
    BY OperandValues
  <2>2. Value(seen, Replacement(i.args[c], const)) = Value(regs, i.args[c])
    BY <2>1, SubstitutedValue
  <2> QED BY <1>4, <2>2, Zenon
<1>7. OperandsThere(m, i, pos, avail)
  BY <1>1, Zenon DEF SelfContained, Dominated, EntryCode
<1>8. DOMAIN m.globals \subseteq m.pointers
  BY DEF WellFormed
<1>20. \A v : IsConstant(v) \/ v \in m.pointers \/ v \in DOMAIN regs => Value(seen, Replacement(v, const)) = Value(regs, v)
  BY SubstitutedValue
<1>21. \A n \in m.pointers : Replacement(n, const) = n
  <2>1. \A n \in DOMAIN const : n \notin m.pointers
    BY ConstantsAre
  <2> QED BY <2>1, Zenon DEF Replacement
<1>22. avail[pos] \subseteq DOMAIN regs
  BY DEF RegistersThere
<1>23. \A n \in DOMAIN const : IsConstant(const[n])
  BY ConstantsAre
<1>24. \A g \in m.pointers : ~IsConstant(g)
  BY Zenon DEF SelfContained, SingleAssignment
<1> HIDE DEF i, j, const, seen
<1>9. ASSUME i.op = "dbg" PROVE j.name = i.name /\ Described(q, j, seen) = Described(m, i, regs)
  <2> DEFINE v == i.args[1]
  <2>1. 1 \in DOMAIN i.args /\ j.args[1] = Replacement(v, const)
    BY <1>4, <1>5, <1>9, SMT
  <2>2. i.op # "load" /\ i.op # "phi"
    BY <1>9
  <2>3. IsConstant(v) \/ v \in m.pointers \/ v \in DOMAIN regs
    BY <1>7, <1>8, <1>22, <2>1, <2>2, Zenon DEF OperandsThere
  <2>4. Value(seen, Replacement(v, const)) = Value(regs, v)
    BY <1>20, <2>3
  <2>5. Replacement(v, const) \in m.pointers <=> v \in m.pointers
    BY <1>21, <1>23, <1>24, Zenon DEF Replacement
  <2> QED BY <1>1, <1>3, <2>1, <2>4, <2>5, Zenon DEF Described
<1>10. ASSUME i.op = "rem" PROVE Value(seen, j.args[2]) = Value(regs, i.args[2])
  <2>1. 2 \in DOMAIN i.args /\ i.op \notin {"load", "dbg", "phi"}
    BY <1>5, <1>10, SMT DEF BinaryOps
  <2> QED BY <1>6, <2>1, Zenon
<1>11. ASSUME i.op = "ret" PROVE Returned(j, seen) = Returned(i, regs)
  <2>1. i.op \notin {"load", "dbg", "phi"}
    BY <1>11
  <2>2. i.args # <<>> => 1 \in DOMAIN i.args
    BY <1>5, SMT
  <2>3. j.args = <<>> <=> i.args = <<>>
    <3>1. j.args \in [1 .. Len(i.args) -> {j.args[c] : c \in 1 .. Len(i.args)}] /\ Len(i.args) \in Nat
      BY <1>3, <1>4, <1>5 DEF WithUses
    <3> DEFINE S == {j.args[c] : c \in 1 .. Len(i.args)}
    <3> HIDE DEF S
    <3>2. j.args \in Seq(S) /\ Len(j.args) = Len(i.args)
      <4>1. j.args \in [1 .. Len(i.args) -> S]
        BY <3>1 DEF S
      <4> QED BY <3>1, <4>1, SMT
    <3> QED BY <1>5, <3>2, SMT
  <2> QED BY <1>6, <2>1, <2>2, <2>3, Zenon DEF Returned
<1>12. ASSUME i.op = "br" PROVE Target(j, seen) = Target(i, regs)
  <2>1. i.op \notin {"load", "dbg", "phi"}
    BY <1>12
  <2>2. Len(i.at) \in {1, 2} /\ (Len(i.at) = 2 => Len(i.args) = 1)
    BY <1>1, <1>12, Zenon DEF SelfContained, OwnInstructions, EntryCode, i
  <2>3. Len(i.at) = 2 => 1 \in DOMAIN i.args
    BY <1>5, <2>2, SMT
  <2>4. Len(i.at) = 2 => Value(seen, j.args[1]) = Value(regs, i.args[1])
    BY <1>6, <2>1, <2>3
  <2>5. Len(i.at) # 2 => Len(i.at) = 1
    BY <2>2
  <2> QED BY <1>3, <2>4, <2>5, Zenon DEF Target
<1>13. ASSUME i.op \in Defining, NEW st, NEW res
       PROVE  Result(Mach(q, pos, from, seen, st, res), Act(q, pos, from, seen), j) =
                 Result(Mach(m, pos, from, regs, st, res), Act(m, pos, from, regs), i)
  <2>1. ASSUME i.op \in BinaryOps \/ i.op = "icmp"
        PROVE  /\ Value(seen, j.args[1]) = Value(regs, i.args[1])
               /\ Value(seen, j.args[2]) = Value(regs, i.args[2])
    <3>1. 1 \in DOMAIN i.args /\ 2 \in DOMAIN i.args
      BY <1>5, <2>1, SMT
    <3>2. i.op \notin {"load", "dbg", "phi"}
      BY <2>1, SMT DEF BinaryOps
    <3> QED BY <1>6, <3>1, <3>2, Zenon
  <2>2. ASSUME i.op \in UnaryOps PROVE Value(seen, j.args[1]) = Value(regs, i.args[1])
    <3>1. 1 \in DOMAIN i.args /\ i.op \notin {"dbg", "phi"}
      BY <1>5, <2>2, SMT DEF UnaryOps
    <3>2. j.args[1] = Replacement(i.args[1], const)
      BY <1>4, <3>1
    <3>3. CASE i.op = "load"
      <4>1. i.args[1] \in m.pointers
        BY <1>7, <1>8, <3>3, Zenon DEF OperandsThere
      <4> QED BY <1>20, <3>2, <4>1
    <3>4. CASE i.op # "load"
      <4>1. i.op \notin {"load", "dbg", "phi"}
        BY <3>1, <3>4
      <4> QED BY <1>6, <3>1, <4>1, Zenon
    <3> QED BY <3>3, <3>4
  <2>3. ASSUME i.op = "phi"
        PROVE  Value(seen, j.args[Taken(j, from)]) = Value(regs, i.args[Taken(i, from)])
    <3>1. Taken(j, from) = Taken(i, from)
      BY <1>3, <1>4 DEF Taken
    <3>2. Taken(i, from) \in DOMAIN i.args
          /\ (IsConstant(i.args[Taken(i, from)]) \/ i.args[Taken(i, from)] \in DOMAIN regs)
      BY <2>3, PhiOperand DEF i
    <3> QED BY <1>4, <1>20, <3>1, <3>2
  <2>4. SameOperands(i, j, from, regs, seen)
    BY <1>3, <2>1, <2>2, <2>3, Zenon DEF SameOperands
  <2> QED BY <1>1, <1>3, <1>13, <2>4, ResultAlike
<1> QED BY <1>1, <1>3, <1>9, <1>10, <1>11, <1>12, <1>13, Zenon DEF Alike, i, j, seen, const

\* a running step of one is a running step of the other
LEMMA OutputMoves ==
    ASSUME NEW m, NEW avail, WellFormed(m), SelfContained(m, avail), NEW b \in Bounds, PointsNamed(b),
           NEW q, SubstitutedTo(m, q, b),
           NEW pos, NEW from, NEW regs, RegistersThere(m, avail, pos, from, regs), Full(b, regs),
           NEW pos2, NEW from2, NEW regs2,
           Step(m, TypeRange, Mach(m, pos, from, regs, "running", 0)) = Mach(m, pos2, from2, regs2, "running", 0)
    PROVE  Step(q, TypeRange, Mach(m, pos, from, Without(regs, ConstantsOf(m, b)), "running", 0)) =
              Mach(m, pos2, from2, Without(regs2, ConstantsOf(m, b)), "running", 0)
<1> DEFINE i == EntryCode(m)[pos]  const == ConstantsOf(m, b)  seen == Without(regs, const)
           next == Step(m, TypeRange, Mach(m, pos, from, regs, "running", 0))
           then == Step(q, TypeRange, Mach(m, pos, from, seen, "running", 0))
<1>1. /\ q.entry = m.entry /\ q.globals = m.globals /\ q.pointers = m.pointers
      /\ pos \in DOMAIN EntryCode(m)
  BY PositionThere, Zenon DEF SubstitutedTo, SameSurroundings
<1>2. next = Mach(m, pos2, from2, regs2, "running", 0)
  OBVIOUS
<1>3. ASSUME NEW p, NEW f, NEW r, NEW s, NEW t, next = Mach(m, p, f, r, s, t)
      PROVE  pos2 = p /\ from2 = f /\ regs2 = r /\ s = "running" /\ t = 0
  <2>1. Mach(m, pos2, from2, regs2, "running", 0) = Mach(m, p, f, r, s, t)
    BY <1>3
  <2> QED BY <2>1, MachineIs
<1>4. CASE Gone(m, b, i)
  <2>1. i.op \in Defining /\ i.dst \in DOMAIN const
    BY <1>1, <1>4, ConstantsAre
  <2>2. Moves(m, pos, from, regs, pos2, from2, regs2)
    BY RunningStep
  <2>3. i.op \notin {"dbg", "erased", "br"}
    BY <2>1 DEF Defining
  <2>4. PICK v : pos2 = pos + 1 /\ from2 = from /\ regs2 = Update(regs, i.dst, v)
    BY <2>2, <2>3, Zenon DEF Moves
  <2>5. Without(regs2, const) = seen
    <3> HIDE DEF const, i
    <3> QED BY <2>1, <2>4 DEF Update, Without
  <2>6. EntryCode(q)[pos].op = "erased"
    <3>1. EntryCode(q)[pos] = Erased
      BY <1>1, <1>4, Zenon DEF SubstitutedTo
    <3> QED BY <3>1 DEF Erased, Instr
  <2>7. then = Mach(m, pos + 1, from, seen, "running", 0)
    <3>1. \A p, f, r, s, t : Mach(q, p, f, r, s, t) = Mach(m, p, f, r, s, t)
      BY <1>1, SameMachine
    <3>2. StepIs(q, pos, from, seen, "running", 0, Step(q, TypeRange, Mach(q, pos, from, seen, "running", 0)))
      BY OneStep
    <3>3. StepIs(q, pos, from, seen, "running", 0, then)
      BY <3>1, <3>2
    <3> HIDE DEF then, seen
    <3>4. then = Mach(q, pos + 1, from, seen, "running", 0)
      BY <2>6, <3>3, Zenon DEF StepIs
    <3> QED BY <3>1, <3>4
  <2> QED BY <2>4, <2>5, <2>7
<1>5. CASE ~Gone(m, b, i)
  <2>1. Alike(m, q, EntryCode(m)[pos], EntryCode(q)[pos], pos, from, regs, seen)
    BY <1>5, AlikeOutput
  <2>2. StepsAlike(m, i, regs, seen, next, then)
    BY <1>1, <2>1, AlikeStep
  <2>3. i.op \in Defining => i.dst \notin DOMAIN const
    BY <1>1, <1>5, ConstantsAre
  <2> HIDE DEF next, then, i
  <2>4. CASE \E p, f, s, t : next = Mach(m, p, f, regs, s, t) /\ then = Mach(m, p, f, seen, s, t)
    BY <1>3, <2>4 DEF then
  <2>5. ASSUME NEW p, NEW f, NEW s, NEW t, NEW v, i.op \in Defining,
               next = Mach(m, p, f, Update(regs, i.dst, v), s, t), then = Mach(m, p, f, Update(seen, i.dst, v), s, t)
        PROVE  then = Mach(m, pos2, from2, Without(regs2, const), "running", 0)
    <3>1. pos2 = p /\ from2 = f /\ regs2 = Update(regs, i.dst, v) /\ s = "running" /\ t = 0
      BY <1>3, <2>5
    <3>2. Without(regs2, const) = Update(seen, i.dst, v)
      <4>1. i.dst \notin DOMAIN const
        BY <2>3, <2>5
      <4> HIDE DEF const
      <4> QED BY <3>1, <4>1 DEF Update, Without
    <3> QED BY <2>5, <3>1, <3>2
  <2>6. then = Mach(m, pos2, from2, Without(regs2, const), "running", 0)
    BY <2>2, <2>4, <2>5, Zenon DEF StepsAlike, then
  <2> QED BY <2>6 DEF then
<1> QED BY <1>4, <1>5

\* where one returns, the other does, with the same result
LEMMA OutputReturns ==
    ASSUME NEW m, NEW avail, WellFormed(m), SelfContained(m, avail), NEW b \in Bounds, PointsNamed(b),
           NEW q, SubstitutedTo(m, q, b),
           NEW pos, NEW from, NEW regs, RegistersThere(m, avail, pos, from, regs), Full(b, regs),
           EntryCode(m)[pos].op = "ret"
    PROVE  Step(q, TypeRange, Mach(m, pos, from, Without(regs, ConstantsOf(m, b)), "running", 0)) =
              Mach(m, pos, from, Without(regs, ConstantsOf(m, b)), "returned", Returned(EntryCode(m)[pos], regs))
<1> DEFINE i == EntryCode(m)[pos]  j == EntryCode(q)[pos]  seen == Without(regs, ConstantsOf(m, b))
<1>1. /\ q.entry = m.entry /\ q.globals = m.globals /\ q.pointers = m.pointers
      /\ pos \in DOMAIN EntryCode(m)
  BY PositionThere, Zenon DEF SubstitutedTo, SameSurroundings
<1>2. ~Gone(m, b, i)
  <2>1. Gone(m, b, i) => i.op \in Defining
    BY <1>1, ConstantsAre
  <2>2. "ret" \notin Defining
    BY DEF Defining
  <2> QED BY <2>1, <2>2
<1>3. Alike(m, q, i, j, pos, from, regs, seen)
  BY <1>2, AlikeOutput
<1> HIDE DEF seen
<1>4. j.op = "ret" /\ Returned(j, seen) = Returned(i, regs)
  BY <1>3, Zenon DEF Alike
<1>5. \A p, f, r, s, t : Mach(q, p, f, r, s, t) = Mach(m, p, f, r, s, t)
  BY <1>1, SameMachine
<1>6. StepIs(q, pos, from, seen, "running", 0, Step(q, TypeRange, Mach(q, pos, from, seen, "running", 0)))
  BY OneStep
<1> DEFINE then == Step(q, TypeRange, Mach(q, pos, from, seen, "running", 0))
<1> HIDE DEF then
<1>7. then = Mach(q, pos, from, seen, "returned", Returned(j, seen))
  BY <1>4, <1>6, Zenon DEF StepIs, Returned, then
<1> QED BY <1>4, <1>5, <1>7 DEF seen, then

-----------------------------------------------------------------------------
(* A run that returns has passed the checks of its sensors: what each of   *)
(* its registers was in between is what was checked.                       *)

\* while a debug intrinsic is to come, a register is a parameter or was
\* defined at a position before
Fresh(m, pos, regs) ==
    \A k \in DOMAIN EntryCode(m) :
        EntryCode(m)[k].op = "dbg" /\ k >= pos =>
            \A n \in DOMAIN regs :
                \/ \E j \in DOMAIN m.body[m.entry].params : m.body[m.entry].params[j] = n
                \/ \E j \in DOMAIN EntryCode(m) :
                      j < pos /\ EntryCode(m)[j].op \in Defining /\ EntryCode(m)[j].dst = n

\* From a position with regs to a later one with regs2: a register that was
\* to be checked still is, with the value it had, or has been.
Since(m, pos, regs, pos2, regs2) ==
    \A k \in DOMAIN EntryCode(m) :
        LET i == EntryCode(m)[k]  n == i.args[1]
        IN  i.op = "dbg" /\ k >= pos /\ n \in DOMAIN regs =>
               IF k >= pos2 THEN n \in DOMAIN regs2 /\ regs2[n] = regs[n]
               ELSE i.name \in DOMAIN TypeRange => In(regs[n], TypeRange[i.name])

\* A step defines nothing whose check comes later but what it stands before.
LEMMA FreshMoves ==
    ASSUME NEW m, NEW avail, WellFormed(m), SelfContained(m, avail),
           NEW pos, NEW from, NEW regs, RegistersThere(m, avail, pos, from, regs), Fresh(m, pos, regs),
           NEW pos2, NEW from2, NEW regs2, Moves(m, pos, from, regs, pos2, from2, regs2)
    PROVE  Fresh(m, pos2, regs2)
<1> DEFINE code == EntryCode(m)
<1>1. pos \in DOMAIN code /\ DOMAIN code = 1 .. Len(code) /\ Len(code) \in Nat
  BY PositionThere, EntryShape
<1> SUFFICES ASSUME NEW k \in DOMAIN code, code[k].op = "dbg", k >= pos2, NEW n \in DOMAIN regs2
             PROVE  \/ \E j \in DOMAIN m.body[m.entry].params : m.body[m.entry].params[j] = n
                    \/ \E j \in DOMAIN code : j < pos2 /\ code[j].op \in Defining /\ code[j].dst = n
  BY Zenon DEF Fresh
<1>2. CASE code[pos].op = "br"
  <2>1. pos2 \in Successors(code, pos)
    <3>1. code[pos].op \notin Defining /\ code[pos].op \notin {"dbg", "erased"}
      BY <1>2 DEF Defining
    <3> QED BY <3>1, Zenon DEF Moves
  <2>2. k < pos2
    BY <1>1, <1>2, <2>1, Zenon DEF SelfContained, ChecksFirst, EntryCode
  <2>3. pos2 \in Int
    <3>1. pos \in DOMAIN avail /\ DOMAIN avail \subseteq DOMAIN code
      BY Zenon DEF SelfContained, Dominated, RegistersThere, EntryCode
    <3>2. pos2 \in DOMAIN avail
      BY <2>1, <3>1, Zenon DEF SelfContained, Dominated, EntryCode
    <3> QED BY <1>1, <3>1, <3>2
  <2> HIDE DEF code
  <2> QED BY <1>1, <2>2, <2>3, SMT
<1>3. CASE code[pos].op # "br"
  <2>1. /\ pos2 = pos + 1
        /\ n \in DOMAIN regs \/ (code[pos].op \in Defining /\ n = code[pos].dst)
    BY <1>3 DEF Moves, Update
  <2>2. k >= pos /\ pos < pos2 /\ \A j \in DOMAIN code : j < pos => j < pos2
    <3> HIDE DEF code
    <3> QED BY <1>1, <2>1, SMT
  <2>3. CASE n \in DOMAIN regs
    BY <2>2, <2>3, Zenon DEF Fresh
  <2>4. CASE code[pos].op \in Defining /\ n = code[pos].dst
    BY <1>1, <2>2, <2>4, Zenon
  <2> QED BY <2>1, <2>3, <2>4
<1> QED BY <1>2, <1>3

\* A step passes the check it is at and changes no register that is still to be checked.
LEMMA SinceMoves ==
    ASSUME NEW m, NEW avail, WellFormed(m), SelfContained(m, avail), Follow(m),
           NEW pos, NEW from, NEW regs, RegistersThere(m, avail, pos, from, regs), Fresh(m, pos, regs),
           NEW pos0, NEW regs0, Since(m, pos0, regs0, pos, regs),
           NEW pos2, NEW from2, NEW regs2, Moves(m, pos, from, regs, pos2, from2, regs2)
    PROVE  Since(m, pos0, regs0, pos2, regs2)
<1> DEFINE code == EntryCode(m)
<1>1. pos \in DOMAIN code /\ DOMAIN code = 1 .. Len(code) /\ Len(code) \in Nat
  BY PositionThere, EntryShape
<1> SUFFICES ASSUME NEW k \in DOMAIN code, code[k].op = "dbg", k >= pos0, NEW n \in DOMAIN regs0,
                    n = code[k].args[1]
             PROVE  IF k >= pos2 THEN n \in DOMAIN regs2 /\ regs2[n] = regs0[n]
                    ELSE code[k].name \in DOMAIN TypeRange => In(regs0[n], TypeRange[code[k].name])
  BY Zenon DEF Since
<1>2. IF k >= pos THEN n \in DOMAIN regs /\ regs[n] = regs0[n]
      ELSE code[k].name \in DOMAIN TypeRange => In(regs0[n], TypeRange[code[k].name])
  BY Zenon DEF Since
<1>3. CASE code[pos].op = "br"
  <2>1. pos2 \in Successors(code, pos)
    <3>1. code[pos].op \notin Defining /\ code[pos].op \notin {"dbg", "erased"}
      BY <1>3 DEF Defining
    <3> QED BY <3>1, Zenon DEF Moves
  <2>2. k < pos2 /\ k < pos
    BY <1>1, <1>3, <2>1, Zenon DEF SelfContained, ChecksFirst, EntryCode, Follow
  <2>3. pos2 \in Int
    <3>1. pos \in DOMAIN avail /\ DOMAIN avail \subseteq DOMAIN code
      BY Zenon DEF SelfContained, Dominated, RegistersThere, EntryCode
    <3>2. pos2 \in DOMAIN avail
      BY <2>1, <3>1, Zenon DEF SelfContained, Dominated, EntryCode
    <3> QED BY <1>1, <3>1, <3>2
  <2>4. ~(k >= pos2) /\ ~(k >= pos)
    <3> HIDE DEF code
    <3> QED BY <1>1, <2>2, <2>3, SMT
  <2> QED BY <1>2, <2>4, Zenon
<1>4. CASE code[pos].op # "br"
  <2>1. pos2 = pos + 1
    BY <1>4, Zenon DEF Moves
  <2>2. (k < pos /\ ~(k >= pos2) /\ ~(k >= pos)) \/ (k = pos /\ k >= pos /\ ~(k >= pos2))
        \/ (k > pos /\ k >= pos /\ k >= pos2)
    <3> HIDE DEF code
    <3> QED BY <1>1, <2>1, SMT
  <2>3. CASE ~(k >= pos2) /\ ~(k >= pos)
    BY <1>2, <2>3, Zenon
  <2>4. CASE k = pos /\ k >= pos /\ ~(k >= pos2)
    <3>1. n \in DOMAIN regs /\ regs[n] = regs0[n]
      BY <1>2, <2>4, Zenon
    <3>2. n \notin m.pointers /\ ~IsConstant(n)
      BY <3>1, Zenon DEF RegistersThere
    <3>3. Described(m, code[k], regs) = regs[n]
      BY <3>1, <3>2, Zenon DEF Described, Value
    <3>4. code[pos].op \notin Defining
      BY <2>4 DEF Defining
    <3>5. code[pos].name \in DOMAIN TypeRange => In(Described(m, code[pos], regs), TypeRange[code[pos].name])
      BY <1>4, <2>4, <3>4, Zenon DEF Moves
    <3> QED BY <2>4, <3>1, <3>3, <3>5, Zenon
  <2>5. CASE k > pos /\ k >= pos /\ k >= pos2
    <3>1. n \in DOMAIN regs /\ regs[n] = regs0[n]
      BY <1>2, <2>5, Zenon
    <3>2. regs2 = regs \/ (code[pos].op \in Defining /\ \E v : regs2 = Update(regs, code[pos].dst, v))
      BY <1>4, Zenon DEF Moves
    <3>3. code[pos].op \in Defining => n # code[pos].dst
      <4> SUFFICES ASSUME code[pos].op \in Defining, n = code[pos].dst PROVE FALSE
        OBVIOUS
      <4>1. CASE \E j \in DOMAIN m.body[m.entry].params : m.body[m.entry].params[j] = n
        BY <1>1, <4>1, Zenon DEF SelfContained, SingleAssignment, EntryCode
      <4>2. ASSUME NEW j \in DOMAIN code, j < pos, code[j].op \in Defining, code[j].dst = n PROVE FALSE
        <5>1. code[pos].dst \in DefinedBy(code[j])
          BY <4>2 DEF DefinedBy
        <5>2. j = pos
          BY <1>1, <5>1, Zenon DEF SelfContained, SingleAssignment, EntryCode
        <5> HIDE DEF code
        <5> QED BY <1>1, <4>2, <5>2, SMT
      <4> QED BY <2>5, <3>1, <4>1, <4>2, Zenon DEF Fresh
    <3>4. n \in DOMAIN regs2 /\ regs2[n] = regs[n]
      BY <3>1, <3>2, <3>3 DEF Update
    <3> QED BY <2>5, <3>1, <3>4, Zenon
  <2> QED BY <2>2, <2>3, <2>4, <2>5
<1> QED BY <1>3, <1>4

\* Where a run that returns was, its registers were in their ranges: in those
\* of the module itself, and of one that describes the same variables.
LEMMA ReturnedFull ==
    ASSUME NEW m, Plain(m), NEW q, WellFormed(q), q.pointers = m.pointers,
           NEW avail, NEW b, NEW born, NEW p, Explains(q, b, born, p),
           NEW pos, NEW from, NEW regs, RunAt(q, avail, b, born, pos, from, regs),
           \A k \in DOMAIN EntryCode(q) :
              EntryCode(q)[k].op = "dbg" =>
                 /\ k \in DOMAIN EntryCode(m) /\ EntryCode(m)[k].op = "dbg"
                 /\ EntryCode(m)[k].args[1] = EntryCode(q)[k].args[1]
                 /\ EntryCode(m)[k].name = EntryCode(q)[k].name,
           NEW last \in DOMAIN EntryCode(m), EntryCode(m)[last].op = "ret", WellFormed(m),
           NEW regs2, Since(m, pos, regs, last, regs2)
    PROVE  Full(b, regs)
<1> SUFFICES ASSUME NEW n \in DOMAIN regs \cap DOMAIN b, Ahead(q, born, n, pos) PROVE In(regs[n], b[n])
  BY Zenon DEF RunAt, Contained, Full
<1>1. n \notin q.pointers
  BY Zenon DEF RunAt, RegistersThere
<1> DEFINE k == born[n]
<1>2. /\ k \in DOMAIN EntryCode(q) /\ EntryCode(q)[k].op = "dbg" /\ k >= pos
      /\ Gave(q, b, born, EntryCode(q)[k], k, n)
  BY <1>1, EntryOrigin, Zenon DEF Ahead
<1>3. "dbg" \notin Inferring
  BY SMT DEF Inferring, BinaryOps, UnaryOps
<1>4. /\ n = EntryCode(q)[k].args[1] /\ EntryCode(q)[k].name \in DOMAIN TypeRange
      /\ b[n] = TypeRange[EntryCode(q)[k].name]
  BY <1>2, <1>3, Zenon DEF Gave
<1>5. /\ k \in DOMAIN EntryCode(m) /\ EntryCode(m)[k].op = "dbg"
      /\ EntryCode(m)[k].args[1] = n /\ EntryCode(m)[k].name = EntryCode(q)[k].name
  BY <1>2, <1>4, Zenon
<1>6. ~(k >= last)
  <2>1. k < last
    BY <1>5, Zenon DEF Plain
  <2>2. k \in Int /\ last \in Int
    BY <1>5, EntryShape
  <2> HIDE DEF k
  <2> QED BY <2>1, <2>2, SMT
<1>7. In(regs[n], TypeRange[EntryCode(m)[k].name])
  BY <1>2, <1>4, <1>5, <1>6, Zenon DEF Since
<1> QED BY <1>4, <1>5, <1>7

-----------------------------------------------------------------------------
(* The positions of a run, one after the other.                            *)

At0(m, x) == Mach(m, x.pos, x.from, x.regs, "running", 0)

Place(pos, from, regs) == [pos |-> pos, from |-> from, regs |-> regs]

\* tr[0] .. tr[N] are where a run of m has been
Passes(m, avail, b, born, N, tr) ==
    /\ N \in Nat
    /\ tr[0].pos = 1 /\ tr[0].from = 0
    /\ \A t \in 0 .. N : /\ RunAt(m, avail, b, born, tr[t].pos, tr[t].from, tr[t].regs)
                         /\ Fresh(m, tr[t].pos, tr[t].regs)
                         /\ Since(m, tr[t].pos, tr[t].regs, tr[N].pos, tr[N].regs)
    /\ \A t \in 0 .. N : t < N => Step(m, TypeRange, At0(m, tr[t])) = At0(m, tr[t + 1])

\* a run starts with its parameters
LEMMA PassesStart ==
    ASSUME NEW m, NEW avail, WellFormed(m), SelfContained(m, avail),
           NEW b, NEW born, NEW p, Explains(m, b, born, p),
           NEW regs \in [{m.body[m.entry].params[k] : k \in DOMAIN m.body[m.entry].params} -> Inputs]
    PROVE  Passes(m, avail, b, born, 0, [t \in {0} |-> Place(1, 0, regs)])
<1> DEFINE tr == [t \in {0} |-> Place(1, 0, regs)]
<1>1. tr[0].pos = 1 /\ tr[0].from = 0 /\ tr[0].regs = regs
  BY DEF Place
<1>2. RunAt(m, avail, b, born, 1, 0, regs)
  BY RunStarts
<1>3. Fresh(m, 1, regs)
  BY DEF Fresh
<1>4. Since(m, 1, regs, 1, regs)
  BY Zenon DEF Since
<1>5. 0 \in Nat /\ \A t \in 0 .. 0 : t = 0 /\ ~(t < 0)
  BY SMT
<1> HIDE DEF tr
<1> QED BY <1>1, <1>2, <1>3, <1>4, <1>5, Zenon DEF Passes, tr

\* and goes on
LEMMA PassesNext ==
    ASSUME NEW m, NEW avail, WellFormed(m), SelfContained(m, avail), Follow(m),
           NEW b, NEW born, NEW p, Explains(m, b, born, p),
           NEW N, NEW tr, Passes(m, avail, b, born, N, tr),
           NEW pos2, NEW from2, NEW regs2, RunAt(m, avail, b, born, pos2, from2, regs2),
           Step(m, TypeRange, At0(m, tr[N])) = Mach(m, pos2, from2, regs2, "running", 0)
    PROVE  \E tr2 : /\ Passes(m, avail, b, born, N + 1, tr2) /\ tr2[0] = tr[0]
                    /\ tr2[N + 1] = Place(pos2, from2, regs2)
<1> DEFINE tr2 == [t \in 0 .. N + 1 |-> IF t \in 0 .. N THEN tr[t] ELSE Place(pos2, from2, regs2)]
           x == tr[N]
<1>1. /\ N \in Nat /\ 0 \in 0 .. N /\ N \in 0 .. N /\ N + 1 \in Nat
      /\ \A t \in 0 .. N + 1 : t \in 0 .. N \/ t = N + 1
      /\ \A t \in 0 .. N : /\ t \in 0 .. N + 1
                           /\ t < N => t + 1 \in 0 .. N
                           /\ t < N \/ t = N
      /\ N + 1 \notin 0 .. N /\ ~(N + 1 < N + 1) /\ N + 1 \in 0 .. N + 1
  BY SMT DEF Passes
<1>2. /\ \A t \in 0 .. N : tr2[t] = tr[t]
      /\ tr2[N + 1] = Place(pos2, from2, regs2)
  BY <1>1
<1>3. /\ Place(pos2, from2, regs2).pos = pos2 /\ Place(pos2, from2, regs2).from = from2
      /\ Place(pos2, from2, regs2).regs = regs2
  BY DEF Place
<1>4. /\ RunAt(m, avail, b, born, x.pos, x.from, x.regs) /\ Fresh(m, x.pos, x.regs)
  BY <1>1, Zenon DEF Passes
<1>5. Moves(m, x.pos, x.from, x.regs, pos2, from2, regs2)
  BY <1>4, RunningStep DEF RunAt, At0
<1>6. Fresh(m, pos2, regs2)
  BY <1>4, <1>5, FreshMoves DEF RunAt
<1> HIDE DEF tr2
<1>7. ASSUME NEW t \in 0 .. N + 1
      PROVE  /\ RunAt(m, avail, b, born, tr2[t].pos, tr2[t].from, tr2[t].regs)
             /\ Fresh(m, tr2[t].pos, tr2[t].regs)
             /\ Since(m, tr2[t].pos, tr2[t].regs, tr2[N + 1].pos, tr2[N + 1].regs)
             /\ t < N + 1 => Step(m, TypeRange, At0(m, tr2[t])) = At0(m, tr2[t + 1])
  <2>1. CASE t \in 0 .. N
    <3>1. /\ RunAt(m, avail, b, born, tr[t].pos, tr[t].from, tr[t].regs)
          /\ Fresh(m, tr[t].pos, tr[t].regs)
          /\ Since(m, tr[t].pos, tr[t].regs, x.pos, x.regs)
      BY <2>1, Zenon DEF Passes
    <3>2. Since(m, tr[t].pos, tr[t].regs, pos2, regs2)
      BY <1>4, <1>5, <3>1, SinceMoves DEF RunAt
    <3>3. CASE t < N
      <4>1. Step(m, TypeRange, At0(m, tr[t])) = At0(m, tr[t + 1])
        BY <2>1, <3>3, Zenon DEF Passes
      <4>2. tr2[t] = tr[t] /\ tr2[t + 1] = tr[t + 1]
        BY <1>1, <1>2, <2>1, <3>3
      <4> QED BY <1>2, <1>3, <3>1, <3>2, <4>1, <4>2
    <3>4. CASE t = N
      <4>1. At0(m, tr2[N + 1]) = Mach(m, pos2, from2, regs2, "running", 0)
        BY <1>2, <1>3 DEF At0
      <4> QED BY <1>1, <1>2, <1>3, <3>1, <3>2, <3>4, <4>1
    <3> QED BY <1>1, <2>1, <3>3, <3>4
  <2>2. CASE t = N + 1
    <3>1. Since(m, pos2, regs2, pos2, regs2)
      BY Zenon DEF Since
    <3> QED BY <1>1, <1>2, <1>3, <1>6, <2>2, <3>1
  <2> QED BY <1>1, <2>1, <2>2
<1>8. tr2[0] = tr[0]
  BY <1>1, <1>2
<1>9. Passes(m, avail, b, born, N + 1, tr2)
  <2>1. tr[0].pos = 1 /\ tr[0].from = 0
    BY Zenon DEF Passes
  <2> QED BY <1>1, <1>7, <1>8, <2>1, Zenon DEF Passes
<1> QED BY <1>2, <1>8, <1>9

-----------------------------------------------------------------------------
(* The output follows a run of the source that returns.                    *)

\* the source module m, its cleaned form mid, and the output q
Written(m, avail, b, mid, b2, born2, q) ==
    /\ WellFormed(m) /\ SelfContained(m, avail) /\ Follow(m) /\ Plain(m) /\ b \in Bounds
    /\ WellFormed(mid) /\ SameSurroundings(m, mid) /\ EntryCode(mid) = Cleaned(m, b)
    /\ Explains(mid, b2, born2, Len(EntryCode(mid)) + 1)
    /\ SubstitutedTo(mid, q, b2) /\ PointsNamed(b2)

MidAvail(m, avail, b) == [k \in Left(m, b) |-> avail[k]]

\* the output is where the source was at x
Follows(m, avail, b, mid, b2, born2, x, mc) ==
    /\ mc = Mach(m, x.pos, x.from, Without(x.regs, ConstantsOf(mid, b2)), "running", 0)
    /\ RunAt(mid, MidAvail(m, avail, b), b2, born2, x.pos, x.from, x.regs)
    /\ Truths(Folded(EntryCode(m), b), x.regs)

\* what is known of the three modules
LEMMA WrittenIs ==
    ASSUME NEW m, NEW avail, NEW b, NEW mid, NEW b2, NEW born2, NEW q,
           Written(m, avail, b, mid, b2, born2, q)
    PROVE  LET truth == Folded(EntryCode(m), b)
           IN  /\ IsTruth(m, b, truth) /\ TruthNames(m, truth)
               /\ Rewrites(m, mid, truth, Left(m, b)) /\ Left(m, b) \subseteq DOMAIN avail
               /\ SelfContained(mid, MidAvail(m, avail, b)) /\ Follow(mid) /\ b2 \in Bounds
               /\ \A k \in DOMAIN EntryCode(mid) :
                     EntryCode(mid)[k].op = "dbg" =>
                        /\ k \in DOMAIN EntryCode(m) /\ EntryCode(m)[k].op = "dbg"
                        /\ EntryCode(m)[k].args[1] = EntryCode(mid)[k].args[1]
                        /\ EntryCode(m)[k].name = EntryCode(mid)[k].name
<1> DEFINE truth == Folded(EntryCode(m), b)  live == Left(m, b)
<1>1. IsTruth(m, b, truth)
  BY FoldedIsTruth
<1>2. TruthNames(m, truth)
  BY <1>1, TruthNamesAre DEF Written
<1>3. Rewrites(m, mid, truth, live) /\ live \subseteq DOMAIN avail
  BY MidRewrites DEF Written
<1>4. \A n \in DOMAIN truth : ConstantValue[truth[n]] >= 0
  <2> SUFFICES ASSUME NEW n \in DOMAIN truth PROVE ConstantValue[truth[n]] >= 0
    OBVIOUS
  <2>1. ConstantValue[truth[n]] \in {0, 1}
    BY <1>1, Zenon DEF IsTruth
  <2> HIDE DEF truth
  <2> QED BY <2>1, SMT
<1> HIDE DEF truth, live
<1>5. SelfContained(mid, MidAvail(m, avail, b))
  <2>1. SelfContained(mid, [k \in live |-> avail[k]])
    BY <1>2, <1>3, RewritesSelfContained DEF Written
  <2> QED BY <2>1 DEF MidAvail, live
<1>6. Follow(mid)
  BY <1>2, <1>3, <1>4, RewritesFollow DEF Written
<1>7. ASSUME NEW k \in DOMAIN EntryCode(mid), EntryCode(mid)[k].op = "dbg"
      PROVE  /\ k \in DOMAIN EntryCode(m) /\ EntryCode(m)[k].op = "dbg"
             /\ EntryCode(m)[k].args[1] = EntryCode(mid)[k].args[1]
             /\ EntryCode(m)[k].name = EntryCode(mid)[k].name
  <2>1. /\ k \in DOMAIN EntryCode(m) /\ k \in live
        /\ EntryCode(mid)[k].op = EntryCode(m)[k].op
    BY <1>3, <1>7, LeftShape DEF Written
  <2>2. EntryCode(m)[k].op \in {"dbg", "rem"}
    BY <1>7, <2>1
  <2>3. /\ EntryCode(mid)[k].args[1] = EntryCode(m)[k].args[1]
        /\ EntryCode(mid)[k].name = EntryCode(m)[k].name
    BY <1>2, <1>3, <2>1, <2>2, DescribedStays DEF Written
  <2> QED BY <1>7, <2>1, <2>3
<1>8. b2 \in Bounds
  BY DEF Written, Explains
<1> QED BY <1>1, <1>2, <1>3, <1>5, <1>6, <1>7, <1>8, Zenon DEF truth, live

\* The output starts where the source starts.
LEMMA FollowsStart ==
    ASSUME NEW m, NEW avail, NEW b, NEW mid, NEW b2, NEW born2, NEW q,
           Written(m, avail, b, mid, b2, born2, q),
           NEW regs \in [{m.body[m.entry].params[k] : k \in DOMAIN m.body[m.entry].params} -> Inputs],
           NEW x, x.pos = 1, x.from = 0, x.regs = regs
    PROVE  Follows(m, avail, b, mid, b2, born2, x, Mach(q, 1, 0, regs, "running", 0))
<1> DEFINE params == m.body[m.entry].params  truth == Folded(EntryCode(m), b)  const == ConstantsOf(mid, b2)
<1>1. /\ IsTruth(m, b, truth) /\ SelfContained(mid, MidAvail(m, avail, b))
      /\ WellFormed(mid) /\ Explains(mid, b2, born2, Len(EntryCode(mid)) + 1)
      /\ SameSurroundings(m, mid) /\ SameSurroundings(mid, q) /\ PointsNamed(b2)
      /\ SelfContained(m, avail)
  BY WrittenIs, Zenon DEF Written, SubstitutedTo
<1>2. /\ mid.body[mid.entry].params = params
      /\ q.entry = m.entry /\ q.globals = m.globals
  BY <1>1, Zenon DEF SameSurroundings
<1>3. DOMAIN regs = {params[k] : k \in DOMAIN params}
  OBVIOUS
<1>4. RunAt(mid, MidAvail(m, avail, b), b2, born2, 1, 0, regs)
  BY <1>1, <1>2, RunStarts
<1> HIDE DEF truth, const
<1>5. Truths(truth, regs)
  <2> SUFFICES ASSUME NEW n \in DOMAIN truth \cap DOMAIN regs PROVE FALSE
    BY DEF Truths
  <2>1. PICK k \in DOMAIN EntryCode(m) : EntryCode(m)[k].op = "icmp" /\ EntryCode(m)[k].dst = n
    BY <1>1, Zenon DEF IsTruth
  <2>2. EntryCode(m)[k].op \in Defining
    BY <2>1 DEF Defining
  <2>3. \A j \in DOMAIN params : params[j] # n
    BY <1>1, <2>1, <2>2, Zenon DEF SelfContained, SingleAssignment, EntryCode
  <2> QED BY <1>3, <2>3
<1>6. Without(regs, const) = regs
  <2>1. \A n \in DOMAIN const : \A j \in DOMAIN params : params[j] # n
    BY <1>1, <1>2, ConstantsAre DEF const
  <2>2. DOMAIN regs \ DOMAIN const = DOMAIN regs
    BY <1>3, <2>1
  <2>3. Without(regs, const) = [n \in DOMAIN regs |-> regs[n]]
    BY <2>2 DEF Without
  <2>4. regs = [n \in DOMAIN regs |-> regs[n]]
    OBVIOUS
  <2> QED BY <2>3, <2>4
<1>7. Mach(q, 1, 0, regs, "running", 0) = Mach(m, 1, 0, regs, "running", 0)
  BY <1>2, SameMachine
<1> QED BY <1>4, <1>5, <1>6, <1>7, Zenon DEF Follows, truth, const

\* What is known where the output follows a run of the source that returns.
LEMMA FollowsFull ==
    ASSUME NEW m, NEW avail, NEW b, NEW mid, NEW b2, NEW born2, NEW q,
           Written(m, avail, b, mid, b2, born2, q),
           NEW born, NEW p, Explains(m, b, born, p), NEW N, NEW tr, Passes(m, avail, b, born, N, tr),
           EntryCode(m)[tr[N].pos].op = "ret", NEW t \in 0 .. N, NEW mc,
           Follows(m, avail, b, mid, b2, born2, tr[t], mc)
    PROVE  Full(b, tr[t].regs) /\ Full(b2, tr[t].regs)
<1> DEFINE x == tr[t]  y == tr[N]
<1>1. /\ RunAt(m, avail, b, born, x.pos, x.from, x.regs)
      /\ Since(m, x.pos, x.regs, y.pos, y.regs)
  BY Zenon DEF Passes
<1>2. N \in 0 .. N
  BY SMT DEF Passes
<1>3. y.pos \in DOMAIN EntryCode(m)
  <2>1. RunAt(m, avail, b, born, y.pos, y.from, y.regs)
    BY <1>2, Zenon DEF Passes
  <2> QED BY <2>1, PositionThere DEF RunAt, Written
<1>4. /\ WellFormed(m) /\ Plain(m) /\ WellFormed(mid) /\ mid.pointers = m.pointers
      /\ Explains(mid, b2, born2, Len(EntryCode(mid)) + 1)
      /\ RunAt(mid, MidAvail(m, avail, b), b2, born2, x.pos, x.from, x.regs)
      /\ EntryCode(m)[y.pos].op = "ret"
  BY Zenon DEF Written, SameSurroundings, Follows
<1>5. \A k \in DOMAIN EntryCode(mid) :
                     EntryCode(mid)[k].op = "dbg" =>
                        /\ k \in DOMAIN EntryCode(m) /\ EntryCode(m)[k].op = "dbg"
                        /\ EntryCode(m)[k].args[1] = EntryCode(mid)[k].args[1]
                        /\ EntryCode(m)[k].name = EntryCode(mid)[k].name
  BY WrittenIs
<1> HIDE DEF x, y
<1>6. Full(b, x.regs)
  BY <1>1, <1>3, <1>4, ReturnedFull
<1>7. Full(b2, x.regs)
  BY <1>1, <1>3, <1>4, <1>5, ReturnedFull
<1> QED BY <1>6, <1>7 DEF x

\* Where the source goes on to, the output goes on to.
LEMMA FollowsMoves ==
    ASSUME NEW m, NEW avail, NEW b, NEW mid, NEW b2, NEW born2, NEW q,
           Written(m, avail, b, mid, b2, born2, q),
           NEW born, NEW p, Explains(m, b, born, p), NEW N, NEW tr, Passes(m, avail, b, born, N, tr),
           EntryCode(m)[tr[N].pos].op = "ret", NEW t \in 0 .. N, t < N, NEW mc,
           Follows(m, avail, b, mid, b2, born2, tr[t], mc)
    PROVE  Follows(m, avail, b, mid, b2, born2, tr[t + 1], Step(q, TypeRange, mc))
<1> DEFINE x == tr[t]  y == tr[t + 1]  truth == Folded(EntryCode(m), b)  live == Left(m, b)
           const == ConstantsOf(mid, b2)  mav == MidAvail(m, avail, b)
<1>1. Full(b, x.regs) /\ Full(b2, x.regs)
  BY FollowsFull
<1>2. /\ RunAt(m, avail, b, born, x.pos, x.from, x.regs)
      /\ Step(m, TypeRange, At0(m, x)) = At0(m, y)
  BY Zenon DEF Passes
<1>3. /\ IsTruth(m, b, truth) /\ TruthNames(m, truth)
      /\ Rewrites(m, mid, truth, live) /\ live \subseteq DOMAIN avail
      /\ SelfContained(mid, mav) /\ Follow(mid) /\ b2 \in Bounds
  BY WrittenIs
<1>4. /\ WellFormed(m) /\ SelfContained(m, avail) /\ Follow(m) /\ Plain(m) /\ b \in Bounds
      /\ WellFormed(mid) /\ SameSurroundings(m, mid)
      /\ Explains(mid, b2, born2, Len(EntryCode(mid)) + 1)
      /\ SubstitutedTo(mid, q, b2) /\ PointsNamed(b2)
  BY Zenon DEF Written
<1>5. /\ mc = Mach(m, x.pos, x.from, Without(x.regs, const), "running", 0)
      /\ RunAt(mid, mav, b2, born2, x.pos, x.from, x.regs)
      /\ Truths(truth, x.regs)
  BY Zenon DEF Follows
<1>6. mid.entry = m.entry /\ mid.globals = m.globals
  BY <1>4, Zenon DEF SameSurroundings
<1>7. mav = [k \in live |-> avail[k]]
  BY DEF MidAvail
<1> HIDE DEF x, y, truth, live, const, mav
<1>8. Step(m, TypeRange, Mach(m, x.pos, x.from, x.regs, "running", 0)) = Mach(m, y.pos, y.from, y.regs, "running", 0)
  BY <1>2, Zenon DEF At0
<1>9. RegistersThere(m, avail, x.pos, x.from, x.regs) /\ RegistersThere(mid, mav, x.pos, x.from, x.regs)
  BY <1>2, <1>5, Zenon DEF RunAt
<1>10. Step(mid, TypeRange, Mach(m, x.pos, x.from, x.regs, "running", 0)) =
          Step(m, TypeRange, Mach(m, x.pos, x.from, x.regs, "running", 0))
  BY <1>3, <1>4, <1>5, <1>7, <1>9, MidStep
<1>11. \A pp, f, r, s, z : Mach(mid, pp, f, r, s, z) = Mach(m, pp, f, r, s, z)
  BY <1>6, SameMachine
<1>12. Step(mid, TypeRange, Mach(mid, x.pos, x.from, x.regs, "running", 0)) = Mach(mid, y.pos, y.from, y.regs, "running", 0)
  BY <1>8, <1>10, <1>11
<1>13. Truths(truth, y.regs)
  <2>1. Moves(m, x.pos, x.from, x.regs, y.pos, y.from, y.regs)
    BY <1>4, <1>8, <1>9, RunningStep
  <2> QED BY <1>1, <1>3, <1>4, <1>5, <1>9, <2>1, TruthsStay
<1>14. RunAt(mid, mav, b2, born2, y.pos, y.from, y.regs)
  <2>1. PICK pos2, from2, regs2, st2, res2 :
          /\ Step(mid, TypeRange, Mach(mid, x.pos, x.from, x.regs, "running", 0)) = Mach(mid, pos2, from2, regs2, st2, res2)
          /\ RunAt(mid, mav, b2, born2, pos2, from2, regs2)
    BY <1>3, <1>4, <1>5, RunStep
  <2>2. pos2 = y.pos /\ from2 = y.from /\ regs2 = y.regs
    BY <1>12, <2>1, MachineIs
  <2> QED BY <2>1, <2>2
<1>15. Step(q, TypeRange, mc) = Mach(m, y.pos, y.from, Without(y.regs, const), "running", 0)
  <2>1. Step(q, TypeRange, Mach(mid, x.pos, x.from, Without(x.regs, const), "running", 0)) =
           Mach(mid, y.pos, y.from, Without(y.regs, const), "running", 0)
    BY <1>1, <1>3, <1>4, <1>9, <1>12, OutputMoves DEF const
  <2> QED BY <1>5, <1>11, <2>1
<1> QED BY <1>13, <1>14, <1>15, Zenon DEF Follows, x, y, truth, const, mav

\* Where the source returns, the output returns the same.
LEMMA FollowsReturns ==
    ASSUME NEW m, NEW avail, NEW b, NEW mid, NEW b2, NEW born2, NEW q,
           Written(m, avail, b, mid, b2, born2, q),
           NEW born, NEW p, Explains(m, b, born, p), NEW N, NEW tr, Passes(m, avail, b, born, N, tr),
           EntryCode(m)[tr[N].pos].op = "ret", NEW mc,
           Follows(m, avail, b, mid, b2, born2, tr[N], mc)
    PROVE  /\ Step(q, TypeRange, mc).status = "returned"
           /\ Step(q, TypeRange, mc).result = Returned(EntryCode(m)[tr[N].pos], tr[N].regs)
           /\ \E res : Step(q, TypeRange, mc) =
                Mach(m, tr[N].pos, tr[N].from, Without(tr[N].regs, ConstantsOf(mid, b2)), "returned", res)
<1> DEFINE x == tr[N]  truth == Folded(EntryCode(m), b)  live == Left(m, b)
           const == ConstantsOf(mid, b2)  mav == MidAvail(m, avail, b)
           i == EntryCode(m)[x.pos]  j == EntryCode(mid)[x.pos]
<1>0. N \in 0 .. N
  BY SMT DEF Passes
<1>1. Full(b2, x.regs)
  BY <1>0, FollowsFull
<1>2. RunAt(m, avail, b, born, x.pos, x.from, x.regs)
  BY <1>0, Zenon DEF Passes
<1>3. /\ TruthNames(m, truth) /\ Rewrites(m, mid, truth, live) /\ live \subseteq DOMAIN avail
      /\ SelfContained(mid, mav) /\ b2 \in Bounds
  BY WrittenIs
<1>4. /\ WellFormed(m) /\ SelfContained(m, avail)
      /\ WellFormed(mid) /\ SameSurroundings(m, mid)
      /\ SubstitutedTo(mid, q, b2) /\ PointsNamed(b2)
  BY Zenon DEF Written
<1>5. /\ mc = Mach(m, x.pos, x.from, Without(x.regs, const), "running", 0)
      /\ RunAt(mid, mav, b2, born2, x.pos, x.from, x.regs)
      /\ Truths(truth, x.regs)
  BY Zenon DEF Follows
<1>6. mid.entry = m.entry /\ mid.globals = m.globals
  BY <1>4, Zenon DEF SameSurroundings
<1>7. mav = [k \in live |-> avail[k]] /\ i.op = "ret"
  BY DEF MidAvail
<1> HIDE DEF x, truth, live, const, mav, i, j
<1>8. RegistersThere(m, avail, x.pos, x.from, x.regs) /\ RegistersThere(mid, mav, x.pos, x.from, x.regs)
  BY <1>2, <1>5, Zenon DEF RunAt
<1>9. Alike(m, mid, i, j, x.pos, x.from, x.regs, x.regs)
  BY <1>3, <1>4, <1>5, <1>7, <1>8, AlikeMid DEF i, j
<1>10. j.op = "ret" /\ Returned(j, x.regs) = Returned(i, x.regs)
  BY <1>7, <1>9, Zenon DEF Alike
<1>11. Step(q, TypeRange, Mach(mid, x.pos, x.from, Without(x.regs, const), "running", 0)) =
          Mach(mid, x.pos, x.from, Without(x.regs, const), "returned", Returned(j, x.regs))
  BY <1>1, <1>3, <1>4, <1>8, <1>10, OutputReturns DEF j, const
<1>12. Mach(mid, x.pos, x.from, Without(x.regs, const), "running", 0) = mc
  BY <1>5, <1>6, SameMachine
<1>13. \A pp, f, r, s, z : Mach(mid, pp, f, r, s, z).status = s /\ Mach(mid, pp, f, r, s, z).result = z
  BY DEF Mach
<1>14. Step(q, TypeRange, mc) = Mach(m, x.pos, x.from, Without(x.regs, const), "returned", Returned(j, x.regs))
  BY <1>6, <1>11, <1>12, SameMachine
<1> QED BY <1>10, <1>11, <1>12, <1>13, <1>14 DEF x, i, const

-----------------------------------------------------------------------------
(* The driver: what the second pass over the module keeps for the runs.    *)

\* the parts of a module and of its functions
Shaped(m) ==
    /\ m = [order |-> m.order, entry |-> m.entry, body |-> m.body,
            globals |-> m.globals, pointers |-> m.pointers]
    /\ m.entry \in DOMAIN m.body /\ m.body = [fn \in DOMAIN m.body |-> m.body[fn]]
    /\ \A fn \in DOMAIN m.body : m.body[fn] = [params |-> m.body[fn].params, code |-> m.body[fn].code]

\* A well-formed module has its parts.
LEMMA ShapedIs ==
    ASSUME NEW m, WellFormed(m)
    PROVE  Shaped(m)
BY Zenon DEF WellFormed, WellFormedFunction, Shaped

\* the module q has other code for one function of m
OtherCode(m, q, fn, code) ==
    /\ Shaped(q) /\ SameSurroundings(m, q) /\ DOMAIN q.body = DOMAIN m.body
    /\ EntryCode(q) = IF fn = m.entry THEN code ELSE EntryCode(m)

\* WithCode gives one function other code.
LEMMA WithCodeIs ==
    ASSUME Shaped(prog), NEW fn \in DOMAIN prog.body, NEW code
    PROVE  OtherCode(prog, WithCode(fn, code), fn, code)
<1> DEFINE f == [prog.body[fn] EXCEPT !.code = code]  body == [prog.body EXCEPT ![fn] = f]
<1>1. /\ prog = [order |-> prog.order, entry |-> prog.entry, body |-> prog.body,
                 globals |-> prog.globals, pointers |-> prog.pointers]
      /\ prog.body = [g \in DOMAIN prog.body |-> prog.body[g]]
      /\ prog.entry \in DOMAIN prog.body
      /\ \A g \in DOMAIN prog.body : prog.body[g] = [params |-> prog.body[g].params, code |-> prog.body[g].code]
  BY Zenon DEF Shaped
<1>2. WithCode(fn, code) = [prog EXCEPT !.body = body]
  BY <1>1 DEF WithCode
<1>3. f = [params |-> prog.body[fn].params, code |-> code]
  BY <1>1
<1>4. f.params = prog.body[fn].params /\ f.code = code /\ f = [params |-> f.params, code |-> f.code]
  BY <1>3
<1> HIDE DEF f
<1>5. /\ DOMAIN body = DOMAIN prog.body /\ body = [g \in DOMAIN body |-> body[g]]
      /\ body[fn] = f /\ \A g \in DOMAIN body : g # fn => body[g] = prog.body[g]
  BY <1>1
<1> HIDE DEF body
<1> DEFINE q == [prog EXCEPT !.body = body]
<1>6. /\ q = [order |-> prog.order, entry |-> prog.entry, body |-> body,
              globals |-> prog.globals, pointers |-> prog.pointers]
      /\ q.order = prog.order /\ q.entry = prog.entry /\ q.body = body
      /\ q.globals = prog.globals /\ q.pointers = prog.pointers
  BY <1>1
<1> HIDE DEF q
<1>7. \A g \in DOMAIN body : body[g] = [params |-> body[g].params, code |-> body[g].code]
  BY <1>1, <1>4, <1>5
<1>8. Shaped(q)
  BY <1>1, <1>5, <1>6, <1>7, Zenon DEF Shaped
<1>9. body[prog.entry].params = prog.body[prog.entry].params
  BY <1>1, <1>4, <1>5
<1>10. body[prog.entry].code = IF fn = prog.entry THEN code ELSE prog.body[prog.entry].code
  BY <1>1, <1>4, <1>5
<1>11. OtherCode(prog, q, fn, code)
  BY <1>5, <1>6, <1>8, <1>9, <1>10 DEF OtherCode, SameSurroundings, EntryCode
<1> QED BY <1>2, <1>11 DEF q

\* the cleanup, for the entry function
LEMMA CleanedModule ==
    ASSUME Shaped(prog), NEW q,
           q = [prog EXCEPT !.body = [fn \in DOMAIN prog.body |-> [prog.body[fn] EXCEPT !.code = CleanCFG(Code(fn))]]]
    PROVE  SameSurroundings(prog, q) /\ EntryCode(q) = CleanCFG(EntryCode(prog))
<1> DEFINE body == [fn \in DOMAIN prog.body |-> [prog.body[fn] EXCEPT !.code = CleanCFG(Code(fn))]]
<1>1. /\ prog = [order |-> prog.order, entry |-> prog.entry, body |-> prog.body,
                 globals |-> prog.globals, pointers |-> prog.pointers]
      /\ prog.entry \in DOMAIN prog.body
      /\ \A g \in DOMAIN prog.body : prog.body[g] = [params |-> prog.body[g].params, code |-> prog.body[g].code]
  BY Zenon DEF Shaped
<1>2. body[prog.entry] = [params |-> prog.body[prog.entry].params, code |-> CleanCFG(Code(prog.entry))]
  BY <1>1
<1>3. body[prog.entry].params = prog.body[prog.entry].params /\ body[prog.entry].code = CleanCFG(Code(prog.entry))
  BY <1>2
<1> HIDE DEF body
<1>4. q = [prog EXCEPT !.body = body]
  BY DEF body
<1>5. /\ q.entry = prog.entry /\ q.body = body /\ q.globals = prog.globals /\ q.pointers = prog.pointers
  BY <1>1, <1>4
<1> QED BY <1>3, <1>5 DEF SameSurroundings, EntryCode, Code

-----------------------------------------------------------------------------
(* The functions a pass has still to visit.                                *)

Distinct(s) == \A j, k \in DOMAIN s : s[j] = s[k] => j = k
Awaits(s, x) == \E k \in DOMAIN s : s[k] = x

\* the first is visited, the others stay
LEMMA TailVisits ==
    ASSUME NEW S, NEW s \in Seq(S), s # <<>>, Distinct(s), NEW x
    PROVE  /\ Head(s) \in S /\ Distinct(Tail(s))
           /\ Awaits(Tail(s), x) <=> Awaits(s, x) /\ x # Head(s)
<1>1. /\ Head(s) \in S /\ Head(s) = s[1] /\ 1 \in DOMAIN s
      /\ DOMAIN Tail(s) = 1 .. Len(s) - 1 /\ DOMAIN s = 1 .. Len(s) /\ Len(s) \in Nat
      /\ \A k \in DOMAIN Tail(s) : Tail(s)[k] = s[k + 1] /\ k + 1 \in DOMAIN s
  BY SMT
<1>2. Distinct(Tail(s))
  BY <1>1, SMT DEF Distinct
<1>3. ASSUME Awaits(Tail(s), x) PROVE Awaits(s, x) /\ x # Head(s)
  <2>1. PICK k \in DOMAIN Tail(s) : Tail(s)[k] = x
    BY <1>3 DEF Awaits
  <2>2. s[k + 1] = x /\ k + 1 \in DOMAIN s /\ k + 1 # 1
    BY <1>1, <2>1, SMT
  <2> QED BY <1>1, <2>2 DEF Awaits, Distinct
<1>4. ASSUME Awaits(s, x), x # Head(s) PROVE Awaits(Tail(s), x)
  <2>1. PICK k \in DOMAIN s : s[k] = x
    BY <1>4 DEF Awaits
  <2>2. k - 1 \in DOMAIN Tail(s) /\ (k - 1) + 1 = k
    BY <1>1, <1>4, <2>1, SMT
  <2> QED BY <1>1, <2>1, <2>2 DEF Awaits
<1> QED BY <1>1, <1>2, <1>3, <1>4

\* there is nothing in the empty sequence
LEMMA NoneLeft == ASSUME NEW x PROVE ~Awaits(<<>>, x)
BY DEF Awaits

-----------------------------------------------------------------------------
\* constantSubstitution on the entry function
LEMMA SubstitutionIs ==
    ASSUME Shaped(prog), NEW mid, WellFormed(mid), SameSurroundings(mid, prog), EntryCode(prog) = EntryCode(mid),
           NEW b, NEW q, SameSurroundings(prog, q), EntryCode(q) = constantSubstitution(prog.entry, b)
    PROVE  SubstitutedTo(mid, q, b)
<1> DEFINE code == EntryCode(mid)
           gone == {k \in DOMAIN code : Gone(mid, b, code[k])}
           new == ReplaceUses(code, ConstantsOf(mid, b))
<1>1. Code(prog.entry) = code /\ prog.pointers = mid.pointers /\ Positions(prog.entry) = DOMAIN code
  BY DEF SameSurroundings, EntryCode, Code, Positions
<1>2. gone = {k \in Positions(prog.entry) : Replaced(Code(prog.entry)[k], b)}
  BY <1>1 DEF Gone, Replaced
<1>3. ConstantsOf(mid, b) = [n \in {Code(prog.entry)[k].dst : k \in gone} |-> ConstantFor(b[n].lo)]
  BY <1>1 DEF ConstantsOf
<1>4. constantSubstitution(prog.entry, b) =
         [k \in DOMAIN code |-> IF k \in gone \/ PointsToConstant(new[k]) THEN Erased ELSE new[k]]
  BY <1>1, <1>2, <1>3, Zenon DEF constantSubstitution
<1>5. SameSurroundings(mid, q)
  BY DEF SameSurroundings
<1>6. ASSUME NEW k \in DOMAIN code
      PROVE  /\ new[k].op = code[k].op /\ new[k].dst = code[k].dst /\ new[k].at = code[k].at
             /\ new[k].name = code[k].name /\ new[k].args = WithUses(code[k].args, ConstantsOf(mid, b))
  <2>1. code[k] = [op |-> code[k].op, dst |-> code[k].dst, args |-> code[k].args,
                   at |-> code[k].at, name |-> code[k].name]
    BY EntryInstr, Zenon DEF WellFormedInstr
  <2>2. new[k] = [code[k] EXCEPT !.args = WithUses(code[k].args, ConstantsOf(mid, b))]
    BY DEF ReplaceUses, WithUses, Replacement
  <2> HIDE DEF new, code
  <2> QED BY <2>1, <2>2
<1> HIDE DEF new
<1>7. ASSUME NEW k \in DOMAIN code
      PROVE  IF Gone(mid, b, code[k]) THEN EntryCode(q)[k] = Erased
             ELSE code[k].op # "store" =>
                    /\ EntryCode(q)[k].op = code[k].op /\ EntryCode(q)[k].dst = code[k].dst
                    /\ EntryCode(q)[k].at = code[k].at /\ EntryCode(q)[k].name = code[k].name
                    /\ EntryCode(q)[k].args = WithUses(code[k].args, ConstantsOf(mid, b))
  <2>1. EntryCode(q)[k] = IF k \in gone \/ PointsToConstant(new[k]) THEN Erased ELSE new[k]
    BY <1>4
  <2>2. PointsToConstant(new[k]) => code[k].op = "store"
    BY <1>6 DEF PointsToConstant
  <2> QED BY <1>6, <2>1, <2>2
<1>8. DOMAIN EntryCode(q) = DOMAIN code
  BY <1>4
<1> QED BY <1>5, <1>7, <1>8, Zenon DEF SubstitutedTo

-----------------------------------------------------------------------------
(* What the driver has made of the module, phase by phase.                 *)

\* the cleaned entry function has the instructions the walk is followed through
LEMMA CleanedOwn ==
    ASSUME NEW m, NEW avail, WellFormed(m), SelfContained(m, avail), NEW b,
           NEW mid, SameSurroundings(m, mid), EntryCode(mid) = Cleaned(m, b)
    PROVE  OwnInstructions(mid)
<1>1. Rewrites(m, mid, Folded(EntryCode(m), b), Left(m, b)) /\ Left(m, b) \subseteq DOMAIN avail
  BY MidRewrites
<1>2. TruthNames(m, Folded(EntryCode(m), b))
  BY FoldedIsTruth, TruthNamesAre
<1>3. SelfContained(mid, [k \in Left(m, b) |-> avail[k]])
  BY <1>1, <1>2, RewritesSelfContained
<1> QED BY <1>3 DEF SelfContained

\* the module that the second analysis is of
MidOf(mid) ==
    /\ WellFormed(mid) /\ SameSurroundings(source, mid)
    /\ EntryCode(mid) = Cleaned(source, sourceInfo[source.entry])

\* it has been analysed
AnalysedMid(mid) ==
    /\ MidOf(mid)
    /\ OwnInstructions(mid) =>
          /\ source.entry \in DOMAIN funcBoundInfo
          /\ Explained(mid, funcBoundInfo[source.entry], Len(EntryCode(mid)) + 1)

\* how far simplifyControlFlow has come, and constantSubstitution
Simplified ==
    /\ funcBoundInfo = sourceInfo /\ SameSurroundings(source, prog) /\ Distinct(pending)
    /\ EntryCode(prog) = IF Awaits(pending, source.entry) THEN EntryCode(source)
                         ELSE simplifyControlFlow(EntryCode(source), sourceInfo[source.entry])

Substituted(mid) ==
    /\ Shaped(prog) /\ SameSurroundings(mid, prog) /\ Distinct(pending)
    /\ IF Awaits(pending, source.entry) THEN EntryCode(prog) = EntryCode(mid)
       ELSE SubstitutedTo(mid, prog, funcBoundInfo[source.entry])

RewriteInv ==
    /\ phase = "simplify" => Simplified
    /\ phase = "reanalyse" => MidOf(prog) /\ (OwnInstructions(prog) => WalkInv)
    /\ phase = "substitute" => \E mid : AnalysedMid(mid) /\ Substituted(mid)
    /\ phase \in {"source", "output"} =>
          \E mid : AnalysedMid(mid) /\ SubstitutedTo(mid, prog, funcBoundInfo[source.entry])

\* A pass begins with every function still to visit.
LEMMA RewriteBegins ==
    ASSUME CurrentInv, DriverInv, RewriteInv, BeginPass
    PROVE  RewriteInv'
<1>1. /\ phase \in {"analyse", "reanalyse"} /\ Analysed
      /\ phase' = IF phase = "analyse" THEN "simplify" ELSE "substitute"
      /\ pending' = prog.order /\ source' = source /\ prog' = prog /\ funcBoundInfo' = funcBoundInfo
      /\ sourceInfo' = IF phase = "analyse" THEN funcBoundInfo ELSE sourceInfo
  BY DEF BeginPass, vars
<1>2. WellFormed(prog)
  BY <1>1 DEF CurrentInv, IInv, Shape
<1>3. Distinct(prog.order) /\ Awaits(prog.order, prog.entry) /\ Shaped(prog)
  BY <1>2, ShapedIs, Zenon DEF WellFormed, Distinct, Awaits
<1>4. CASE phase = "analyse"
  <2>1. /\ phase' = "simplify" /\ prog = source /\ sourceInfo' = funcBoundInfo
    BY <1>1, <1>4 DEF DriverInv, AnalysisKept
  <2>2. SameSurroundings(source, prog)
    BY <2>1 DEF SameSurroundings
  <2>3. Simplified'
    BY <1>1, <1>3, <2>1, <2>2, Zenon DEF Simplified, SameSurroundings, EntryCode
  <2> QED BY <2>1, <2>3 DEF RewriteInv
<1>5. CASE phase = "reanalyse"
  <2>1. /\ phase' = "substitute" /\ sourceInfo' = sourceInfo
        /\ MidOf(prog) /\ (OwnInstructions(prog) => WalkInv)
    BY <1>1, <1>5 DEF RewriteInv
  <2>2. source.entry = prog.entry
    BY <2>1 DEF MidOf, SameSurroundings
  <2>3. OwnInstructions(prog) =>
           /\ source.entry \in DOMAIN funcBoundInfo
           /\ Explained(prog, funcBoundInfo[source.entry], Len(EntryCode(prog)) + 1)
    <3>1. SUFFICES ASSUME WalkInv
                   PROVE  /\ prog.entry \in DOMAIN funcBoundInfo
                          /\ Explained(prog, funcBoundInfo[prog.entry], Len(EntryCode(prog)) + 1)
      BY <2>1, <2>2
    <3>2. prog.entry \in DOMAIN funcBoundInfo
      BY <1>1, <3>1, SMT DEF WalkInv, EntryWalked, Analysed
    <3> QED BY <1>1, <3>1, <3>2, AnalysisRecorded
  <2>4. SameSurroundings(prog, prog)
    BY DEF SameSurroundings
  <2>5. AnalysedMid(prog)' /\ Substituted(prog)'
    BY <1>1, <1>3, <2>1, <2>2, <2>3, <2>4, Zenon DEF AnalysedMid, MidOf, Substituted
  <2> QED BY <2>1, <2>5 DEF RewriteInv
<1> QED BY <1>1, <1>4, <1>5

\* simplifyControlFlow reaches the entry function once.
LEMMA RewriteSimplifies ==
    ASSUME CurrentInv, DriverInv, RewriteInv, Simplify
    PROVE  RewriteInv'
<1> DEFINE fn == Head(pending)  code == simplifyControlFlow(Code(fn), funcBoundInfo[fn])
<1>1. /\ phase = "simplify" /\ phase' = phase /\ pending # <<>> /\ pending' = Tail(pending)
      /\ prog' = WithCode(fn, code)
      /\ funcBoundInfo' = funcBoundInfo /\ source' = source /\ sourceInfo' = sourceInfo
  BY Zenon DEF Simplify
<1>2. WellFormed(prog) /\ pending \in Seq(DOMAIN prog.body) /\ Simplified
  BY <1>1 DEF CurrentInv, IInv, Shape, RewriteInv
<1>3. /\ fn \in DOMAIN prog.body /\ Distinct(Tail(pending))
      /\ Awaits(Tail(pending), source.entry) <=> Awaits(pending, source.entry) /\ source.entry # fn
  BY <1>1, <1>2, TailVisits DEF Simplified
<1>4. OtherCode(prog, prog', fn, code)
  BY <1>1, <1>2, <1>3, ShapedIs, WithCodeIs
<1>5. prog.entry = source.entry
  BY <1>2 DEF Simplified, SameSurroundings
<1>6. fn = source.entry => Awaits(pending, source.entry)
  BY <1>1, <1>2, SMT DEF Awaits
<1>7. fn = source.entry => code = simplifyControlFlow(EntryCode(source), sourceInfo[source.entry])
  BY <1>2, <1>5, <1>6 DEF Simplified, EntryCode, Code
<1> HIDE DEF fn, code
<1>8. EntryCode(prog') = IF Awaits(pending', source.entry) THEN EntryCode(source)
                         ELSE simplifyControlFlow(EntryCode(source), sourceInfo[source.entry])
  BY <1>1, <1>2, <1>3, <1>4, <1>5, <1>6, <1>7, Zenon DEF OtherCode, Simplified
<1>9. SameSurroundings(source, prog')
  BY <1>2, <1>4 DEF Simplified, OtherCode, SameSurroundings
<1>10. Simplified'
  BY <1>1, <1>2, <1>3, <1>8, <1>9, Zenon DEF Simplified
<1> QED BY <1>1, <1>10 DEF RewriteInv

\* The cleanup gives the module that the second analysis is of.
LEMMA RewriteReanalyses ==
    ASSUME CurrentInv, CurrentInv', DriverInv, RewriteInv, Reanalyse
    PROVE  RewriteInv'
<1>1. /\ phase = "simplify" /\ phase' = "reanalyse" /\ pending = <<>>
      /\ prog' = [prog EXCEPT !.body =
                    [fn \in DOMAIN prog.body |-> [prog.body[fn] EXCEPT !.code = CleanCFG(Code(fn))]]]
      /\ todo' = prog.order /\ stack' = stack /\ source' = source /\ sourceInfo' = sourceInfo
      /\ funcBoundInfo' = [f \in {} |-> [n \in {} |-> Point(0)]]
  BY Zenon DEF Reanalyse
<1>2. WellFormed(prog) /\ stack = <<>> /\ Simplified
  BY <1>1 DEF CurrentInv, IInv, Shape, RewriteInv
<1>3. SameSurroundings(prog, prog') /\ EntryCode(prog') = CleanCFG(EntryCode(prog))
  BY <1>1, <1>2, ShapedIs, CleanedModule
<1>4. EntryCode(prog) = simplifyControlFlow(EntryCode(source), sourceInfo[source.entry])
  BY <1>1, <1>2, NoneLeft DEF Simplified
<1>5. IInv'
  BY <1>1 DEF CurrentInv
<1>6. WellFormed(prog')
  BY <1>5 DEF IInv, Shape
<1>7. SameSurroundings(source, prog')
  BY <1>2, <1>3 DEF Simplified, SameSurroundings
<1>8. MidOf(prog)'
  BY <1>1, <1>3, <1>4, <1>6, <1>7, Zenon DEF MidOf, Cleaned
<1>9. WalkExplained'
  <2>1. ~Active' /\ DOMAIN funcBoundInfo' = {}
    BY <1>1, <1>2 DEF Active
  <2> QED BY <2>1, Zenon DEF WalkExplained
<1>10. EntryWalked'
  <2>1. \E k \in DOMAIN prog.order : prog.order[k] = prog.entry
    BY <1>2, Zenon DEF WellFormed
  <2> QED BY <1>1, <1>3, <2>1, Zenon DEF EntryWalked, SameSurroundings
<1>11. WalkInv'
  BY <1>5, <1>9, <1>10 DEF WalkInv
<1> QED BY <1>1, <1>8, <1>11 DEF RewriteInv

\* constantSubstitution reaches the entry function once.
LEMMA RewriteSubstitutes ==
    ASSUME CurrentInv, DriverInv, RewriteInv, Substitute
    PROVE  RewriteInv'
<1> DEFINE fn == Head(pending)  code == constantSubstitution(fn, funcBoundInfo[fn])
           b == funcBoundInfo[source.entry]
<1>1. /\ phase = "substitute" /\ phase' = phase /\ pending # <<>> /\ pending' = Tail(pending)
      /\ prog' = WithCode(fn, code)
      /\ funcBoundInfo' = funcBoundInfo /\ source' = source /\ sourceInfo' = sourceInfo
  BY Zenon DEF Substitute
<1>2. PICK mid : AnalysedMid(mid) /\ Substituted(mid)
  BY <1>1 DEF RewriteInv
<1>3. pending \in Seq(DOMAIN prog.body) /\ Shaped(prog) /\ SameSurroundings(mid, prog)
      /\ SameSurroundings(source, mid) /\ WellFormed(mid)
  BY <1>1, <1>2 DEF CurrentInv, Substituted, AnalysedMid, MidOf
<1>4. /\ fn \in DOMAIN prog.body /\ Distinct(Tail(pending))
      /\ Awaits(Tail(pending), source.entry) <=> Awaits(pending, source.entry) /\ source.entry # fn
  BY <1>1, <1>2, <1>3, TailVisits DEF Substituted
<1>5. OtherCode(prog, prog', fn, code)
  BY <1>1, <1>3, <1>4, WithCodeIs
<1>6. prog.entry = source.entry
  BY <1>3 DEF SameSurroundings
<1>7. fn = source.entry => Awaits(pending, source.entry)
  BY <1>1, <1>3, SMT DEF Awaits
<1>8. fn = source.entry => SubstitutedTo(mid, prog', b)
  <2> SUFFICES ASSUME fn = source.entry PROVE SubstitutedTo(mid, prog', b)
    OBVIOUS
  <2>1. EntryCode(prog) = EntryCode(mid)
    BY <1>2, <1>7 DEF Substituted
  <2>2. SameSurroundings(prog, prog') /\ EntryCode(prog') = constantSubstitution(prog.entry, b)
    BY <1>5, <1>6 DEF OtherCode
  <2> QED BY <1>3, <2>1, <2>2, SubstitutionIs
<1>9. ASSUME fn # source.entry PROVE EntryCode(prog') = EntryCode(prog)
  BY <1>5, <1>6, <1>9 DEF OtherCode
<1>10. /\ Shaped(prog') /\ SameSurroundings(mid, prog')
       /\ SameSurroundings(prog, prog')
  BY <1>3, <1>5 DEF OtherCode, SameSurroundings
<1> HIDE DEF fn, code
<1>11. ASSUME fn # source.entry, SubstitutedTo(mid, prog, b) PROVE SubstitutedTo(mid, prog', b)
  BY <1>9, <1>10, <1>11, Zenon DEF SubstitutedTo
<1>12. IF Awaits(pending', source.entry) THEN EntryCode(prog') = EntryCode(mid) ELSE SubstitutedTo(mid, prog', b)
  BY <1>1, <1>2, <1>4, <1>7, <1>8, <1>9, <1>11, Zenon DEF Substituted
<1>13. AnalysedMid(mid)' /\ Substituted(mid)'
  BY <1>1, <1>2, <1>4, <1>10, <1>12, Zenon DEF AnalysedMid, MidOf, Substituted
<1> QED BY <1>1, <1>13 DEF RewriteInv

\* No step of the driver or of a run breaks the invariant.
LEMMA RewriteStep ==
    CurrentInv /\ CurrentInv' /\ DriverInv /\ RewriteInv /\ [OptNext]_allVars => RewriteInv'
<1> SUFFICES ASSUME CurrentInv, CurrentInv', DriverInv, RewriteInv, [OptNext]_allVars PROVE RewriteInv'
  OBVIOUS
<1>1. ASSUME UNCHANGED <<prog, funcBoundInfo, phase, pending, source, sourceInfo>>, UNCHANGED vars
      PROVE  RewriteInv'
  <2>1. phase = "simplify" => Simplified'
    BY <1>1, Zenon DEF RewriteInv, Simplified
  <2>2. phase = "reanalyse" => MidOf(prog)' /\ (OwnInstructions(prog) => WalkInv)'
    <3>1. phase = "reanalyse" /\ OwnInstructions(prog) => WalkInv'
      BY <1>1, WalkStep DEF RewriteInv
    <3>2. phase = "reanalyse" => MidOf(prog)'
      BY <1>1, Zenon DEF RewriteInv, MidOf
    <3> QED BY <1>1, <3>1, <3>2, Zenon
  <2>3. \A mid : AnalysedMid(mid) => AnalysedMid(mid)'
    BY <1>1, Zenon DEF AnalysedMid, MidOf
  <2>4. \A mid : Substituted(mid) => Substituted(mid)'
    BY <1>1, Zenon DEF Substituted
  <2> QED BY <1>1, <2>1, <2>2, <2>3, <2>4, Zenon DEF RewriteInv
<1>2. ASSUME UNCHANGED allVars PROVE RewriteInv'
  BY <1>1, <1>2 DEF allVars, vars, driverVars
<1>3. ASSUME Analyse PROVE RewriteInv'
  <2>1. phase \in {"analyse", "reanalyse"} /\ phase' = phase /\ source' = source /\ sourceInfo' = sourceInfo /\ Next
    BY <1>3 DEF Analyse, driverVars
  <2>2. prog' = prog
    BY <2>1, ModuleStays
  <2>3. CASE phase = "reanalyse"
    <3>1. OwnInstructions(prog) => WalkInv'
      BY <2>1, <2>3, WalkStep DEF RewriteInv
    <3>2. MidOf(prog)'
      BY <2>1, <2>2, <2>3, Zenon DEF RewriteInv, MidOf
    <3> QED BY <2>1, <2>2, <2>3, <3>1, <3>2 DEF RewriteInv
  <2> QED BY <2>1, <2>3 DEF RewriteInv
<1>4. ASSUME StartRuns \/ RunSource \/ SwitchRun \/ RunOutput PROVE RewriteInv'
  <2>1. /\ phase' \in {"source", "output"} /\ phase \in {"substitute", "source", "output"}
        /\ phase = "substitute" => pending = <<>>
        /\ prog' = prog /\ funcBoundInfo' = funcBoundInfo /\ source' = source /\ sourceInfo' = sourceInfo
    BY <1>4 DEF StartRuns, RunSource, SwitchRun, RunOutput, vars, driverVars
  <2>2. PICK mid : AnalysedMid(mid) /\ SubstitutedTo(mid, prog, funcBoundInfo[source.entry])
    BY <2>1, NoneLeft DEF RewriteInv, Substituted
  <2>3. AnalysedMid(mid)'
    BY <2>1, <2>2, Zenon DEF AnalysedMid, MidOf
  <2> QED BY <2>1, <2>2, <2>3 DEF RewriteInv
<1> QED
  BY <1>2, <1>3, <1>4, RewriteBegins, RewriteSimplifies, RewriteReanalyses, RewriteSubstitutes, Zenon DEF OptNext

\* Nothing is rewritten at first.
LEMMA RewriteStarts == OptInit => RewriteInv
BY DEF OptInit, RewriteInv

-----------------------------------------------------------------------------
(* The two runs.                                                           *)

EntryInfo == funcBoundInfo[source.entry]
SourceBounds == sourceInfo[source.entry]

\* the run of the source has been at tr[0] .. tr[N], and has halted or not
Ran(avail, born, N, tr) ==
    /\ Explains(source, SourceBounds, born, Len(EntryCode(source)) + 1)
    /\ Passes(source, avail, SourceBounds, born, N, tr)
    /\ tr[0].regs \in [ParamsOf(source.entry) -> Inputs]
    /\ reference = Mach(prog, 1, 0, tr[0].regs, "running", 0)
    /\ \/ machine = At0(source, tr[N])
       \/ machine.status # "running" /\ machine = Step(source, TypeRange, At0(source, tr[N]))

\* the run of the output is where that of the source was at tr[t], or has halted
Runs(avail, born, N, tr, mid, born2, t) ==
    /\ Explains(source, SourceBounds, born, Len(EntryCode(source)) + 1)
    /\ Passes(source, avail, SourceBounds, born, N, tr) /\ t \in 0 .. N
    /\ EntryCode(source)[tr[N].pos].op = "ret"
    /\ reference.result = Returned(EntryCode(source)[tr[N].pos], tr[N].regs)
    /\ Written(source, avail, SourceBounds, mid, EntryInfo, born2, prog)
    /\ \E mc : /\ Follows(source, avail, SourceBounds, mid, EntryInfo, born2, tr[t], mc)
               /\ machine = mc \/ (t = N /\ machine = Step(prog, TypeRange, mc))

\* the source module is one that runs are followed through to their return
Followed == reference.status = "returned" /\ Follow(source) /\ Plain(source) /\ PointsNamed(EntryInfo)

RunInv ==
    /\ phase = "source" /\ Follow(source) =>
          \A avail : SelfContained(source, avail) => \E born, N, tr : Ran(avail, born, N, tr)
    /\ phase = "output" /\ Followed =>
          \A avail : SelfContained(source, avail) =>
             \E born, N, tr, mid, born2, t : Runs(avail, born, N, tr, mid, born2, t)

OutputInv == DriverInv /\ CurrentInv /\ RewriteInv /\ RunInv

\* Both runs start with the same parameters.
LEMMA RunsStart ==
    ASSUME OutputInv, StartRuns
    PROVE  RunInv'
<1>1. PICK regs \in [ParamsOf(source.entry) -> Inputs] :
        machine' = Start(source, regs) /\ reference' = Start(prog, regs)
  BY Zenon DEF StartRuns
<1>2. phase = "substitute" /\ phase' = "source" /\ source' = source /\ sourceInfo' = sourceInfo /\ prog' = prog
  BY DEF StartRuns, vars
<1>3. /\ machine' = Mach(source, 1, 0, regs, "running", 0)
      /\ reference' = Mach(prog, 1, 0, regs, "running", 0)
  BY <1>1, StartIs
<1>4. ASSUME NEW avail, SelfContained(source, avail)
      PROVE  (\E born, N, tr : Ran(avail, born, N, tr))'
  <2> DEFINE tr == [t \in {0} |-> Place(1, 0, regs)]
  <2>1. WellFormed(source) /\ OwnInstructions(source)
    BY <1>4 DEF OutputInv, DriverInv, AnalysisKept, SelfContained
  <2>2. PICK born : Explains(source, SourceBounds, born, Len(EntryCode(source)) + 1)
    BY <1>2, <2>1, Zenon DEF OutputInv, DriverInv, AnalysisKept, Explained, SourceBounds
  <2>3. Passes(source, avail, SourceBounds, born, 0, tr)
    BY <1>1, <1>4, <2>1, <2>2, PassesStart DEF ParamsOf
  <2>4. tr[0] = Place(1, 0, regs)
    OBVIOUS
  <2> HIDE DEF tr
  <2>5. tr[0].regs = regs /\ At0(source, tr[0]) = Mach(source, 1, 0, regs, "running", 0)
    BY <2>4 DEF Place, At0
  <2>6. Ran(avail, born, 0, tr)'
    BY <1>1, <1>2, <1>3, <2>2, <2>3, <2>5, Zenon DEF Ran, SourceBounds, ParamsOf
  <2> QED BY <2>6
<1> QED BY <1>2, <1>4, Zenon DEF RunInv

\* the machine that halts is not the one that runs
LEMMA MachineStatus ==
    ASSUME NEW m, NEW pos, NEW from, NEW regs, NEW st, NEW res
    PROVE  /\ Mach(m, pos, from, regs, st, res).status = st
           /\ Mach(m, pos, from, regs, st, res).result = res
BY DEF Mach

\* The run of the source goes on or halts.
LEMMA SourceRuns ==
    ASSUME OutputInv, RunSource
    PROVE  RunInv'
<1>1. /\ phase = "source" /\ phase' = phase /\ source' = source /\ sourceInfo' = sourceInfo /\ prog' = prog
      /\ machine.status = "running" /\ machine' = Step(source, TypeRange, machine) /\ reference' = reference
  BY DEF RunSource, driverVars, vars
<1>2. ASSUME NEW avail, SelfContained(source, avail), Follow(source)
      PROVE  (\E born, N, tr : Ran(avail, born, N, tr))'
  <2>1. WellFormed(source)
    BY DEF OutputInv, DriverInv, AnalysisKept
  <2>2. PICK born, N, tr : Ran(avail, born, N, tr)
    BY <1>1, <1>2, Zenon DEF OutputInv, RunInv
  <2> DEFINE x == tr[N]  b == SourceBounds
  <2>3. /\ Explains(source, b, born, Len(EntryCode(source)) + 1)
        /\ Passes(source, avail, b, born, N, tr) /\ machine = At0(source, x)
        /\ tr[0].regs \in [ParamsOf(source.entry) -> Inputs]
        /\ reference = Mach(prog, 1, 0, tr[0].regs, "running", 0)
    BY <1>1, <2>2, Zenon DEF Ran
  <2>4. N \in Nat /\ N \in 0 .. N
    BY <2>3, SMT DEF Passes
  <2>5. RunAt(source, avail, b, born, x.pos, x.from, x.regs)
    BY <2>3, <2>4, Zenon DEF Passes
  <2>6. PICK pos2, from2, regs2, st2, res2 :
          /\ Step(source, TypeRange, At0(source, x)) = Mach(source, pos2, from2, regs2, st2, res2)
          /\ RunAt(source, avail, b, born, pos2, from2, regs2)
    <3>1. At0(source, x) = Mach(source, x.pos, x.from, x.regs, "running", 0)
      BY DEF At0
    <3> HIDE DEF b, x
    <3> QED BY <1>2, <2>1, <2>3, <2>5, <3>1, RunStep
  <2>7. CASE st2 = "running"
    <3>1. res2 = 0
      BY <1>2, <2>5, <2>6, <2>7, RunningStep DEF RunAt, At0
    <3>2. PICK tr2 : /\ Passes(source, avail, b, born, N + 1, tr2) /\ tr2[0] = tr[0]
                     /\ tr2[N + 1] = Place(pos2, from2, regs2)
      BY <1>2, <2>1, <2>3, <2>6, <2>7, <3>1, PassesNext
    <3>3. At0(source, tr2[N + 1]) = Mach(source, pos2, from2, regs2, "running", 0)
      BY <3>2 DEF At0, Place
    <3>4. machine' = At0(source, tr2[N + 1])
      BY <1>1, <2>3, <2>6, <2>7, <3>1, <3>3, Zenon
    <3>5. Ran(avail, born, N + 1, tr2)'
      BY <1>1, <2>3, <3>2, <3>4, Zenon DEF Ran, SourceBounds, ParamsOf
    <3> QED BY <3>5
  <2>8. CASE st2 # "running"
    <3>1. machine' = Step(source, TypeRange, At0(source, x)) /\ machine'.status # "running"
      BY <1>1, <2>3, <2>6, <2>8, MachineStatus
    <3>2. Ran(avail, born, N, tr)'
      BY <1>1, <2>3, <3>1, Zenon DEF Ran, SourceBounds, ParamsOf
    <3> QED BY <3>2
  <2> QED BY <2>7, <2>8
<1> QED BY <1>1, <1>2, Zenon DEF RunInv

\* The run of the source has returned; that of the output begins.
LEMMA RunsSwitch ==
    ASSUME OutputInv, SwitchRun
    PROVE  RunInv'
<1>1. /\ phase = "source" /\ phase' = "output" /\ machine.status # "running"
      /\ machine' = reference /\ reference' = machine
      /\ source' = source /\ sourceInfo' = sourceInfo /\ prog' = prog /\ funcBoundInfo' = funcBoundInfo
  BY DEF SwitchRun, vars
<1>2. ASSUME NEW avail, SelfContained(source, avail), Followed'
      PROVE  (\E born, N, tr, mid, born2, t : Runs(avail, born, N, tr, mid, born2, t))'
  <2> DEFINE b == SourceBounds  b2 == EntryInfo
  <2>1. /\ machine.status = "returned" /\ Follow(source) /\ Plain(source) /\ PointsNamed(b2)
        /\ WellFormed(source)
    BY <1>1, <1>2, Zenon DEF Followed, EntryInfo, OutputInv, DriverInv, AnalysisKept
  <2>2. PICK born, N, tr : Ran(avail, born, N, tr)
    BY <1>1, <1>2, <2>1, Zenon DEF OutputInv, RunInv
  <2> DEFINE x == tr[N]
  <2>3. machine # At0(source, x)
    BY <2>1, MachineStatus DEF At0
  <2>4. /\ Explains(source, b, born, Len(EntryCode(source)) + 1)
        /\ Passes(source, avail, b, born, N, tr) /\ machine = Step(source, TypeRange, At0(source, x))
        /\ tr[0].regs \in [ParamsOf(source.entry) -> Inputs]
        /\ reference = Mach(prog, 1, 0, tr[0].regs, "running", 0)
    BY <2>2, <2>3, Zenon DEF Ran
  <2>5. N \in Nat /\ N \in 0 .. N /\ 0 \in 0 .. N /\ tr[0].pos = 1 /\ tr[0].from = 0
    BY <2>4, SMT DEF Passes
  <2>6. RunAt(source, avail, b, born, x.pos, x.from, x.regs)
    BY <2>4, <2>5, Zenon DEF Passes
  <2>7. /\ EntryCode(source)[x.pos].op = "ret"
        /\ machine = Mach(source, x.pos, x.from, x.regs, "returned", Returned(EntryCode(source)[x.pos], x.regs))
    BY <1>2, <2>1, <2>4, <2>6, ReturningStep DEF RunAt, At0
  <2>8. machine.result = Returned(EntryCode(source)[x.pos], x.regs)
    BY <2>7, MachineStatus
  <2>9. PICK mid : AnalysedMid(mid) /\ SubstitutedTo(mid, prog, b2)
    BY <1>1, Zenon DEF OutputInv, RewriteInv, EntryInfo
  <2>10. /\ WellFormed(mid) /\ SameSurroundings(source, mid) /\ EntryCode(mid) = Cleaned(source, b)
    BY <2>9, Zenon DEF AnalysedMid, MidOf, SourceBounds
  <2>11. OwnInstructions(mid)
    BY <1>2, <2>1, <2>10, CleanedOwn
  <2>12. PICK born2 : Explains(mid, b2, born2, Len(EntryCode(mid)) + 1)
    BY <2>9, <2>11, Zenon DEF AnalysedMid, Explained, EntryInfo
  <2>13. b \in Bounds
    BY <2>4 DEF Explains
  <2>14. Written(source, avail, b, mid, b2, born2, prog)
    BY <1>2, <2>1, <2>9, <2>10, <2>12, <2>13, Zenon DEF Written
  <2>15. Follows(source, avail, b, mid, b2, born2, tr[0], reference)
    BY <2>4, <2>5, <2>14, FollowsStart DEF ParamsOf
  <2>16. Runs(avail, born, N, tr, mid, born2, 0)'
    BY <1>1, <2>4, <2>5, <2>7, <2>8, <2>14, <2>15, Zenon DEF Runs, SourceBounds, EntryInfo
  <2> QED BY <2>16
<1> QED BY <1>1, <1>2, Zenon DEF RunInv

\* The run of the output follows it, to its return.
LEMMA OutputRuns ==
    ASSUME OutputInv, RunOutput
    PROVE  RunInv'
<1>1. /\ phase = "output" /\ phase' = phase /\ machine.status = "running"
      /\ machine' = Step(prog, TypeRange, machine) /\ reference' = reference
      /\ source' = source /\ sourceInfo' = sourceInfo /\ prog' = prog /\ funcBoundInfo' = funcBoundInfo
  BY DEF RunOutput, driverVars, vars
<1>2. ASSUME NEW avail, SelfContained(source, avail), Followed'
      PROVE  (\E born, N, tr, mid, born2, t : Runs(avail, born, N, tr, mid, born2, t))'
  <2> DEFINE b == SourceBounds  b2 == EntryInfo
  <2>1. Followed
    BY <1>1, <1>2, Zenon DEF Followed, EntryInfo
  <2>2. PICK born, N, tr, mid, born2, t : Runs(avail, born, N, tr, mid, born2, t)
    BY <1>1, <1>2, <2>1, Zenon DEF OutputInv, RunInv
  <2>3. /\ Explains(source, b, born, Len(EntryCode(source)) + 1)
        /\ Passes(source, avail, b, born, N, tr) /\ t \in 0 .. N
        /\ EntryCode(source)[tr[N].pos].op = "ret"
        /\ reference.result = Returned(EntryCode(source)[tr[N].pos], tr[N].regs)
        /\ Written(source, avail, b, mid, b2, born2, prog)
    BY <2>2, Zenon DEF Runs
  <2>4. PICK mc : /\ Follows(source, avail, b, mid, b2, born2, tr[t], mc)
                  /\ machine = mc \/ (t = N /\ machine = Step(prog, TypeRange, mc))
    BY <2>2, Zenon DEF Runs
  <2>5. ASSUME t = N PROVE Step(prog, TypeRange, mc).status = "returned"
    BY <2>3, <2>4, <2>5, FollowsReturns
  <2>6. machine = mc
    BY <1>1, <2>4, <2>5
  <2>7. CASE t = N
    <3>1. Runs(avail, born, N, tr, mid, born2, t)'
      BY <1>1, <2>3, <2>4, <2>6, <2>7, Zenon DEF Runs, SourceBounds, EntryInfo
    <3> QED BY <3>1
  <2>8. CASE t # N
    <3>1. t < N /\ t + 1 \in 0 .. N
      BY <2>3, <2>8, SMT DEF Passes
    <3>2. Follows(source, avail, b, mid, b2, born2, tr[t + 1], Step(prog, TypeRange, mc))
      BY <2>3, <2>4, <3>1, FollowsMoves
    <3>3. Runs(avail, born, N, tr, mid, born2, t + 1)'
      BY <1>1, <2>3, <2>6, <3>1, <3>2, Zenon DEF Runs, SourceBounds, EntryInfo
    <3> QED BY <3>3
  <2> QED BY <2>7, <2>8
<1> QED BY <1>1, <1>2, Zenon DEF RunInv

\* The invariant holds at first.
LEMMA OutputStarts == OptInit => OutputInv
<1>1. OptInit => RunInv
  BY DEF OptInit, RunInv
<1> QED BY <1>1, DriverStarts, CurrentStarts, RewriteStarts DEF OutputInv

\* No step of the driver or of a run breaks the invariant.
LEMMA OutputStep == OutputInv /\ [OptNext]_allVars => OutputInv'
<1> SUFFICES ASSUME OutputInv, [OptNext]_allVars PROVE OutputInv'
  OBVIOUS
<1>1. DriverInv' /\ CurrentInv' /\ RewriteInv'
  BY DriverStep, CurrentStep, RewriteStep DEF OutputInv
<1>2. ASSUME phase' # "source", phase' # "output" PROVE RunInv'
  BY <1>2, Zenon DEF RunInv
<1>3. ASSUME UNCHANGED allVars PROVE RunInv'
  <2>1. UNCHANGED <<phase, source, sourceInfo, prog, funcBoundInfo, machine, reference>>
    BY <1>3 DEF allVars, vars, driverVars, runVars
  <2>2. \A avail, born, N, tr : Ran(avail, born, N, tr) => Ran(avail, born, N, tr)'
    BY <2>1, Zenon DEF Ran, SourceBounds, ParamsOf
  <2>3. ASSUME NEW avail, NEW born, NEW N, NEW tr, NEW mid, NEW born2, NEW t,
               Runs(avail, born, N, tr, mid, born2, t)
        PROVE  Runs(avail, born, N, tr, mid, born2, t)'
    <3>1. SourceBounds' = SourceBounds /\ EntryInfo' = EntryInfo
      BY <2>1 DEF SourceBounds, EntryInfo
    <3> QED BY <2>1, <2>3, <3>1, Zenon DEF Runs
  <2>4. Followed' => Followed
    BY <2>1, Zenon DEF Followed, EntryInfo
  <2>5. (phase = "source" /\ Follow(source) =>
            \A avail : SelfContained(source, avail) => \E born, N, tr : Ran(avail, born, N, tr))'
    BY <2>1, <2>2, Zenon DEF OutputInv, RunInv
  <2>6. (phase = "output" /\ Followed =>
            \A avail : SelfContained(source, avail) =>
               \E born, N, tr, mid, born2, t : Runs(avail, born, N, tr, mid, born2, t))'
    <3> SUFFICES ASSUME (phase = "output")', Followed', NEW avail, SelfContained(source, avail)'
                 PROVE  (\E born, N, tr, mid, born2, t : Runs(avail, born, N, tr, mid, born2, t))'
      OBVIOUS
    <3>1. PICK born, N, tr, mid, born2, t : Runs(avail, born, N, tr, mid, born2, t)
      BY <2>1, <2>4, Zenon DEF OutputInv, RunInv
    <3>2. Runs(avail, born, N, tr, mid, born2, t)'
      BY <2>3, <3>1
    <3> QED BY <3>2
  <2> QED BY <2>5, <2>6 DEF RunInv
<1>4. ASSUME Analyse \/ BeginPass \/ Simplify \/ Reanalyse \/ Substitute PROVE RunInv'
  <2>1. phase' # "source" /\ phase' # "output"
    BY <1>4 DEF Analyse, BeginPass, Simplify, Reanalyse, Substitute, driverVars
  <2> QED BY <1>2, <2>1
<1>5. RunInv'
  BY <1>3, <1>4, RunsStart, SourceRuns, RunsSwitch, OutputRuns, Zenon DEF OptNext
<1> QED BY <1>1, <1>5 DEF OutputInv

\* what a run of the output of a module that is followed is at
LEMMA RunsIs ==
    ASSUME OutputInv, NEW avail, SelfContained(source, avail), PointsHaveConstants,
           phase = "output", reference.status = "returned", Trusted
    PROVE  \E x, const, st, res :
              /\ machine = Mach(source, x.pos, x.from, Without(x.regs, const), st, res)
              /\ Full(EntryInfo, x.regs)
              /\ st = "running" \/ (machine.status = "returned" /\ machine.result = reference.result)
<1> DEFINE b == SourceBounds  b2 == EntryInfo
<1>1. WellFormed(source)
  BY DEF OutputInv, DriverInv, AnalysisKept
<1>2. Follow(source) /\ Plain(source)
  BY <1>1, TrustedFollows, TrustedPlain
<1>3. source.entry \in DOMAIN funcBoundInfo
  <2>1. PICK mid : AnalysedMid(mid)
    BY Zenon DEF OutputInv, RewriteInv
  <2>2. OwnInstructions(mid)
    BY <1>1, <2>1, CleanedOwn, Zenon DEF AnalysedMid, MidOf
  <2> QED BY <2>1, <2>2, Zenon DEF AnalysedMid
<1>4. PointsNamed(b2)
  BY <1>3 DEF PointsHaveConstants, PointsNamed, EntryInfo
<1>5. Followed
  BY <1>2, <1>4 DEF Followed
<1>6. PICK born, N, tr, mid, born2, t : Runs(avail, born, N, tr, mid, born2, t)
  BY <1>5, Zenon DEF OutputInv, RunInv
<1> DEFINE x == tr[t]  const == ConstantsOf(mid, b2)
<1>7. /\ Explains(source, b, born, Len(EntryCode(source)) + 1)
      /\ Passes(source, avail, b, born, N, tr) /\ t \in 0 .. N
      /\ EntryCode(source)[tr[N].pos].op = "ret"
      /\ reference.result = Returned(EntryCode(source)[tr[N].pos], tr[N].regs)
      /\ Written(source, avail, b, mid, b2, born2, prog)
  BY <1>6, Zenon DEF Runs
<1>8. PICK mc : /\ Follows(source, avail, b, mid, b2, born2, x, mc)
                /\ machine = mc \/ (t = N /\ machine = Step(prog, TypeRange, mc))
  BY <1>6, Zenon DEF Runs
<1>9. Full(b2, x.regs)
  BY <1>7, <1>8, FollowsFull
<1>10. mc = Mach(source, x.pos, x.from, Without(x.regs, const), "running", 0)
  BY <1>8 DEF Follows
<1>11. CASE machine = mc
  <2> DEFINE regs == x.regs
  <2>1. machine = Mach(source, x.pos, x.from, Without(regs, const), "running", 0)
    BY <1>10, <1>11
  <2> QED BY <1>9, <2>1, Zenon
<1>12. CASE t = N /\ machine = Step(prog, TypeRange, mc)
  <2>1. Follows(source, avail, b, mid, b2, born2, tr[N], mc)
    BY <1>8, <1>12
  <2>2. /\ machine.status = "returned" /\ machine.result = reference.result
        /\ \E res : machine = Mach(source, x.pos, x.from, Without(x.regs, const), "returned", res)
    BY <1>7, <1>12, <2>1, FollowsReturns
  <2> QED BY <1>9, <2>2
<1> QED BY <1>8, <1>11, <1>12

\* A run of the output that has halted has returned what the source did.
LEMMA InvariantReturns ==
    OutputInv => ((\E avail : SelfContained(source, avail)) /\ PointsHaveConstants => SameResult)
<1> SUFFICES ASSUME OutputInv, NEW avail, SelfContained(source, avail), PointsHaveConstants,
                    phase = "output", machine.status # "running", reference.status = "returned", Trusted
             PROVE  machine.status = "returned" /\ machine.result = reference.result
  BY Zenon DEF SameResult
<1> QED BY RunsIs, MachineStatus

\* Without the registers that became constants, the others are in their ranges.
LEMMA OutputContains ==
    OutputInv => ((\E avail : SelfContained(source, avail)) /\ PointsHaveConstants
                     /\ phase = "output" /\ reference.status = "returned" => RangesContain)
<1> SUFFICES ASSUME OutputInv, NEW avail, SelfContained(source, avail), PointsHaveConstants,
                    phase = "output", reference.status = "returned", Trusted
             PROVE  RegistersIn(RunningFrame, funcBoundInfo[RunningFrame.fn])
  BY Zenon DEF RangesContain
<1>1. PICK x, const, st, res : /\ machine = Mach(source, x.pos, x.from, Without(x.regs, const), st, res)
                               /\ Full(EntryInfo, x.regs)
  BY RunsIs
<1>2. RunningFrame = Act(source, x.pos, x.from, Without(x.regs, const))
  BY <1>1, MachineReads DEF RunningFrame
<1>3. RunningFrame.fn = source.entry /\ RunningFrame.regs = Without(x.regs, const)
  BY <1>2 DEF Act
<1>4. \A n \in DOMAIN Without(x.regs, const) : n \in DOMAIN x.regs /\ Without(x.regs, const)[n] = x.regs[n]
  BY DEF Without
<1> QED BY <1>1, <1>3, <1>4, Zenon DEF RegistersIn, Full, EntryInfo

\* For a source module whose entry function is in SSA form and neither calls
\* nor stores, the rewritten module returns what the source module returns.
THEOREM OutputReturnsSame ==
    OptSpec => []((\E avail : SelfContained(source, avail)) /\ PointsHaveConstants => SameResult)
BY OutputStarts, OutputStep, InvariantReturns, PTL DEF OptSpec

\* On every input for which such a module returns, every register the
\* rewritten module has is in the range the second analysis has for it.
THEOREM OutputRunsContained ==
    OptSpec => []((\E avail : SelfContained(source, avail)) /\ PointsHaveConstants
                     /\ phase = "output" /\ reference.status = "returned" => RangesContain)
BY OutputStarts, OutputStep, OutputContains, PTL DEF OptSpec
=============================================================================
