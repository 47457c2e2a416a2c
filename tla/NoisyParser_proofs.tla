------------------------- MODULE NoisyParser_proofs -------------------------
(***************************************************************************)
(* The types of the Noisy parser's state, for every program and every set  *)
(* of parser functions that read no variable before it is set.             *)
(*                                                                         *)
(* The inductive invariant says of each call in progress that it has got   *)
(* the nodes that the rest of its function needs (FrameOK), where a caller *)
(* waits for one more; and of each node and each scope that what it names  *)
(* was made before.                                                        *)
(***************************************************************************)
EXTENDS NoisyParser, WellFoundedInduction, TLAPS

\* Strings: the provers do not know of a literal that it is one.
Spelling == STRING \cup {"", "seq", "identifier", "program", "tupleValue", "accuracyTolerance", "initList"}
Node == [type : Spelling, name : Spelling, value : Int \X Int, physics : {0},
         left : Nat, right : Nat, number : {0}, symbol : Nat]
Rests == DOMAIN Needs
FrameSet == [procedure : DOMAIN Procedures, node : Nat, scope : Nat, how : {"drop", "leaf", "chain"},
             todo : Rests, kids : Seq(Nat), count : {0, 1}]
ScopeSet == [identifier : Spelling, parent : Nat, firstChild : {0},
             symbols : UNION {[S -> Nat] : S \in SUBSET Spelling}, closed : BOOLEAN]
Outcomes == {"running", "accepted", "syntax error", "semantic error", "null", "fatal", "endless"}

\* A call among T nodes and S scopes, due so many nodes by the calls it waits for.
FrameOK(f, T, S, due) ==
    /\ f.node \in 1 .. T /\ f.scope \in 1 .. S
    /\ \A k \in 1 .. Len(f.kids) : f.kids[k] \in 1 .. T
    /\ Needs[f.todo] <= Len(f.kids) + due
StackOK(st, T, S) ==
    /\ st \in Seq(FrameSet) /\ st # <<>>
    /\ \A i \in 1 .. Len(st) : FrameOK(st[i], T, S, IF i = 1 THEN 0 ELSE 1)

\* The nodes of t among the scopes sc.
TreeOK(t, sc) ==
    /\ t \in Seq(Node) /\ t # <<>>
    /\ \A n \in 1 .. Len(t) :
          /\ t[n].left <= Len(t) /\ t[n].right <= Len(t)
          /\ t[n].symbol # 0 => /\ t[n].symbol <= Len(sc)
                                /\ t[n].name \in DOMAIN sc[t[n].symbol].symbols

\* The scopes, with types among T nodes, and those of modules.
ScopesOK(sc, T) ==
    /\ sc \in Seq(ScopeSet) /\ sc # <<>>
    /\ \A s \in 1 .. Len(sc) :
          /\ sc[s].parent < s
          /\ \A name \in DOMAIN sc[s].symbols : sc[s].symbols[name] <= T
ModulesOK(m, S) == m \in Seq(1 .. S)

IInv ==
    /\ text \in Texts /\ at \in 1 .. Len(text) /\ outcome \in Outcomes
    /\ TreeOK(tree, scopes)
    /\ StackOK(stack, Len(tree), Len(scopes))
    /\ ScopesOK(scopes, Len(tree))
    /\ ModulesOK(moduleScopes, Len(scopes))

-----------------------------------------------------------------------------
(* Sequences and records.                                                  *)

\* a frame is one among more nodes and scopes, too
LEMMA FrameGrows ==
    ASSUME NEW T \in Nat, NEW S \in Nat, NEW U \in Nat, NEW V \in Nat, T <= U, S <= V,
           NEW f \in FrameSet, NEW due \in {0, 1}, FrameOK(f, T, S, due)
    PROVE  FrameOK(f, U, V, due)
<1>1. f.node \in 1 .. T /\ f.scope \in 1 .. S
  BY DEF FrameOK
<1>2. f.node \in 1 .. U /\ f.scope \in 1 .. V
  BY <1>1, SMT
<1>3. \A n \in 1 .. T : n \in 1 .. U
  BY SMT
<1> QED
  BY <1>2, <1>3, Zenon DEF FrameOK

LEMMA StackGrows ==
    ASSUME NEW T \in Nat, NEW S \in Nat, NEW U \in Nat, NEW V \in Nat, T <= U, S <= V,
           NEW st, StackOK(st, T, S)
    PROVE  StackOK(st, U, V)
<1> SUFFICES ASSUME NEW i \in 1 .. Len(st) PROVE FrameOK(st[i], U, V, IF i = 1 THEN 0 ELSE 1)
  BY DEF StackOK
<1>1. st[i] \in FrameSet /\ FrameOK(st[i], T, S, IF i = 1 THEN 0 ELSE 1)
  BY DEF StackOK
<1>2. (IF i = 1 THEN 0 ELSE 1) \in {0, 1}
  OBVIOUS
<1> QED
  BY <1>1, <1>2, FrameGrows

\* the innermost frame replaced
LEMMA TopReplaced ==
    ASSUME NEW T \in Nat, NEW S \in Nat, NEW U \in Nat, NEW V \in Nat, T <= U, S <= V,
           StackOK(stack, T, S), NEW f \in FrameSet, FrameOK(f, U, V, 0)
    PROVE  StackOK(<<f>> \o Tail(stack), U, V)
<1>1. stack \in Seq(FrameSet) /\ stack # <<>> /\ <<f>> \in Seq(FrameSet)
  BY DEF StackOK
<1> DEFINE st == <<f>> \o Tail(stack)
<1>2. /\ st \in Seq(FrameSet) /\ Len(st) = Len(stack) /\ st[1] = f
      /\ \A i \in 2 .. Len(stack) : st[i] = stack[i]
  BY <1>1, SMT
<1>3. ASSUME NEW i \in 2 .. Len(st) PROVE FrameOK(st[i], U, V, 1)
  <2>1. FrameOK(stack[i], T, S, 1) /\ stack[i] \in FrameSet
    BY <1>1, <1>2, SMT DEF StackOK
  <2>2. FrameOK(stack[i], U, V, 1)
    BY <2>1, FrameGrows
  <2> QED BY <2>2, <1>2
<1> HIDE DEF st
<1>4. st # <<>> /\ \A i \in 1 .. Len(st) : FrameOK(st[i], U, V, IF i = 1 THEN 0 ELSE 1)
  BY <1>1, <1>2, <1>3, SMT
<1>5. StackOK(st, U, V)
  BY <1>2, <1>4 DEF StackOK
<1> QED BY <1>5 DEF st

\* a node with a child changed, and one that is new
LEMMA NodeChanged ==
    ASSUME NEW x \in Node, NEW c \in Nat
    PROVE  /\ [x EXCEPT !.left = c] \in Node
           /\ [x EXCEPT !.right = c] \in Node
           /\ [x EXCEPT !.left = c].left = c
           /\ [x EXCEPT !.left = c].right = x.right
           /\ [x EXCEPT !.left = c].name = x.name
           /\ [x EXCEPT !.left = c].symbol = x.symbol
           /\ [x EXCEPT !.right = c].right = c
           /\ [x EXCEPT !.right = c].left = x.left
           /\ [x EXCEPT !.right = c].name = x.name
           /\ [x EXCEPT !.right = c].symbol = x.symbol
<1>1. [x EXCEPT !.left = c] \in Node BY DEF Node
<1>2. [x EXCEPT !.right = c] \in Node BY DEF Node
<1> QED BY <1>1, <1>2 DEF Node

LEMMA NodeMade ==
    ASSUME NEW ty \in Spelling, NEW na \in Spelling, NEW v \in Int \X Int
    PROVE  /\ NewNode(ty, na, v) \in Node
           /\ NewNode(ty, na, v).left = 0 
           /\ NewNode(ty, na, v).right = 0 
           /\ NewNode(ty, na, v).symbol = 0 
           /\ NewNode(ty, na, v).name = na 
BY DEF Node, NewNode
LEMMA NodeOfChain == NewNode("seq", "", <<0, 1>>) \in Node
BY DEF NewNode, Node, Spelling

\* the child of one node changed
WithLeft(t, n, c) == [t EXCEPT ![n].left = c]
WithRight(t, n, c) == [t EXCEPT ![n].right = c]
LEMMA ChildChanged ==
    ASSUME NEW t \in Seq(Node), NEW n, NEW c \in Nat
    PROVE  LET u == WithLeft(t, n, c)
               v == WithRight(t, n, c)
           IN  /\ u \in Seq(Node) /\ Len(u) = Len(t)
               /\ v \in Seq(Node) /\ Len(v) = Len(t)
               /\ \A i \in 1 .. Len(t) :
                     /\ u[i] \in Node /\ v[i] \in Node /\ t[i] \in Node
                     /\ u[i].symbol = t[i].symbol /\ u[i].name = t[i].name
                     /\ v[i].symbol = t[i].symbol /\ v[i].name = t[i].name
                     /\ u[i].left \in {t[i].left, c} /\ u[i].right = t[i].right
                     /\ v[i].right \in {t[i].right, c} /\ v[i].left = t[i].left
<1> DEFINE u == WithLeft(t, n, c)
           v == WithRight(t, n, c)
<1>1. \A i \in 1 .. Len(t) :
         /\ t[i] \in Node
         /\ u[i] = IF i = n THEN [t[i] EXCEPT !.left = c] ELSE t[i]
         /\ v[i] = IF i = n THEN [t[i] EXCEPT !.right = c] ELSE t[i]
  BY DEF WithLeft, WithRight
<1>2. DOMAIN u = 1 .. Len(t) /\ DOMAIN v = 1 .. Len(t) /\ Len(t) \in Nat
  BY DEF WithLeft, WithRight
<1>3. ASSUME NEW i \in 1 .. Len(t) PROVE u[i] \in Node /\ v[i] \in Node
  <2>1. t[i] \in Node /\ [t[i] EXCEPT !.left = c] \in Node /\ [t[i] EXCEPT !.right = c] \in Node
    BY <1>1, NodeChanged
  <2> QED BY <1>1, <2>1
<1>4. u = [i \in 1 .. Len(t) |-> u[i]] /\ v = [i \in 1 .. Len(t) |-> v[i]]
  BY <1>2 DEF WithLeft, WithRight
<1> HIDE DEF u, v
<1>5. /\ u \in Seq(Node) /\ Len(u) = Len(t)
      /\ v \in Seq(Node) /\ Len(v) = Len(t)
  BY <1>2, <1>3, <1>4, SMT
<1>6. ASSUME NEW i \in 1 .. Len(t)
      PROVE  /\ u[i].symbol = t[i].symbol /\ u[i].name = t[i].name
             /\ v[i].symbol = t[i].symbol /\ v[i].name = t[i].name
             /\ u[i].left \in {t[i].left, c} /\ u[i].right = t[i].right
             /\ v[i].right \in {t[i].right, c} /\ v[i].left = t[i].left
  <2>1. t[i] \in Node
    BY <1>1
  <2>2. CASE i = n
    <3>1. u[i] = [t[i] EXCEPT !.left = c] /\ v[i] = [t[i] EXCEPT !.right = c]
      BY <1>1, <2>2
    <3> QED BY <2>1, <3>1, NodeChanged
  <2>3. CASE i # n
    BY <1>1, <2>3
  <2> QED BY <2>2, <2>3
<1> QED
  BY <1>1, <1>3, <1>5, <1>6 DEF u, v

\* attaching a child changes the children of a node, and may add a node of
\* the chain with the child
LEMMA Attached ==
    ASSUME NEW t \in Seq(Node), NEW n, NEW child \in Nat, NEW how
    PROVE  LET u == Attach(t, n, child, how)
           IN  /\ u \in Seq(Node)
               /\ Len(u) = Len(t) \/ (Len(u) = Len(t) + 1 /\ u[Len(u)].symbol = 0)
               /\ \A i \in 1 .. Len(t) :
                     /\ u[i].symbol = t[i].symbol /\ u[i].name = t[i].name
                     /\ u[i].left \in {t[i].left, child}
                     /\ u[i].right \in {t[i].right, child, Len(u)}
               /\ Len(u) > Len(t) => u[Len(u)].left = child /\ u[Len(u)].right = 0
<1> DEFINE u == Attach(t, n, child, how)
           Goal(v) == /\ v \in Seq(Node)
                      /\ Len(v) = Len(t) \/ (Len(v) = Len(t) + 1 /\ v[Len(v)].symbol = 0)
                      /\ \A i \in 1 .. Len(t) :
                            /\ v[i].symbol = t[i].symbol /\ v[i].name = t[i].name
                            /\ v[i].left \in {t[i].left, child}
                            /\ v[i].right \in {t[i].right, child, Len(v)}
                      /\ Len(v) > Len(t) => v[Len(v)].left = child /\ v[Len(v)].right = 0
<1> DEFINE end == DepthFirstWalk(t, n)
           left == WithLeft(t, end, child)
           right(c) == WithRight(t, end, c)
           link == [NewNode("seq", "", <<0, 1>>) EXCEPT !.left = child]
<1>1. u = t \/ u = left \/ u = right(child) \/ u = Append(right(Len(t) + 1), link)
  BY DEF Attach, WithLeft, WithRight
<1> HIDE DEF end, u
<1>2. /\ left \in Seq(Node) /\ Len(left) = Len(t)
      /\ \A c \in Nat : right(c) \in Seq(Node) /\ Len(right(c)) = Len(t)
      /\ \A i \in 1 .. Len(t) :
            /\ left[i].symbol = t[i].symbol /\ left[i].name = t[i].name
            /\ left[i].left \in {t[i].left, child} /\ left[i].right = t[i].right
      /\ \A c \in Nat : \A i \in 1 .. Len(t) :
            /\ right(c)[i].symbol = t[i].symbol /\ right(c)[i].name = t[i].name
            /\ right(c)[i].right \in {t[i].right, c} /\ right(c)[i].left = t[i].left
  BY ChildChanged
<1>3. Len(t) \in Nat
  OBVIOUS
<1> HIDE DEF left, right
<1>4. Goal(t)
  BY <1>3
<1>5. Goal(left)
  <2>1. \A i \in 1 .. Len(t) :
            /\ left[i].symbol = t[i].symbol /\ left[i].name = t[i].name
            /\ left[i].left \in {t[i].left, child} /\ left[i].right = t[i].right
    BY <1>2, Zenon
  <2>2. left \in Seq(Node) /\ Len(left) = Len(t)
    BY <1>2, Zenon
  <2> QED BY <2>1, <2>2, <1>3
<1>6. Goal(right(child))
  <2>1. \A i \in 1 .. Len(t) :
            /\ right(child)[i].symbol = t[i].symbol /\ right(child)[i].name = t[i].name
            /\ right(child)[i].right \in {t[i].right, child} /\ right(child)[i].left = t[i].left
    BY <1>2, Zenon
  <2>2. right(child) \in Seq(Node) /\ Len(right(child)) = Len(t)
    BY <1>2, Zenon
  <2> QED BY <2>1, <2>2, <1>3
<1>7. Goal(Append(right(Len(t) + 1), link))
  <2> DEFINE v == right(Len(t) + 1)
             w == Append(v, link)
  <2>1. NewNode("seq", "", <<0, 1>>) \in Node /\ NewNode("seq", "", <<0, 1>>).right = 0
        /\ NewNode("seq", "", <<0, 1>>).symbol = 0
    <3>1. NewNode("seq", "", <<0, 1>>) \in Node
      BY NodeOfChain
    <3>2. NewNode("seq", "", <<0, 1>>).right = 0 /\ NewNode("seq", "", <<0, 1>>).symbol = 0
      BY DEF NewNode
    <3> QED BY <3>1, <3>2
  <2>2. link \in Node /\ link.left = child /\ link.right = 0 /\ link.symbol = 0
    BY <2>1, NodeChanged
  <2>3. /\ v \in Seq(Node) /\ Len(v) = Len(t)
        /\ \A i \in 1 .. Len(t) :
            /\ v[i].symbol = t[i].symbol /\ v[i].name = t[i].name
            /\ v[i].right \in {t[i].right, Len(t) + 1} /\ v[i].left = t[i].left
    <3>1. Len(t) + 1 \in Nat
      BY <1>3
    <3> QED BY <1>2, <3>1, Zenon
  <2> HIDE DEF v, link
  <2>4. /\ w \in Seq(Node) /\ Len(w) = Len(t) + 1 /\ w[Len(w)] = link
        /\ \A i \in 1 .. Len(t) : w[i] = v[i]
    BY <2>2, <2>3
  <2> HIDE DEF w
  <2>5. Goal(w)
    BY <2>2, <2>3, <2>4, <1>3
  <2> QED BY <2>5 DEF w, v
<1> HIDE DEF Goal
<1>8. Goal(u)
  BY <1>1, <1>4, <1>5, <1>6, <1>7
<1> QED
  BY <1>8 DEF Goal, u

-----------------------------------------------------------------------------
(* The tree.                                                               *)

\* a node that is appended
LEMMA TreeAppended ==
    ASSUME NEW t, NEW sc, TreeOK(t, sc), Len(sc) \in Nat, NEW x \in Node,
           x.left <= Len(t) + 1, x.right <= Len(t) + 1,
           x.symbol # 0 => x.symbol <= Len(sc) /\ x.name \in DOMAIN sc[x.symbol].symbols
    PROVE  TreeOK(Append(t, x), sc) /\ Len(Append(t, x)) = Len(t) + 1
<1> DEFINE u == Append(t, x)
<1>1. /\ u \in Seq(Node) /\ u # <<>> /\ Len(u) = Len(t) + 1 /\ u[Len(u)] = x /\ Len(t) \in Nat
      /\ \A i \in 1 .. Len(t) : u[i] = t[i]
  BY DEF TreeOK
<1> HIDE DEF u
<1>2. ASSUME NEW n \in 1 .. Len(u)
      PROVE  /\ u[n].left <= Len(u) /\ u[n].right <= Len(u)
             /\ u[n].symbol # 0 => /\ u[n].symbol <= Len(sc)
                                   /\ u[n].name \in DOMAIN sc[u[n].symbol].symbols
  <2>1. CASE n = Len(u)
    BY <1>1, <2>1
  <2>2. CASE n # Len(u)
    <3>1. n \in 1 .. Len(t) /\ u[n] = t[n] /\ t[n] \in Node
      BY <1>1, <2>2 DEF TreeOK
    <3>2. t[n].left \in Nat /\ t[n].right \in Nat
      BY <3>1 DEF Node
    <3> QED BY <1>1, <3>1, <3>2 DEF TreeOK
  <2> QED BY <2>1, <2>2
<1> QED
  BY <1>1, <1>2 DEF TreeOK, u

\* a child that is attached
LEMMA TreeAttached ==
    ASSUME NEW t, NEW sc, TreeOK(t, sc), NEW n, NEW child \in 1 .. Len(t), NEW how
    PROVE  /\ TreeOK(Attach(t, n, child, how), sc)
           /\ Len(Attach(t, n, child, how)) \in Nat /\ Len(Attach(t, n, child, how)) >= Len(t)
<1> DEFINE u == Attach(t, n, child, how)
<1>1. t \in Seq(Node) /\ Len(t) \in Nat /\ t # <<>> /\ child \in Nat /\ child <= Len(t)
  BY DEF TreeOK
<1>2. /\ u \in Seq(Node)
      /\ Len(u) = Len(t) \/ (Len(u) = Len(t) + 1 /\ u[Len(u)].symbol = 0)
      /\ \A i \in 1 .. Len(t) :
            /\ u[i].symbol = t[i].symbol /\ u[i].name = t[i].name
            /\ u[i].left \in {t[i].left, child}
            /\ u[i].right \in {t[i].right, child, Len(u)}
      /\ Len(u) > Len(t) => u[Len(u)].left = child /\ u[Len(u)].right = 0
  BY <1>1, Attached
<1> HIDE DEF u
<1>3. u # <<>> /\ Len(u) \in Nat /\ Len(u) >= Len(t)
  BY <1>1, <1>2
<1>4. ASSUME NEW i \in 1 .. Len(u)
      PROVE  /\ u[i].left <= Len(u) /\ u[i].right <= Len(u)
             /\ u[i].symbol # 0 => /\ u[i].symbol <= Len(sc)
                                   /\ u[i].name \in DOMAIN sc[u[i].symbol].symbols
  <2>1. CASE i \in 1 .. Len(t)
    <3>1. t[i] \in Node
      BY <1>1, <2>1
    <3>2. t[i].left \in Nat /\ t[i].right \in Nat
      BY <3>1 DEF Node
    <3>3. /\ t[i].left <= Len(t) /\ t[i].right <= Len(t)
          /\ t[i].symbol # 0 => /\ t[i].symbol <= Len(sc)
                                /\ t[i].name \in DOMAIN sc[t[i].symbol].symbols
      BY <2>1 DEF TreeOK
    <3>4. u[i].symbol = t[i].symbol /\ u[i].name = t[i].name
      BY <1>2, <2>1
    <3>5. u[i].left \in {t[i].left, child} /\ u[i].right \in {t[i].right, child, Len(u)}
      BY <1>2, <2>1
    <3>6. u[i].left <= Len(u) /\ u[i].right <= Len(u)
      BY <1>1, <1>3, <3>2, <3>3, <3>5
    <3> QED BY <3>3, <3>4, <3>6, Zenon
  <2>2. CASE i \notin 1 .. Len(t)
    <3>1. i = Len(u) /\ Len(u) > Len(t) /\ u[Len(u)].symbol = 0
      BY <1>1, <1>2, <1>3, <2>2
    <3> QED BY <1>1, <1>2, <1>3, <3>1
  <2> QED BY <2>1, <2>2
<1> QED
  BY <1>2, <1>3, <1>4 DEF TreeOK, u

\* the nodes among scopes that have more names
LEMMA TreeAmongMore ==
    ASSUME NEW t, NEW sc, NEW more, TreeOK(t, sc), Len(sc) \in Nat, Len(more) \in Nat,
           Len(sc) <= Len(more),
           \A s \in 1 .. Len(sc) : DOMAIN sc[s].symbols \subseteq DOMAIN more[s].symbols
    PROVE  TreeOK(t, more)
<1> SUFFICES ASSUME NEW n \in 1 .. Len(t), t[n].symbol # 0
             PROVE  t[n].symbol <= Len(more) /\ t[n].name \in DOMAIN more[t[n].symbol].symbols
  BY DEF TreeOK
<1>1. t[n] \in Node /\ t[n].symbol <= Len(sc) /\ t[n].name \in DOMAIN sc[t[n].symbol].symbols
  BY DEF TreeOK
<1>2. t[n].symbol \in 1 .. Len(sc)
  BY <1>1 DEF Node
<1> QED BY <1>1, <1>2

-----------------------------------------------------------------------------
(* Frames.                                                                 *)

\* the innermost frame
LEMMA TopOK ==
    ASSUME NEW T, NEW S, StackOK(stack, T, S)
    PROVE  /\ Top \in FrameSet /\ FrameOK(Top, T, S, 0)
           /\ Len(stack) \in Nat \ {0}
<1>1. Len(stack) \in Nat \ {0} /\ stack \in Seq(FrameSet)
  BY DEF StackOK
<1>2. 1 \in 1 .. Len(stack)
  BY <1>1
<1>3. stack[1] \in FrameSet
  BY <1>1, <1>2
<1>4. FrameOK(stack[1], T, S, 0)
  BY <1>2 DEF StackOK
<1> QED BY <1>1, <1>3, <1>4 DEF Top

\* a frame with other statements to do
LEMMA FrameGoesOn ==
    ASSUME NEW T, NEW S, NEW f \in FrameSet, FrameOK(f, T, S, 0),
           NEW rest \in Rests, NEW due \in {0, 1}, Needs[rest] <= Len(f.kids) + due
    PROVE  [f EXCEPT !.todo = rest] \in FrameSet /\ FrameOK([f EXCEPT !.todo = rest], T, S, due)
<1> DEFINE g == [f EXCEPT !.todo = rest]
<1>1. g \in FrameSet
  BY DEF FrameSet
<1>2. /\ g.node = f.node /\ g.scope = f.scope /\ g.kids = f.kids /\ g.todo = rest
  BY DEF FrameSet
<1> HIDE DEF g
<1>3. FrameOK(g, T, S, due)
  BY <1>2 DEF FrameOK
<1> QED BY <1>1, <1>3 DEF g

\* a frame that gets the node it is due
LEMMA FrameGets ==
    ASSUME NEW T, NEW S, NEW f \in FrameSet, FrameOK(f, T, S, 1), NEW kid \in 1 .. T, T \in Nat
    PROVE  Gets(f, kid) \in FrameSet /\ FrameOK(Gets(f, kid), T, S, 0)
<1> DEFINE g == [f EXCEPT !.kids = Append(f.kids, kid)]
<1>1. f.kids \in Seq(Nat) /\ Len(f.kids) \in Nat /\ kid \in Nat
  BY DEF FrameSet
<1>2. Append(f.kids, kid) \in Seq(Nat) /\ Len(Append(f.kids, kid)) = Len(f.kids) + 1
  BY <1>1
<1>3. g \in FrameSet
  BY <1>2 DEF FrameSet
<1>4. /\ g.node = f.node /\ g.scope = f.scope /\ g.kids = Append(f.kids, kid) /\ g.todo = f.todo
  BY DEF FrameSet
<1> HIDE DEF g
<1>5. \A k \in 1 .. Len(g.kids) : g.kids[k] \in 1 .. T
  BY <1>1, <1>2, <1>4 DEF FrameOK
<1>6. Needs[g.todo] <= Len(g.kids) + 0
  BY <1>1, <1>2, <1>4 DEF FrameOK, FrameSet
<1>7. FrameOK(g, T, S, 0)
  BY <1>4, <1>5, <1>6 DEF FrameOK
<1> QED BY <1>3, <1>7 DEF g, Gets

\* what the next statement leaves to do
Left(rest, nodes) == rest \in Rests /\ Needs[rest] <= nodes
LEMMA NodesReadType == ASSUME NEW what PROVE NodesRead(what) \in Nat
BY DEF NodesRead

LEMMA NextStatement ==
    ASSUME NEW T, NEW S, StackOK(stack, T, S), Top.todo # <<>>
    PROVE  LET n == Len(Top.kids)
           IN  /\ Statement1.how \in {"drop", "leaf", "chain"}
               /\ Statement1.op \in {"token", "name"} => Left(Tail(Top.todo), n + 1)
               /\ Statement1.op = "call" => /\ Statement1.arg \in DOMAIN Procedures
                                            /\ Left(Tail(Top.todo), n + 1)
               /\ Statement1.op = "do" => /\ NodesRead(Statement1.arg) <= n
                                          /\ Left(Tail(Top.todo), n)
               /\ Statement1.op = "if" => /\ Left(Statement1.then \o Tail(Top.todo), n)
                                          /\ Left(Statement1.else \o Tail(Top.todo), n)
               /\ Statement1.op = "while" => /\ Left(Statement1.then \o Top.todo, n)
                                             /\ Left(Tail(Top.todo), n)
<1> DEFINE n == Len(Top.kids)
           rest == Top.todo
           need == Needs[rest]
<1>1. rest \in Rests /\ rest # <<>> /\ n \in Nat /\ need <= n
  BY TopOK DEF FrameSet, FrameOK
<1>2. Needs \in [Rests -> Nat]
  BY ProceduresAssumption, Zenon DEF ReadsAreSet, Rests
<1>3. need \in Nat
  BY <1>1, <1>2, Zenon
<1>4. \A others : Left(others, need) => Left(others, n)
  BY <1>1, <1>2, <1>3 DEF Left
<1>5. \A others : Left(others, need + 1) => Left(others, n + 1)
  BY <1>1, <1>2, <1>3 DEF Left
<1>6. ASSUME NEW what, NodesRead(what) <= need PROVE NodesRead(what) <= n
  BY <1>1, <1>3, <1>6, NodesReadType
<1> HIDE DEF n, need
<1>7. LET s == Head(rest)
      IN  /\ s.how \in {"drop", "leaf", "chain"}
          /\ s.op \in {"token", "name"} => Left(Tail(rest), need + 1)
          /\ s.op = "call" => s.arg \in DOMAIN Procedures /\ Left(Tail(rest), need + 1)
          /\ s.op = "do" => NodesRead(s.arg) <= need /\ Left(Tail(rest), need)
          /\ s.op = "if" => Left(s.then \o Tail(rest), need) /\ Left(s.else \o Tail(rest), need)
          /\ s.op = "while" => Left(s.then \o rest, need) /\ Left(Tail(rest), need)
  BY <1>1, ProceduresAssumption, Zenon DEF ReadsAreSet, Left, Rests, need
<1> QED
  BY <1>4, <1>5, <1>6, <1>7, Zenon DEF Statement1, n

-----------------------------------------------------------------------------
(* A name is found in a scope that has it.                                 *)

\* Every non-empty set of natural numbers has a least element.
LEMMA LeastNatural ==
    ASSUME NEW T \in SUBSET Nat, T # {}
    PROVE  \E m \in T : \A n \in T : m <= n
<1>1. PICK m \in T : \A n \in T : ~(<<n, m>> \in OpToRel(<, Nat))
  BY NatLessThanWellFounded, WFMin, Zenon
<1>2. \A n \in T : ~(n < m)
  BY <1>1, Zenon DEF OpToRel
<1>3. \A n \in T : m <= n
  BY <1>2, SMT
<1> QED
  BY <1>3

\* the search from each scope: a beyond the first one, parents before children
Search(f, n, a, Has, above) ==
    f = [s \in 0 .. n |-> IF s = 0 THEN a ELSE IF s \in Has THEN s ELSE f[above[s]]]

\* the search from the scope behind n others
LEMMA SearchGoesOn ==
    ASSUME NEW n \in Nat, n # 0, NEW a, NEW Has, NEW above, above[n] \in 0 .. n - 1,
           \A s \in 1 .. n - 1 : above[s] \in 0 .. s - 1,
           NEW f, Search(f, n - 1, a, Has, above)
    PROVE  \E g : Search(g, n, a, Has, above)
<1> DEFINE g == [s \in 0 .. n |-> IF s = n THEN IF n \in Has THEN n ELSE f[above[n]] ELSE f[s]]
           Found(h, s) == IF s = 0 THEN a ELSE IF s \in Has THEN s ELSE h[above[s]]
<1>1. \A s \in 0 .. n : s # n => s \in 0 .. n - 1
  BY SMT
<1>2. ASSUME NEW s \in 0 .. n - 1 PROVE f[s] = Found(f, s)
  <2> DEFINE h == [r \in 0 .. n - 1 |-> Found(f, r)]
  <2>1. f = h
    BY DEF Search
  <2>2. h[s] = Found(f, s)
    OBVIOUS
  <2> QED BY <2>1, <2>2, Zenon
<1>3. \A s \in 0 .. n - 1 : g[s] = f[s]
  BY SMT
<1>4. ASSUME NEW s \in 0 .. n PROVE g[s] = Found(g, s)
  <2>1. CASE s = 0
    BY <1>1, <1>2, <1>3, <2>1, SMT
  <2>2. CASE s # 0
    <3>1. above[s] \in 0 .. n - 1 /\ above[s] \in 0 .. n
      <4>1. above[s] \in 0 .. s - 1
        BY <2>2, SMT
      <4> QED BY <4>1, SMT
    <3>2. g[above[s]] = f[above[s]]
      BY <1>3, <3>1
    <3>3. g[s] = IF s \in Has THEN s ELSE f[above[s]]
      <4>1. CASE s = n
        BY <4>1
      <4>2. CASE s # n
        <5>1. s \in 0 .. n - 1
          BY <1>1, <4>2
        <5> QED BY <1>2, <1>3, <5>1, <2>2
      <4> QED BY <4>1, <4>2
    <3> QED BY <2>2, <3>2, <3>3
  <2> QED BY <2>1, <2>2
<1>5. g = [s \in 0 .. n |-> g[s]]
  OBVIOUS
<1> HIDE DEF g
<1>6. g = [s \in 0 .. n |-> Found(g, s)]
  BY <1>4, <1>5
<1> QED BY <1>6 DEF Search

LEMMA SearchExists ==
    ASSUME NEW n \in Nat, NEW a, NEW Has, NEW above, \A s \in 1 .. n : above[s] \in 0 .. s - 1
    PROVE  \E f : Search(f, n, a, Has, above)
<1> DEFINE Bad == {m \in 0 .. n : ~ \E f : Search(f, m, a, Has, above)}
<1>1. SUFFICES ASSUME Bad # {} PROVE FALSE
  <2>1. n \in 0 .. n
    BY SMT
  <2> QED BY <2>1
<1>2. PICK m \in Bad : \A k \in Bad : m <= k
  <2>1. Bad \in SUBSET Nat
    BY SMT
  <2> HIDE DEF Bad
  <2> QED BY <1>1, <2>1, LeastNatural
<1>3. m \in 0 .. n /\ m \in Nat /\ ~ \E f : Search(f, m, a, Has, above)
  BY <1>2, SMT
<1>4. m # 0
  <2> SUFFICES ASSUME m = 0 PROVE FALSE
    OBVIOUS
  <2> DEFINE f == [s \in 0 .. 0 |-> a]
  <2>1. \A s \in 0 .. 0 : s = 0
    BY SMT
  <2>2. Search(f, 0, a, Has, above)
    BY <2>1 DEF Search
  <2> HIDE DEF f
  <2> QED BY <1>3, <2>2
<1>5. m - 1 \in 0 .. n /\ ~(m <= m - 1)
  BY <1>3, <1>4, SMT
<1>6. PICK f : Search(f, m - 1, a, Has, above)
  BY <1>2, <1>5
<1> HIDE DEF Bad
<1>7. above[m] \in 0 .. m - 1 /\ \A s \in 1 .. m - 1 : above[s] \in 0 .. s - 1
  BY <1>3, <1>4, SMT
<1>8. \E g : Search(g, m, a, Has, above)
  BY <1>3, <1>4, <1>6, <1>7, SearchGoesOn
<1> QED BY <1>3, <1>8

\* what is found is where the name is, or what was to be taken beyond
LEMMA SearchFinds ==
    ASSUME NEW n \in Nat, NEW a, NEW Has, NEW above, \A s \in 1 .. n : above[s] \in 0 .. s - 1,
           NEW f, Search(f, n, a, Has, above), NEW scope \in 0 .. n
    PROVE  f[scope] = a \/ f[scope] \in Has \cap (1 .. n)
<1> DEFINE Found(s) == IF s = 0 THEN a ELSE IF s \in Has THEN s ELSE f[above[s]]
           Right(s) == f[s] = a \/ f[s] \in Has \cap (1 .. n)
           Bad == {s \in 0 .. n : ~ Right(s)}
<1>1. ASSUME NEW s \in 0 .. n PROVE f[s] = Found(s)
  <2> DEFINE h == [r \in 0 .. n |-> Found(r)]
  <2>1. f = h
    BY DEF Search
  <2>2. h[s] = Found(s)
    OBVIOUS
  <2> QED BY <2>1, <2>2, Zenon
<1>2. SUFFICES ASSUME Bad # {} PROVE FALSE
  OBVIOUS
<1>3. PICK s \in Bad : \A r \in Bad : s <= r
  <2>1. Bad \in SUBSET Nat
    BY SMT
  <2> HIDE DEF Bad
  <2> QED BY <1>2, <2>1, LeastNatural
<1>4. s \in 0 .. n /\ ~ Right(s)
  BY <1>3
<1>5. s # 0 /\ s \notin Has
  BY <1>1, <1>4, SMT
<1>6. f[s] = f[above[s]]
  BY <1>1, <1>4, <1>5
<1>7. above[s] \in 0 .. n /\ ~ (s <= above[s])
  <2>1. above[s] \in 0 .. s - 1
    BY <1>4, <1>5, SMT
  <2> QED BY <1>4, <2>1, SMT
<1>8. above[s] \notin Bad
  BY <1>3, <1>7
<1>9. Right(above[s])
  BY <1>7, <1>8
<1> QED BY <1>4, <1>6, <1>9

LEMMA LookupFinds ==
    ASSUME NEW T, ScopesOK(scopes, T), ModulesOK(moduleScopes, Len(scopes)),
           NEW scope \in 0 .. Len(scopes), NEW name
    PROVE  LET owner == Lookup(scope, name)
           IN  owner # 0 => owner \in 1 .. Len(scopes) /\ name \in DOMAIN scopes[owner].symbols
<1> DEFINE n == Len(scopes)
           a == IF moduleScopes # <<>> /\ name \in DOMAIN scopes[moduleScopes[1]].symbols
                THEN moduleScopes[1] ELSE 0
           Has == {s \in 1 .. n : name \in DOMAIN scopes[s].symbols}
           above == [s \in 1 .. n |-> scopes[s].parent]
           f == CHOOSE g : g = [s \in 0 .. n |-> IF s = 0 THEN a
                                                 ELSE IF name \in DOMAIN scopes[s].symbols THEN s
                                                 ELSE g[scopes[s].parent]]
<1>1. n \in Nat
  BY DEF ScopesOK
<1>2. \A s \in 1 .. n : above[s] \in 0 .. s - 1
  <2> SUFFICES ASSUME NEW s \in 1 .. n PROVE scopes[s].parent \in 0 .. s - 1
    OBVIOUS
  <2>1. scopes[s] \in ScopeSet /\ scopes[s].parent < s
    BY DEF ScopesOK
  <2>2. scopes[s].parent \in Nat
    BY <2>1 DEF ScopeSet
  <2> QED BY <1>1, <2>1, <2>2, SMT
<1>3. \A g : [s \in 0 .. n |-> IF s = 0 THEN a ELSE IF name \in DOMAIN scopes[s].symbols THEN s
                              ELSE g[scopes[s].parent]]
             = [s \in 0 .. n |-> IF s = 0 THEN a ELSE IF s \in Has THEN s ELSE g[above[s]]]
  <2> SUFFICES ASSUME NEW g, NEW s \in 0 .. n
               PROVE  (IF s = 0 THEN a ELSE IF name \in DOMAIN scopes[s].symbols THEN s
                              ELSE g[scopes[s].parent])
                      = (IF s = 0 THEN a ELSE IF s \in Has THEN s ELSE g[above[s]])
    <3> HIDE DEF a, Has, above, n
    <3> QED BY Zenon
  <2>1. s # 0 => s \in 1 .. n
    BY <1>1, SMT
  <2> QED BY <2>1
<1> HIDE DEF a, Has, above
<1>4. \E g : Search(g, n, a, Has, above)
  BY <1>1, <1>2, SearchExists
<1>5. Search(f, n, a, Has, above)
  <2> DEFINE P(g) == g = [s \in 0 .. n |-> IF s = 0 THEN a
                                           ELSE IF name \in DOMAIN scopes[s].symbols THEN s
                                           ELSE g[scopes[s].parent]]
  <2>1. \A g : P(g) <=> Search(g, n, a, Has, above)
    BY <1>3, Zenon DEF Search
  <2>2. f = CHOOSE g : P(g)
    OBVIOUS
  <2> HIDE DEF P, f
  <2>3. \E g : P(g)
    BY <1>4, <2>1, Zenon
  <2>4. P(f)
    BY <2>2, <2>3, Zenon
  <2> QED BY <2>1, <2>4, Zenon
<1>6. f[scope] = a \/ f[scope] \in Has \cap (1 .. n)
  <2> HIDE DEF f
  <2> QED BY <1>1, <1>2, <1>5, SearchFinds
<1>7. Lookup(scope, name) = f[scope]
  BY DEF Lookup, a
<1>8. a # 0 => a \in 1 .. n /\ name \in DOMAIN scopes[a].symbols
  BY DEF a, ModulesOK
<1> QED BY <1>6, <1>7, <1>8 DEF Has

-----------------------------------------------------------------------------
(* The scopes.                                                             *)

Keeps(sc, more) ==
    /\ Len(more) \in Nat /\ Len(sc) <= Len(more)
    /\ \A s \in 1 .. Len(sc) : DOMAIN sc[s].symbols \subseteq DOMAIN more[s].symbols

\* a scope whose name, whose end or whose symbols are changed
LEMMA ScopeChanged ==
    ASSUME NEW x \in ScopeSet, NEW word \in Spelling, NEW types,
           types \in UNION {[S -> Nat] : S \in SUBSET Spelling}
    PROVE  /\ [x EXCEPT !.identifier = word] \in ScopeSet
           /\ [x EXCEPT !.identifier = word].symbols = x.symbols
           /\ [x EXCEPT !.identifier = word].parent = x.parent
           /\ [x EXCEPT !.closed = TRUE] \in ScopeSet
           /\ [x EXCEPT !.closed = TRUE].symbols = x.symbols
           /\ [x EXCEPT !.closed = TRUE].parent = x.parent
           /\ [x EXCEPT !.symbols = types] \in ScopeSet
           /\ [x EXCEPT !.symbols = types].symbols = types
           /\ [x EXCEPT !.symbols = types].parent = x.parent
<1>1. [x EXCEPT !.identifier = word] \in ScopeSet
  BY DEF ScopeSet
<1>2. [x EXCEPT !.closed = TRUE] \in ScopeSet
  BY DEF ScopeSet
<1>3. [x EXCEPT !.symbols = types] \in ScopeSet
  BY DEF ScopeSet
<1> QED
  BY <1>1, <1>2, <1>3 DEF ScopeSet

\* scopes that are as before but for the names and types of their symbols
LEMMA ScopesChanged ==
    ASSUME NEW sc, NEW T \in Nat, NEW U \in Nat, T <= U, ScopesOK(sc, T), NEW more \in Seq(ScopeSet),
           Len(more) = Len(sc),
           \A s \in 1 .. Len(sc) :
              /\ more[s].parent = sc[s].parent
              /\ DOMAIN sc[s].symbols \subseteq DOMAIN more[s].symbols
              /\ \A name \in DOMAIN more[s].symbols :
                    \/ name \in DOMAIN sc[s].symbols /\ more[s].symbols[name] = sc[s].symbols[name]
                    \/ more[s].symbols[name] <= U
    PROVE  ScopesOK(more, U) /\ Keeps(sc, more)
<1>1. sc \in Seq(ScopeSet) /\ sc # <<>> /\ Len(sc) \in Nat
  BY DEF ScopesOK
<1>2. ASSUME NEW s \in 1 .. Len(more), NEW name \in DOMAIN more[s].symbols
      PROVE  more[s].symbols[name] <= U
  <2>1. s \in 1 .. Len(sc)
    OBVIOUS
  <2>2. CASE name \in DOMAIN sc[s].symbols /\ more[s].symbols[name] = sc[s].symbols[name]
    <3>1. sc[s] \in ScopeSet /\ sc[s].symbols[name] <= T
      BY <1>1, <2>1, <2>2 DEF ScopesOK
    <3>2. sc[s].symbols[name] \in Nat
      BY <2>2, <3>1 DEF ScopeSet
    <3> QED BY <2>2, <3>1, <3>2, SMT
  <2> QED BY <2>1, <2>2
<1>3. more # <<>>
  BY <1>1
<1>4. \A s \in 1 .. Len(more) : more[s].parent < s
  BY DEF ScopesOK
<1>5. ScopesOK(more, U)
  BY <1>2, <1>3, <1>4, Zenon DEF ScopesOK
<1>6. Keeps(sc, more)
  BY <1>1, SMT DEF Keeps
<1> QED
  BY <1>5, <1>6

LEMMA ScopesGrow ==
    ASSUME NEW sc, NEW T \in Nat, NEW U \in Nat, T <= U, ScopesOK(sc, T)
    PROVE  ScopesOK(sc, U) /\ Keeps(sc, sc)
BY ScopesChanged DEF ScopesOK

\* what one scope is changed to
LEMMA OneScopeChanged ==
    ASSUME NEW sc, NEW T \in Nat, NEW U \in Nat, T <= U, ScopesOK(sc, T), NEW c,
           NEW x, c \in 1 .. Len(sc) => /\ x \in ScopeSet
                                        /\ x.parent = sc[c].parent
                                        /\ DOMAIN sc[c].symbols \subseteq DOMAIN x.symbols
                                        /\ \A name \in DOMAIN x.symbols :
                                              \/ /\ name \in DOMAIN sc[c].symbols
                                                 /\ x.symbols[name] = sc[c].symbols[name]
                                              \/ x.symbols[name] <= U
    PROVE  ScopesOK([sc EXCEPT ![c] = x], U) /\ Keeps(sc, [sc EXCEPT ![c] = x])
<1> DEFINE more == [sc EXCEPT ![c] = x]
<1>1. sc \in Seq(ScopeSet) /\ Len(sc) \in Nat
  BY DEF ScopesOK
<1>2. more \in Seq(ScopeSet) /\ Len(more) = Len(sc)
  <2>1. CASE c \in 1 .. Len(sc)
    BY <1>1, <2>1
  <2>2. CASE c \notin 1 .. Len(sc)
    <3>1. more = sc
      BY <1>1, <2>2
    <3> QED BY <1>1, <3>1
  <2> QED BY <2>1, <2>2
<1>3. \A s \in 1 .. Len(sc) : more[s] = IF s = c THEN x ELSE sc[s]
  BY <1>1
<1> HIDE DEF more
<1>4. ASSUME NEW s \in 1 .. Len(sc)
      PROVE  /\ more[s].parent = sc[s].parent
             /\ DOMAIN sc[s].symbols \subseteq DOMAIN more[s].symbols
             /\ \A name \in DOMAIN more[s].symbols :
                   \/ name \in DOMAIN sc[s].symbols /\ more[s].symbols[name] = sc[s].symbols[name]
                   \/ more[s].symbols[name] <= U
  <2>1. CASE s = c
    BY <1>3, <2>1, Zenon
  <2>2. CASE s # c
    BY <1>3, <2>2, Zenon
  <2> QED BY <2>1, <2>2
<1>5. ScopesOK(more, U) /\ Keeps(sc, more)
  BY <1>2, <1>4, ScopesChanged
<1> QED BY <1>5 DEF more

\* a scope's name, and its end
WithName(sc, c, word) == [sc EXCEPT ![c].identifier = word]
LEMMA ScopeNamed ==
    ASSUME NEW sc, NEW T \in Nat, ScopesOK(sc, T), NEW c, NEW word,
           c \in 1 .. Len(sc) => word \in Spelling
    PROVE  /\ ScopesOK(WithName(sc, c, word), T)
           /\ Keeps(sc, WithName(sc, c, word))
           /\ Len(WithName(sc, c, word)) = Len(sc)
<1> DEFINE x == [sc[c] EXCEPT !.identifier = word]
<1>1. c \in 1 .. Len(sc) => sc[c] \in ScopeSet
  BY DEF ScopesOK
<1>2. c \in 1 .. Len(sc) => x \in ScopeSet /\ x.symbols = sc[c].symbols /\ x.parent = sc[c].parent
  <2> SUFFICES ASSUME c \in 1 .. Len(sc)
               PROVE  x \in ScopeSet /\ x.symbols = sc[c].symbols /\ x.parent = sc[c].parent
    OBVIOUS
  <2>1. sc[c] \in ScopeSet /\ word \in Spelling
    BY <1>1
  <2> QED BY <2>1 DEF ScopeSet
<1>3. WithName(sc, c, word) = [sc EXCEPT ![c] = x]
  BY DEF WithName
<1> HIDE DEF x
<1>4. ScopesOK([sc EXCEPT ![c] = x], T) /\ Keeps(sc, [sc EXCEPT ![c] = x])
  BY <1>2, OneScopeChanged
<1>5. Len([sc EXCEPT ![c] = x]) = Len(sc)
  BY DEF ScopesOK
<1> QED BY <1>3, <1>4, <1>5

LEMMA ScopeClosed ==
    ASSUME NEW sc, NEW T \in Nat, ScopesOK(sc, T), NEW c
    PROVE  /\ ScopesOK([sc EXCEPT ![c].closed = TRUE], T)
           /\ Keeps(sc, [sc EXCEPT ![c].closed = TRUE])
           /\ Len([sc EXCEPT ![c].closed = TRUE]) = Len(sc)
<1> DEFINE x == [sc[c] EXCEPT !.closed = TRUE]
<1>1. c \in 1 .. Len(sc) => sc[c] \in ScopeSet
  BY DEF ScopesOK
<1>2. c \in 1 .. Len(sc) => x \in ScopeSet /\ x.symbols = sc[c].symbols /\ x.parent = sc[c].parent
  BY <1>1 DEF ScopeSet
<1>3. [sc EXCEPT ![c].closed = TRUE] = [sc EXCEPT ![c] = x]
  OBVIOUS
<1> HIDE DEF x
<1>4. ScopesOK([sc EXCEPT ![c] = x], T) /\ Keeps(sc, [sc EXCEPT ![c] = x])
  BY <1>2, OneScopeChanged
<1>5. Len([sc EXCEPT ![c] = x]) = Len(sc)
  BY DEF ScopesOK
<1> QED BY <1>3, <1>4, <1>5

\* the type of a symbol that a scope has
WithType(sc, c, word, type) == [sc EXCEPT ![c].symbols[word] = type]
LEMMA SymbolTyped ==
    ASSUME NEW sc, NEW T \in Nat, NEW U \in Nat, T <= U, ScopesOK(sc, T), NEW c, NEW word,
           NEW type \in 0 .. U
    PROVE  /\ ScopesOK(WithType(sc, c, word, type), U)
           /\ Keeps(sc, WithType(sc, c, word, type))
           /\ Len(WithType(sc, c, word, type)) = Len(sc)
<1> DEFINE types == [sc[c].symbols EXCEPT ![word] = type]
           x == [sc[c] EXCEPT !.symbols = types]
<1>1. ASSUME c \in 1 .. Len(sc)
      PROVE  /\ x \in ScopeSet /\ x.parent = sc[c].parent
             /\ DOMAIN sc[c].symbols \subseteq DOMAIN x.symbols
             /\ \A name \in DOMAIN x.symbols :
                   \/ name \in DOMAIN sc[c].symbols /\ x.symbols[name] = sc[c].symbols[name]
                   \/ x.symbols[name] <= U
  <2>1. sc[c] \in ScopeSet
    BY <1>1 DEF ScopesOK
  <2>2. PICK S \in SUBSET Spelling : sc[c].symbols \in [S -> Nat]
    BY <2>1 DEF ScopeSet
  <2>3. types \in [S -> Nat] /\ DOMAIN types = DOMAIN sc[c].symbols
    <3>1. type \in Nat
      BY SMT
    <3> QED BY <2>2, <3>1
  <2>4. \A name \in DOMAIN types :
           \/ name \in DOMAIN sc[c].symbols /\ types[name] = sc[c].symbols[name]
           \/ types[name] <= U
    BY SMT
  <2> HIDE DEF types
  <2>5. x \in ScopeSet /\ x.symbols = types /\ x.parent = sc[c].parent
    BY <2>1, <2>3 DEF ScopeSet
  <2> HIDE DEF x
  <2> QED BY <2>3, <2>4, <2>5
<1>2. WithType(sc, c, word, type) = [sc EXCEPT ![c] = x]
  BY DEF WithType
<1> HIDE DEF x, types
<1>3. ScopesOK([sc EXCEPT ![c] = x], U) /\ Keeps(sc, [sc EXCEPT ![c] = x])
  BY <1>1, OneScopeChanged
<1>4. Len([sc EXCEPT ![c] = x]) = Len(sc)
  BY DEF ScopesOK
<1> QED BY <1>2, <1>3, <1>4

\* a symbol that is added
WithSymbol(sc, c, word) ==
    [sc EXCEPT ![c].symbols =
        [name \in DOMAIN @ \cup {word} |-> IF name = word THEN 0 ELSE @[name]]]
LEMMA SymbolAdded ==
    ASSUME NEW sc, NEW T \in Nat, NEW U \in Nat, T <= U, ScopesOK(sc, T), NEW c \in 1 .. Len(sc),
           NEW word \in Spelling
    PROVE  LET more == WithSymbol(sc, c, word)
           IN  /\ ScopesOK(more, U) /\ Keeps(sc, more) /\ Len(more) = Len(sc)
               /\ word \in DOMAIN more[c].symbols
<1> DEFINE types == [name \in DOMAIN sc[c].symbols \cup {word} |->
                        IF name = word THEN 0 ELSE sc[c].symbols[name]]
           x == [sc[c] EXCEPT !.symbols = types]
           more == WithSymbol(sc, c, word)
<1>1. sc \in Seq(ScopeSet) /\ sc[c] \in ScopeSet
  BY DEF ScopesOK
<1>2. PICK S \in SUBSET Spelling : sc[c].symbols \in [S -> Nat]
  BY <1>1 DEF ScopeSet
<1>3. types \in [S \cup {word} -> Nat] /\ DOMAIN types = DOMAIN sc[c].symbols \cup {word}
  BY <1>2
<1>4. \A name \in DOMAIN types :
         \/ name \in DOMAIN sc[c].symbols /\ types[name] = sc[c].symbols[name]
         \/ types[name] <= U
  BY SMT
<1>5. more = [sc EXCEPT ![c] = x]
  BY DEF WithSymbol
<1> HIDE DEF types
<1>6. x \in ScopeSet /\ x.symbols = types /\ x.parent = sc[c].parent
  <2>1. S \cup {word} \in SUBSET Spelling
    OBVIOUS
  <2>2. types \in UNION {[R -> Nat] : R \in SUBSET Spelling}
    BY <1>3, <2>1, Zenon
  <2> QED BY <1>1, <2>2, ScopeChanged
<1> HIDE DEF x, more
<1>7. ScopesOK(more, U) /\ Keeps(sc, more)
  BY <1>3, <1>4, <1>5, <1>6, OneScopeChanged
<1>8. Len(more) = Len(sc) /\ more[c] = x
  BY <1>1, <1>5
<1>9. word \in DOMAIN more[c].symbols
  BY <1>3, <1>6, <1>8
<1> QED BY <1>7, <1>8, <1>9 DEF more

-----------------------------------------------------------------------------
(* What the actions have in common.                                        *)

\* the state, with the numbers of nodes and scopes
LEMMA Sizes ==
    ASSUME IInv
    PROVE  /\ Len(tree) \in Nat \ {0} /\ Len(scopes) \in Nat \ {0} /\ Len(text) \in Nat \ {0}
           /\ tree \in Seq(Node) /\ scopes \in Seq(ScopeSet) /\ stack \in Seq(FrameSet)
           /\ text[at] \in [type : STRING, name : STRING, value : Int \X Int]
<1>1. tree \in Seq(Node) /\ tree # <<>> /\ scopes \in Seq(ScopeSet) /\ scopes # <<>>
      /\ stack \in Seq(FrameSet)
  BY DEF IInv, TreeOK, ScopesOK, StackOK
<1>2. text # <<>> /\ text \in Seq([type : STRING, name : STRING, value : Int \X Int])
  BY TextsAssumption DEF IInv
<1>3. at \in 1 .. Len(text)
  BY DEF IInv
<1>4. /\ Len(tree) \in Nat \ {0} /\ Len(scopes) \in Nat \ {0}
  BY <1>1
<1> DEFINE Tokens == [type : STRING, name : STRING, value : Int \X Int]
<1> HIDE DEF Tokens
<1>5. text # <<>> /\ text \in Seq(Tokens)
  BY <1>2 DEF Tokens
<1>6. Len(text) \in Nat \ {0} /\ text[at] \in Tokens
  BY <1>3, <1>5
<1> QED BY <1>1, <1>4, <1>6 DEF Tokens

\* the statements of a call that starts
LEMMA Starts ==
    ASSUME NEW p \in DOMAIN Procedures, NEW T, NEW S, NEW node \in 1 .. T, NEW scope \in 1 .. S,
           T \in Nat, S \in Nat, NEW how \in {"drop", "leaf", "chain"}
    PROVE  Frame(p, node, scope, how) \in FrameSet /\ FrameOK(Frame(p, node, scope, how), T, S, 0)
<1> DEFINE f == Frame(p, node, scope, how)
<1>1. Procedures[p] \in Rests /\ Needs[Procedures[p]] = 0
  BY ProceduresAssumption, Zenon DEF ReadsAreSet, Rests
<1>2. node \in Nat /\ scope \in Nat /\ <<>> \in Seq(Nat) /\ Len(<<>>) = 0
  BY SMT
<1>3. f \in FrameSet
  BY <1>1, <1>2 DEF Frame, FrameSet
<1>4. f.node = node /\ f.scope = scope /\ f.kids = <<>> /\ f.todo = Procedures[p]
  BY DEF Frame
<1> HIDE DEF f
<1>5. FrameOK(f, T, S, 0)
  BY <1>1, <1>2, <1>4 DEF FrameOK
<1> QED BY <1>3, <1>5 DEF f

\* two frames in the place of the innermost
LEMMA Pushed ==
    ASSUME NEW T \in Nat, NEW S \in Nat, NEW U \in Nat, NEW V \in Nat, T <= U, S <= V,
           StackOK(stack, T, S), NEW f \in FrameSet, FrameOK(f, U, V, 0),
           NEW g \in FrameSet, FrameOK(g, U, V, 1)
    PROVE  StackOK(<<f, g>> \o Tail(stack), U, V)
<1>1. stack \in Seq(FrameSet) /\ stack # <<>> /\ <<f, g>> \in Seq(FrameSet)
  BY DEF StackOK
<1> DEFINE st == <<f, g>> \o Tail(stack)
<1>2. /\ st \in Seq(FrameSet) /\ Len(st) = Len(stack) + 1 /\ st[1] = f /\ st[2] = g
      /\ \A i \in 3 .. Len(stack) + 1 : st[i] = stack[i - 1]
      /\ Len(stack) \in Nat
  BY <1>1, SMT
<1> HIDE DEF st
<1>3. ASSUME NEW i \in 3 .. Len(st) PROVE FrameOK(st[i], U, V, 1)
  <2>1. i - 1 \in 2 .. Len(stack)
    BY <1>2, SMT
  <2>2. FrameOK(stack[i - 1], T, S, 1) /\ stack[i - 1] \in FrameSet
    BY <1>1, <2>1, SMT DEF StackOK
  <2>3. FrameOK(stack[i - 1], U, V, 1)
    BY <2>2, FrameGrows
  <2> QED BY <2>3, <1>2
<1>4. st # <<>> /\ \A i \in 1 .. Len(st) : FrameOK(st[i], U, V, IF i = 1 THEN 0 ELSE 1)
  <2>1. \A i \in 1 .. Len(st) : i = 1 \/ i = 2 \/ i \in 3 .. Len(st)
    BY <1>2, SMT
  <2>2. st # <<>>
    BY <1>2
  <2> QED BY <1>2, <1>3, <2>1, <2>2
<1>5. StackOK(st, U, V)
  BY <1>2, <1>4 DEF StackOK
<1> QED BY <1>5 DEF st

\* the innermost frame taken away, and the one behind it replaced
LEMMA Popped ==
    ASSUME NEW T \in Nat, NEW S \in Nat, NEW U \in Nat, NEW V \in Nat, T <= U, S <= V,
           StackOK(stack, T, S), Len(stack) > 1, NEW f \in FrameSet, FrameOK(f, U, V, 0)
    PROVE  StackOK(<<f>> \o Tail(Tail(stack)), U, V)
<1>1. stack \in Seq(FrameSet) /\ stack # <<>> /\ <<f>> \in Seq(FrameSet)
  BY DEF StackOK
<1> DEFINE st == <<f>> \o Tail(Tail(stack))
<1>2. /\ Tail(stack) \in Seq(FrameSet) /\ Len(Tail(stack)) = Len(stack) - 1 /\ Len(stack) \in Nat
      /\ \A i \in 1 .. Len(stack) - 1 : Tail(stack)[i] = stack[i + 1]
      /\ Tail(stack) # <<>>
  <2>1. Tail(stack) \in Seq(FrameSet) /\ Len(Tail(stack)) = Len(stack) - 1 /\ Len(stack) \in Nat
    BY <1>1
  <2>2. \A i \in 1 .. Len(stack) - 1 : Tail(stack)[i] = stack[i + 1]
    BY <1>1
  <2>3. Len(Tail(stack)) # 0 /\ Len(<<>>) = 0
    BY <2>1
  <2> QED BY <2>1, <2>2, <2>3
<1>3. /\ st \in Seq(FrameSet) /\ Len(st) = Len(Tail(stack)) /\ st[1] = f
      /\ \A i \in 2 .. Len(Tail(stack)) : st[i] = Tail(stack)[i]
  BY <1>1, <1>2, SMT
<1> HIDE DEF st
<1>4. ASSUME NEW i \in 2 .. Len(st) PROVE FrameOK(st[i], U, V, 1)
  <2>1. i + 1 \in 2 .. Len(stack) /\ st[i] = stack[i + 1]
    BY <1>2, <1>3, SMT
  <2>2. FrameOK(stack[i + 1], T, S, 1) /\ stack[i + 1] \in FrameSet
    BY <1>1, <2>1, SMT DEF StackOK
  <2>3. FrameOK(stack[i + 1], U, V, 1)
    BY <2>2, FrameGrows
  <2> QED BY <2>1, <2>3
<1>5. st # <<>> /\ \A i \in 1 .. Len(st) : FrameOK(st[i], U, V, IF i = 1 THEN 0 ELSE 1)
  <2>1. \A i \in 1 .. Len(st) : i = 1 \/ i \in 2 .. Len(st)
    BY <1>2, <1>3, SMT
  <2>2. st # <<>>
    BY <1>2, <1>3
  <2> QED BY <1>3, <1>4, <2>1, <2>2
<1>6. StackOK(st, U, V)
  BY <1>3, <1>5 DEF StackOK
<1> QED BY <1>6 DEF st

\* the innermost call goes on with a node more
LEMMA GoesOnWithNode ==
    ASSUME NEW T \in Nat, NEW S \in Nat, NEW U \in Nat, NEW V \in Nat, T <= U, S <= V,
           StackOK(stack, T, S), Left(Tail(Top.todo), Len(Top.kids) + 1), NEW kid \in 1 .. U
    PROVE  StackOK(<<Gets(Done, kid)>> \o Tail(stack), U, V)
<1>1. Top \in FrameSet /\ FrameOK(Top, T, S, 0)
  BY TopOK
<1>2. FrameOK(Top, U, V, 0)
  BY <1>1, FrameGrows
<1>3. Done \in FrameSet /\ FrameOK(Done, U, V, 1)
  BY <1>1, <1>2, FrameGoesOn DEF Left, Done
<1>4. Gets(Done, kid) \in FrameSet /\ FrameOK(Gets(Done, kid), U, V, 0)
  BY <1>3, FrameGets
<1> QED BY <1>4, TopReplaced

\* the innermost call goes on with other statements to do
LEMMA GoesOn ==
    ASSUME NEW T \in Nat, NEW S \in Nat, NEW U \in Nat, NEW V \in Nat, T <= U, S <= V,
           StackOK(stack, T, S), NEW rest, Left(rest, Len(Top.kids))
    PROVE  /\ [Top EXCEPT !.todo = rest] \in FrameSet
           /\ FrameOK([Top EXCEPT !.todo = rest], U, V, 0)
           /\ StackOK(<<[Top EXCEPT !.todo = rest]>> \o Tail(stack), U, V)
<1>1. Top \in FrameSet /\ FrameOK(Top, T, S, 0)
  BY TopOK
<1>2. FrameOK(Top, U, V, 0)
  BY <1>1, FrameGrows
<1>3. Len(Top.kids) + 0 = Len(Top.kids)
  BY <1>1 DEF FrameSet
<1>4. [Top EXCEPT !.todo = rest] \in FrameSet /\ FrameOK([Top EXCEPT !.todo = rest], U, V, 0)
  BY <1>1, <1>2, <1>3, FrameGoesOn DEF Left
<1> QED BY <1>4, TopReplaced

LEMMA ModulesGrow ==
    ASSUME NEW S \in Nat, NEW V \in Nat, S <= V, NEW m, ModulesOK(m, S)
    PROVE  ModulesOK(m, V)
BY DEF ModulesOK

\* the parser gives up, or is done
LEMMA StopTyped ==
    ASSUME IInv, NEW how \in Outcomes, GiveUp(how)
    PROVE  IInv'
BY DEF IInv, GiveUp, Stop, KeepsTables, tables

\* the other states to which a step may lead
LEMMA StepTyped ==
    ASSUME IInv, text' = text, at' \in 1 .. Len(text), outcome' = outcome,
           TreeOK(tree', scopes'), StackOK(stack', Len(tree'), Len(scopes')),
           ScopesOK(scopes', Len(tree')), ModulesOK(moduleScopes', Len(scopes'))
    PROVE  IInv'
BY DEF IInv

LEMMA Advances ==
    ASSUME IInv, Advance
    PROVE  at' \in 1 .. Len(text)
BY Sizes DEF IInv, Advance

-----------------------------------------------------------------------------
(* Tokens and names.                                                       *)

LEMMA NodeOfName ==
    ASSUME NEW word \in Spelling
    PROVE  NewNode("identifier", word, <<0, 1>>) \in Node
<1>1. "identifier" \in Spelling
  BY DEF Spelling
<1>2. <<0, 1>> \in Int \X Int
  BY SMT
<1> QED BY <1>1, <1>2 DEF NewNode, Node

LEMMA NodeOfCall ==
    ASSUME NEW p \in Spelling
    PROVE  NewNode(p, "", <<0, 1>>) \in Node
<1>1. "" \in Spelling
  BY DEF Spelling
<1>2. <<0, 1>> \in Int \X Int
  BY SMT
<1> QED BY <1>1, <1>2 DEF NewNode, Node

\* a new node that is attached to the innermost call's, which gets it
LEMMA NodeTaken ==
    ASSUME IInv, Top.todo # <<>>, Statement1.op \in {"token", "name"}, NEW x \in Node,
           x.left = 0, x.right = 0,
           x.symbol # 0 => x.symbol <= Len(scopes') /\ x.name \in DOMAIN scopes'[x.symbol].symbols,
           tree' = Attach(Append(tree, x), Top.node, Len(Append(tree, x)), Statement1.how),
           stack' = <<Gets(Done, Len(Append(tree, x)))>> \o Tail(stack),
           Advance, text' = text, outcome' = outcome, moduleScopes' = moduleScopes,
           ScopesOK(scopes', Len(tree)), Keeps(scopes, scopes')
    PROVE  IInv'
<1> DEFINE made == Append(tree, x)
<1>1. /\ Len(tree) \in Nat /\ Len(scopes) \in Nat /\ Len(scopes') \in Nat
      /\ Len(scopes) <= Len(scopes')
  BY Sizes DEF Keeps
<1>2. TreeOK(tree, scopes')
  BY <1>1, TreeAmongMore DEF IInv, Keeps
<1>3. TreeOK(made, scopes') /\ Len(made) = Len(tree) + 1
  <2>1. x.left <= Len(tree) + 1 /\ x.right <= Len(tree) + 1
    BY <1>1, SMT
  <2> QED BY <1>1, <1>2, <2>1, TreeAppended
<1> HIDE DEF made
<1>4. Len(made) \in 1 .. Len(made) /\ Len(made) \in Nat /\ Len(tree) <= Len(made)
  BY <1>1, <1>3, SMT
<1>5. tree' = Attach(made, Top.node, Len(made), Statement1.how)
  BY DEF made
<1>6. TreeOK(tree', scopes') /\ Len(tree') \in Nat /\ Len(tree') >= Len(made)
  BY <1>3, <1>4, <1>5, TreeAttached
<1>7. Left(Tail(Top.todo), Len(Top.kids) + 1)
  BY NextStatement DEF IInv
<1>8. Len(made) \in 1 .. Len(tree') /\ Len(tree) <= Len(tree')
  BY <1>1, <1>3, <1>4, <1>6, SMT
<1>9. StackOK(stack', Len(tree'), Len(scopes'))
  <2>1. stack' = <<Gets(Done, Len(made))>> \o Tail(stack)
    BY DEF made
  <2> QED BY <1>1, <1>6, <1>7, <1>8, <2>1, GoesOnWithNode DEF IInv
<1>10. ScopesOK(scopes', Len(tree'))
  BY <1>1, <1>6, <1>8, ScopesGrow
<1>11. ModulesOK(moduleScopes', Len(scopes'))
  BY <1>1, ModulesGrow DEF IInv
<1> QED
  BY <1>6, <1>9, <1>10, <1>11, Advances, StepTyped

LEMMA ParseTerminalTyped ==
    ASSUME IInv, ParseTerminal
    PROVE  IInv'
<1> DEFINE t == text[at]
           x == NewNode(t.type, t.name, t.value)
<1>1. t.type \in Spelling /\ t.name \in Spelling /\ t.value \in Int \X Int
  BY Sizes DEF Spelling
<1>2. x \in Node /\ x.left = 0 /\ x.right = 0 /\ x.symbol = 0
  BY <1>1, NodeMade
<1>3. /\ Top.todo # <<>> /\ Statement1.op = "token"
      /\ tree' = Attach(Append(tree, x), Top.node, Len(Append(tree, x)), Statement1.how)
      /\ stack' = <<Gets(Done, Len(Append(tree, x)))>> \o Tail(stack)
      /\ Advance /\ text' = text /\ outcome' = outcome
      /\ scopes' = scopes /\ moduleScopes' = moduleScopes
  BY DEF ParseTerminal, TakeToken, At, With, KeepsTables, tables
<1> HIDE DEF x
<1>4. ScopesOK(scopes', Len(tree)) /\ Keeps(scopes, scopes')
  BY <1>3, Sizes, ScopesGrow DEF IInv
<1> QED
  BY <1>2, <1>3, <1>4, NodeTaken

\* a name, with a symbol that the scope has
LEMMA NameTaken ==
    ASSUME IInv, Naming, NEW scope \in Nat, TakesName(scope),
           ScopesOK(scopes', Len(tree)), Keeps(scopes, scopes'),
           scope # 0 => scope <= Len(scopes') /\ Word \in DOMAIN scopes'[scope].symbols
    PROVE  IInv'
<1> DEFINE x == [NewNode("identifier", Word, <<0, 1>>) EXCEPT !.symbol = scope]
<1>1. Word \in Spelling
  BY Sizes DEF Word, Spelling
<1>2. NewNode("identifier", Word, <<0, 1>>) \in Node
  BY <1>1, NodeOfName
<1>3. x \in Node
  BY <1>2 DEF Node
<1>4. x.left = 0 /\ x.right = 0 /\ x.symbol = scope /\ x.name = Word
  BY DEF NewNode
<1>5. /\ Top.todo # <<>> /\ Statement1.op = "name"
      /\ tree' = Attach(Append(tree, x), Top.node, Len(Append(tree, x)), Statement1.how)
      /\ stack' = <<Gets(Done, Len(Append(tree, x)))>> \o Tail(stack)
      /\ Advance /\ text' = text /\ outcome' = outcome /\ moduleScopes' = moduleScopes
  BY DEF TakesName, Naming, At, With
<1> HIDE DEF x
<1> QED
  BY <1>3, <1>4, <1>5, NodeTaken

LEMMA DefineTyped ==
    ASSUME IInv, Define
    PROVE  IInv'
<1>1. GiveUp("semantic error") \/ GiveUp("fatal") \/ GiveUp("syntax error")
      \/ /\ TakesName(Top.scope)
         /\ scopes' = [scopes EXCEPT ![Top.scope].symbols =
                           [name \in DOMAIN @ \cup {Word} |-> IF name = Word THEN 0 ELSE @[name]]]
  BY DEF Define
<1>2. CASE GiveUp("semantic error") \/ GiveUp("fatal") \/ GiveUp("syntax error")
  BY <1>2, StopTyped DEF Outcomes
<1>3. CASE /\ TakesName(Top.scope)
           /\ scopes' = [scopes EXCEPT ![Top.scope].symbols =
                             [name \in DOMAIN @ \cup {Word} |-> IF name = Word THEN 0 ELSE @[name]]]
  <2>1. Top.scope \in 1 .. Len(scopes)
    BY TopOK DEF IInv, FrameOK
  <2>2. Word \in Spelling
    BY Sizes DEF Word, Spelling
  <2>3. /\ ScopesOK(scopes', Len(tree)) /\ Keeps(scopes, scopes') /\ Len(scopes') = Len(scopes)
        /\ Word \in DOMAIN scopes'[Top.scope].symbols
    <3>1. Len(tree) \in Nat /\ Len(tree) <= Len(tree) /\ ScopesOK(scopes, Len(tree))
      BY Sizes DEF IInv
    <3> DEFINE more == WithSymbol(scopes, Top.scope, Word)
    <3>2. /\ ScopesOK(more, Len(tree)) /\ Keeps(scopes, more) /\ Len(more) = Len(scopes)
          /\ Word \in DOMAIN more[Top.scope].symbols
      BY <2>1, <2>2, <3>1, SymbolAdded
    <3>3. scopes' = more
      BY <1>3 DEF WithSymbol
    <3> HIDE DEF more
    <3> QED BY <3>2, <3>3
  <2>4. Top.scope \in Nat /\ Top.scope <= Len(scopes')
    BY <2>1, <2>3, Sizes
  <2>5. Naming
    BY DEF Define
  <2> QED BY <1>3, <2>3, <2>4, <2>5, NameTaken
<1> QED BY <1>1, <1>2, <1>3

LEMMA UseTyped ==
    ASSUME IInv, Use
    PROVE  IInv'
<1> DEFINE from == IF Statement1.arg = "usage in module" THEN 0 ELSE Top.scope
           owner == IF Statement1.arg = "ignore" THEN 0 ELSE Lookup(from, Word)
<1>1. GiveUp("semantic error") \/ GiveUp("syntax error") \/ (TakesName(owner) /\ UNCHANGED scopes)
  BY DEF Use
<1>2. CASE GiveUp("semantic error") \/ GiveUp("syntax error")
  BY <1>2, StopTyped DEF Outcomes
<1>3. CASE TakesName(owner) /\ UNCHANGED scopes
  <2>1. Top.scope \in 1 .. Len(scopes) /\ Len(scopes) \in Nat
    BY TopOK, Sizes DEF IInv, FrameOK
  <2>2. from \in 0 .. Len(scopes)
    <3>1. 0 \in 0 .. Len(scopes) /\ Top.scope \in 0 .. Len(scopes)
      BY <2>1
    <3> QED BY <3>1
  <2> HIDE DEF from
  <2>3. owner # 0 => owner \in 1 .. Len(scopes) /\ Word \in DOMAIN scopes[owner].symbols
    BY <2>2, LookupFinds DEF IInv
  <2> HIDE DEF owner
  <2>4. owner \in Nat /\ (owner # 0 => owner <= Len(scopes))
    BY <2>1, <2>3
  <2>5. ScopesOK(scopes', Len(tree)) /\ Keeps(scopes, scopes')
    BY <1>3, Sizes, ScopesGrow DEF IInv
  <2>6. Naming
    BY DEF Use
  <2> QED BY <1>3, <2>3, <2>4, <2>5, <2>6, NameTaken
<1> QED BY <1>1, <1>2, <1>3

-----------------------------------------------------------------------------
(* Calls, conditions and loops.                                            *)

LEMMA EnterTyped ==
    ASSUME IInv, Enter, KeepsTables
    PROVE  IInv'
<1> DEFINE p == Statement1.arg
           x == NewNode(p, "", <<0, 1>>)
           f == Frame(p, Len(tree) + 1, Top.scope, Statement1.how)
<1>1. /\ Top.todo # <<>> /\ Statement1.op = "call"
      /\ tree' = Append(tree, x) /\ stack' = <<f, Done>> \o Tail(stack)
      /\ text' = text /\ at' = at /\ outcome' = outcome
      /\ scopes' = scopes /\ moduleScopes' = moduleScopes
  BY DEF Enter, At, KeepsTables, tables
<1>2. /\ p \in DOMAIN Procedures /\ Left(Tail(Top.todo), Len(Top.kids) + 1)
      /\ Statement1.how \in {"drop", "leaf", "chain"}
  BY <1>1, NextStatement DEF IInv
<1>3. p \in Spelling
  BY <1>2, ProceduresAssumption DEF Spelling
<1>4. x \in Node
  BY <1>3, NodeOfCall
<1>5. x.left = 0 /\ x.right = 0 /\ x.symbol = 0
  BY DEF NewNode
<1>6. Len(tree) \in Nat /\ Len(scopes) \in Nat
  BY Sizes
<1> HIDE DEF x, p
<1>7. TreeOK(tree', scopes') /\ Len(tree') = Len(tree) + 1
  BY <1>1, <1>4, <1>5, <1>6, TreeAppended DEF IInv
<1>8. Len(tree) + 1 \in 1 .. Len(tree') /\ Len(tree') \in Nat /\ Len(tree) <= Len(tree')
  BY <1>6, <1>7
<1>9. Top \in FrameSet /\ FrameOK(Top, Len(tree), Len(scopes), 0)
  BY TopOK DEF IInv
<1>10. FrameOK(Top, Len(tree'), Len(scopes), 0)
  BY <1>6, <1>8, <1>9, FrameGrows
<1>11. Top.scope \in 1 .. Len(scopes)
  BY <1>9 DEF FrameOK
<1>12. f \in FrameSet /\ FrameOK(f, Len(tree'), Len(scopes), 0)
  BY <1>2, <1>6, <1>8, <1>11, Starts
<1>13. Done \in FrameSet /\ FrameOK(Done, Len(tree'), Len(scopes), 1)
  BY <1>2, <1>9, <1>10, FrameGoesOn DEF Left, Done
<1> HIDE DEF f
<1>14. StackOK(stack', Len(tree'), Len(scopes'))
  BY <1>1, <1>6, <1>8, <1>12, <1>13, Pushed DEF IInv
<1>15. ScopesOK(scopes', Len(tree'))
  BY <1>1, <1>6, <1>8, ScopesGrow DEF IInv
<1> QED
  BY <1>1, <1>7, <1>14, <1>15, StepTyped DEF IInv

LEMMA LeaveTyped ==
    ASSUME IInv, Leave, KeepsTables
    PROVE  IInv'
<1>1. /\ Len(stack) > 1
      /\ tree' = Attach(tree, stack[2].node, Top.node, Top.how)
      /\ stack' = <<Gets(stack[2], Top.node)>> \o Tail(Tail(stack))
      /\ text' = text /\ at' = at /\ outcome' = outcome
      /\ scopes' = scopes /\ moduleScopes' = moduleScopes
  BY DEF Leave, KeepsTables, tables
<1>2. Len(tree) \in Nat /\ Len(scopes) \in Nat
  BY Sizes
<1>3. Top.node \in 1 .. Len(tree)
  BY TopOK DEF IInv, FrameOK
<1>4. TreeOK(tree', scopes') /\ Len(tree') \in Nat /\ Len(tree) <= Len(tree')
  BY <1>1, <1>3, TreeAttached DEF IInv
<1>5. stack[2] \in FrameSet /\ FrameOK(stack[2], Len(tree), Len(scopes), 1)
  <2>1. 2 \in 1 .. Len(stack) /\ stack \in Seq(FrameSet)
    BY <1>1, Sizes
  <2>2. FrameOK(stack[2], Len(tree), Len(scopes), IF 2 = 1 THEN 0 ELSE 1)
    BY <2>1, Zenon DEF IInv, StackOK
  <2> QED BY <2>1, <2>2
<1>6. FrameOK(stack[2], Len(tree'), Len(scopes), 1) /\ Top.node \in 1 .. Len(tree')
  BY <1>2, <1>3, <1>4, <1>5, FrameGrows
<1>7. /\ Gets(stack[2], Top.node) \in FrameSet
      /\ FrameOK(Gets(stack[2], Top.node), Len(tree'), Len(scopes), 0)
  BY <1>4, <1>5, <1>6, FrameGets
<1>8. StackOK(stack', Len(tree'), Len(scopes'))
  BY <1>1, <1>2, <1>4, <1>7, Popped DEF IInv
<1>9. ScopesOK(scopes', Len(tree'))
  BY <1>1, <1>2, <1>4, ScopesGrow DEF IInv
<1> QED
  BY <1>1, <1>4, <1>8, <1>9, StepTyped DEF IInv

\* steps that only change what is left to do
LEMMA TodoTyped ==
    ASSUME IInv, NEW rest, Left(rest, Len(Top.kids)),
           stack' = <<[Top EXCEPT !.todo = rest]>> \o Tail(stack),
           UNCHANGED <<text, at, tree, outcome, tables>>
    PROVE  IInv'
<1>1. Len(tree) \in Nat /\ Len(scopes) \in Nat
  BY Sizes
<1>2. StackOK(stack', Len(tree), Len(scopes))
  BY <1>1, GoesOn DEF IInv
<1> QED
  BY <1>2 DEF IInv, tables

LEMMA BranchTyped ==
    ASSUME IInv, Branch, KeepsTables
    PROVE  IInv'
<1> DEFINE rest == (IF Holds(Statement1.condition) THEN Statement1.then ELSE Statement1.else)
                   \o Tail(Top.todo)
<1>1. /\ Top.todo # <<>> /\ Statement1.op = "if"
      /\ stack' = <<[Top EXCEPT !.todo = rest]>> \o Tail(stack)
      /\ UNCHANGED <<text, at, tree, outcome, tables>>
  BY DEF Branch, At, With, KeepsTables
<1>2. /\ Left(Statement1.then \o Tail(Top.todo), Len(Top.kids))
      /\ Left(Statement1.else \o Tail(Top.todo), Len(Top.kids))
  BY <1>1, NextStatement DEF IInv
<1>3. Left(rest, Len(Top.kids))
  BY <1>2
<1> HIDE DEF rest
<1> QED BY <1>1, <1>3, TodoTyped

LEMMA LoopTyped ==
    ASSUME IInv, Loop, KeepsTables
    PROVE  IInv'
<1> DEFINE rest == IF Holds(Statement1.condition) THEN Statement1.then \o Top.todo
                   ELSE Tail(Top.todo)
<1>1. /\ Top.todo # <<>> /\ Statement1.op = "while"
      /\ stack' = <<[Top EXCEPT !.todo = rest]>> \o Tail(stack)
      /\ UNCHANGED <<text, at, tree, outcome, tables>>
  BY DEF Loop, At, With, Done, KeepsTables
<1>2. /\ Left(Statement1.then \o Top.todo, Len(Top.kids))
      /\ Left(Tail(Top.todo), Len(Top.kids))
  BY <1>1, NextStatement DEF IInv
<1>3. Left(rest, Len(Top.kids))
  BY <1>2
<1> HIDE DEF rest
<1> QED BY <1>1, <1>3, TodoTyped

-----------------------------------------------------------------------------
(* Computations.                                                           *)

LEMMA Reads ==
    /\ NodesRead("add module") = 8
    /\ NodesRead("function types") = 6 /\ NodesRead("copied types") = 6
    /\ NodesRead("assign types") = 3
    /\ NodesRead("symbol of type") = 1 /\ NodesRead("tuple value") = 1
BY DEF NodesRead

\* a computation has the nodes it reads, and leaves enough for the rest
LEMMA DoingTyped ==
    ASSUME IInv, NEW what, Doing(what)
    PROVE  /\ Left(Tail(Top.todo), Len(Top.kids))
           /\ NodesRead(what) <= Len(Top.kids) /\ Len(Top.kids) \in Nat
           /\ \A k \in 1 .. Len(Top.kids) : Kid(k) \in 1 .. Len(tree)
           /\ Top.scope \in 1 .. Len(scopes) /\ Top.node \in 1 .. Len(tree)
<1>1. Top.todo # <<>> /\ Statement1.op = "do" /\ Statement1.arg = what
  BY DEF Doing, At
<1>2. Left(Tail(Top.todo), Len(Top.kids)) /\ NodesRead(what) <= Len(Top.kids)
  BY <1>1, NextStatement DEF IInv
<1>3. Top \in FrameSet /\ FrameOK(Top, Len(tree), Len(scopes), 0)
  BY TopOK DEF IInv
<1>4. Len(Top.kids) \in Nat
  BY <1>3 DEF FrameSet
<1> QED
  BY <1>2, <1>3, <1>4 DEF FrameOK, Kid

\* the innermost call is done with a statement
LEMMA DoneTyped ==
    ASSUME IInv, NEW what, Doing(what), With(Done), text' = text, at' = at, outcome' = outcome,
           Len(tree') \in Nat, Len(tree) <= Len(tree'), TreeOK(tree', scopes'),
           Keeps(scopes, scopes'), ScopesOK(scopes', Len(tree')),
           ModulesOK(moduleScopes', Len(scopes'))
    PROVE  IInv'
<1>1. Len(tree) \in Nat /\ Len(scopes) \in Nat
  BY Sizes
<1>2. Len(scopes') \in Nat /\ Len(scopes) <= Len(scopes')
  BY DEF Keeps
<1>3. Left(Tail(Top.todo), Len(Top.kids))
  BY DoingTyped
<1>4. stack' = <<[Top EXCEPT !.todo = Tail(Top.todo)]>> \o Tail(stack)
  BY DEF With, Done
<1>5. StackOK(stack', Len(tree'), Len(scopes'))
  BY <1>1, <1>2, <1>3, <1>4, GoesOn DEF IInv
<1> QED
  BY <1>5, StepTyped DEF IInv

\* the same, of one that changes the tree alone or the scopes alone
LEMMA OnTreeTyped ==
    ASSUME IInv, NEW what, Doing(what), With(Done), OnTree, Len(tree') = Len(tree),
           TreeOK(tree', scopes)
    PROVE  IInv'
<1>1. /\ text' = text /\ at' = at /\ outcome' = outcome
      /\ scopes' = scopes /\ moduleScopes' = moduleScopes
  BY DEF OnTree, tables
<1>2. Len(tree) \in Nat
  BY Sizes
<1>3. ScopesOK(scopes, Len(tree)) /\ Keeps(scopes, scopes)
  BY <1>2, ScopesGrow DEF IInv
<1> QED
  BY <1>1, <1>2, <1>3, DoneTyped DEF IInv

LEMMA OnScopesTyped ==
    ASSUME IInv, NEW what, Doing(what), With(Done), OnScopes,
           ScopesOK(scopes', Len(tree)), Keeps(scopes, scopes'), Len(scopes') = Len(scopes)
    PROVE  IInv'
<1>1. /\ text' = text /\ at' = at /\ outcome' = outcome /\ tree' = tree
      /\ moduleScopes' = moduleScopes
  BY DEF OnScopes
<1>2. Len(tree) \in Nat /\ Len(scopes) \in Nat
  BY Sizes
<1>3. TreeOK(tree, scopes')
  BY <1>2, TreeAmongMore DEF IInv, Keeps
<1> QED
  BY <1>1, <1>2, <1>3, DoneTyped DEF IInv

LEMMA OpenScopeTyped ==
    ASSUME IInv, OpenScope
    PROVE  IInv'
<1> DEFINE x == Scope(Top.scope)
           f == [Done EXCEPT !.scope = Len(scopes) + 1]
<1>1. /\ Doing("open scope") /\ scopes' = Append(scopes, x)
      /\ stack' = <<f>> \o Tail(stack)
      /\ text' = text /\ at' = at /\ tree' = tree /\ outcome' = outcome
      /\ moduleScopes' = moduleScopes
  BY DEF OpenScope, OnScopes, With
<1>2. /\ Len(tree) \in Nat /\ Len(scopes) \in Nat
      /\ scopes \in Seq(ScopeSet) /\ ScopesOK(scopes, Len(tree))
  BY Sizes DEF IInv
<1>3. Left(Tail(Top.todo), Len(Top.kids)) /\ Top.scope \in 1 .. Len(scopes)
  BY <1>1, DoingTyped
<1>4. x \in ScopeSet /\ x.parent = Top.scope /\ DOMAIN x.symbols = {}
  <2>1. "" \in Spelling
    BY DEF Spelling
  <2>2. <<>> \in [{} -> Nat] /\ {} \in SUBSET Spelling /\ DOMAIN <<>> = {}
    OBVIOUS
  <2>3. <<>> \in UNION {[R -> Nat] : R \in SUBSET Spelling}
    BY <2>2, Zenon
  <2>4. Top.scope \in Nat
    BY <1>3
  <2> QED BY <2>1, <2>2, <2>3, <2>4 DEF Scope, ScopeSet
<1> HIDE DEF x
<1>5. /\ scopes' \in Seq(ScopeSet) /\ Len(scopes') = Len(scopes) + 1
      /\ scopes'[Len(scopes) + 1] = x /\ \A s \in 1 .. Len(scopes) : scopes'[s] = scopes[s]
      /\ Len(scopes') \in Nat /\ Len(scopes) <= Len(scopes')
  <2>1. ASSUME NEW sc, sc = Append(scopes, x)
        PROVE  /\ sc \in Seq(ScopeSet) /\ Len(sc) = Len(scopes) + 1
               /\ sc[Len(scopes) + 1] = x /\ \A s \in 1 .. Len(scopes) : sc[s] = scopes[s]
               /\ Len(sc) \in Nat /\ Len(scopes) <= Len(sc)
    BY <1>2, <1>4, <2>1
  <2> QED BY <1>1, <2>1
<1>6. Keeps(scopes, scopes')
  BY <1>2, <1>5 DEF Keeps
<1>7. TreeOK(tree', scopes')
  BY <1>1, <1>2, <1>5, <1>6, TreeAmongMore DEF IInv, Keeps
<1>8. ScopesOK(scopes', Len(tree'))
  <2>1. ASSUME NEW s \in 1 .. Len(scopes')
        PROVE  scopes'[s].parent < s /\ \A name \in DOMAIN scopes'[s].symbols :
                                           scopes'[s].symbols[name] <= Len(tree)
    <3>1. CASE s = Len(scopes) + 1
      BY <1>2, <1>3, <1>4, <1>5, <3>1
    <3>2. CASE s # Len(scopes) + 1
      <4>1. s \in 1 .. Len(scopes)
        BY <1>2, <1>5, <3>2
      <4> QED BY <1>2, <1>5, <4>1 DEF ScopesOK
    <3> QED BY <3>1, <3>2
  <2>2. scopes' # <<>>
    BY <1>2, <1>5
  <2> QED BY <1>1, <1>5, <2>1, <2>2 DEF ScopesOK
<1>9. ModulesOK(moduleScopes', Len(scopes'))
  BY <1>1, <1>2, <1>5, ModulesGrow DEF IInv
<1>10. StackOK(stack', Len(tree'), Len(scopes'))
  <2> DEFINE g == [Top EXCEPT !.todo = Tail(Top.todo)]
  <2>1. g \in FrameSet /\ FrameOK(g, Len(tree), Len(scopes'), 0)
    <3>1. StackOK(stack, Len(tree), Len(scopes)) /\ Len(tree) <= Len(tree)
      BY <1>2 DEF IInv
    <3> QED BY <1>2, <1>3, <1>5, <3>1, GoesOn
  <2>2. f = [g EXCEPT !.scope = Len(scopes) + 1]
    BY DEF Done
  <2> HIDE DEF g, f
  <2>3. f \in FrameSet
    BY <1>2, <2>1, <2>2 DEF FrameSet
  <2>4. f.node = g.node /\ f.kids = g.kids /\ f.todo = g.todo /\ f.scope = Len(scopes) + 1
    BY <2>1, <2>2 DEF FrameSet
  <2>5. Len(scopes) + 1 \in 1 .. Len(scopes')
    BY <1>2, <1>5
  <2>6. FrameOK(f, Len(tree), Len(scopes'), 0)
    BY <2>1, <2>4, <2>5 DEF FrameOK
  <2>7. stack' = <<f>> \o Tail(stack) /\ tree' = tree
    BY <1>1
  <2> QED BY <1>2, <1>5, <2>3, <2>6, <2>7, TopReplaced DEF IInv
<1> QED
  BY <1>1, <1>7, <1>8, <1>9, <1>10, StepTyped DEF IInv

LEMMA CloseScopeTyped ==
    ASSUME IInv, CloseScope
    PROVE  IInv'
<1>1. /\ Doing("close scope") /\ scopes' = [scopes EXCEPT ![Top.scope].closed = TRUE]
      /\ With(Done) /\ OnScopes
  BY DEF CloseScope
<1>2. Len(tree) \in Nat /\ ScopesOK(scopes, Len(tree))
  BY Sizes DEF IInv
<1>3. ScopesOK(scopes', Len(tree)) /\ Keeps(scopes, scopes') /\ Len(scopes') = Len(scopes)
  BY <1>1, <1>2, ScopeClosed
<1> QED BY <1>1, <1>3, OnScopesTyped

\* a scope that is named, and a symbol that gets a type
LEMMA NamedAndTyped ==
    ASSUME IInv, NEW U \in Nat, Len(tree) <= U, NEW c, NEW word, c \in 1 .. Len(scopes) => word \in Spelling,
           NEW d, NEW name, NEW type \in 0 .. U
    PROVE  LET more == WithType(WithName(scopes, c, word), d, name, type)
           IN  ScopesOK(more, U) /\ Keeps(scopes, more) /\ Len(more) = Len(scopes)
<1> DEFINE named == WithName(scopes, c, word)
           more == WithType(named, d, name, type)
<1>1. Len(tree) \in Nat /\ Len(scopes) \in Nat /\ ScopesOK(scopes, Len(tree))
  BY Sizes DEF IInv
<1>2. ScopesOK(named, Len(tree)) /\ Keeps(scopes, named) /\ Len(named) = Len(scopes)
  BY <1>1, ScopeNamed
<1> HIDE DEF named
<1>3. ScopesOK(more, U) /\ Keeps(named, more) /\ Len(more) = Len(named)
  BY <1>1, <1>2, SymbolTyped
<1> HIDE DEF more
<1>4. Keeps(scopes, more)
  BY <1>1, <1>2, <1>3 DEF Keeps
<1> QED BY <1>2, <1>3, <1>4 DEF more, named

LEMMA AddModuleTyped ==
    ASSUME IInv, AddModule
    PROVE  IInv'
<1> DEFINE name == tree[Kid(1)].name
           more == WithType(WithName(scopes, Top.scope, name), tree[Kid(1)].symbol, name, Kid(8))
<1>1. /\ Doing("add module") /\ scopes' = more
      /\ moduleScopes' = Append(moduleScopes, Top.scope) /\ With(Done)
      /\ text' = text /\ at' = at /\ tree' = tree /\ outcome' = outcome
  BY DEF AddModule, WithType, WithName
<1>2. Len(tree) \in Nat /\ Len(scopes) \in Nat /\ tree \in Seq(Node)
  BY Sizes
<1>3. Kid(1) \in 1 .. Len(tree) /\ Kid(8) \in 0 .. Len(tree) /\ Top.scope \in 1 .. Len(scopes)
  <2>1. 8 <= Len(Top.kids) /\ Len(Top.kids) \in Nat
    BY <1>1, DoingTyped, Reads
  <2>2. 1 \in 1 .. Len(Top.kids) /\ 8 \in 1 .. Len(Top.kids)
    BY <2>1
  <2>3. \A k \in 1 .. Len(Top.kids) : Kid(k) \in 1 .. Len(tree)
    BY <1>1, DoingTyped
  <2>4. Kid(1) \in 1 .. Len(tree) /\ Kid(8) \in 1 .. Len(tree)
    BY <2>2, <2>3
  <2>5. Top.scope \in 1 .. Len(scopes)
    BY <1>1, DoingTyped
  <2> QED BY <1>2, <2>4, <2>5
<1>4. name \in Spelling
  <2>1. tree[Kid(1)] \in Node
    BY <1>2, <1>3
  <2> QED BY <2>1 DEF Node
<1>5. ScopesOK(more, Len(tree)) /\ Keeps(scopes, more) /\ Len(more) = Len(scopes)
  <2> HIDE DEF name
  <2> QED BY <1>2, <1>3, <1>4, NamedAndTyped
<1> HIDE DEF more
<1>6. TreeOK(tree, scopes')
  BY <1>1, <1>2, <1>5, TreeAmongMore DEF IInv, Keeps
<1>7. ModulesOK(moduleScopes', Len(scopes'))
  <2>1. moduleScopes \in Seq(1 .. Len(scopes)) /\ Len(scopes') = Len(scopes)
    BY <1>1, <1>5 DEF IInv, ModulesOK
  <2>2. Append(moduleScopes, Top.scope) \in Seq(1 .. Len(scopes))
    BY <1>3, <2>1
  <2> QED BY <1>1, <2>1, <2>2 DEF ModulesOK
<1>8. ScopesOK(scopes', Len(tree')) /\ Keeps(scopes, scopes') /\ TreeOK(tree', scopes')
      /\ Len(tree') \in Nat /\ Len(tree) <= Len(tree')
  <2>1. Len(tree') \in Nat /\ Len(tree) <= Len(tree')
    <3>1. tree' = tree
      BY <1>1
    <3> QED BY <1>2, <3>1
  <2> QED BY <1>1, <1>5, <1>6, <2>1, Zenon
<1> QED
  BY <1>1, <1>7, <1>8, DoneTyped

-----------------------------------------------------------------------------
(* Types of symbols.                                                       *)

LEMMA SetTypesTyped ==
    ASSUME IInv, NEW names, NEW type \in 0 .. Len(tree)
    PROVE  /\ ScopesOK(SetTypes(names, type), Len(tree)) /\ Keeps(scopes, SetTypes(names, type))
           /\ Len(SetTypes(names, type)) = Len(scopes)
<1> DEFINE New(s, name) == IF \E n \in names : tree[n].symbol = s /\ tree[n].name = name THEN type
                           ELSE scopes[s].symbols[name]
           types(s) == [name \in DOMAIN scopes[s].symbols |-> New(s, name)]
           more == SetTypes(names, type)
<1>1. Len(tree) \in Nat /\ scopes \in Seq(ScopeSet) /\ Len(scopes) \in Nat
  BY Sizes
<1>2. more = [s \in 1 .. Len(scopes) |-> [scopes[s] EXCEPT !.symbols = types(s)]]
  BY <1>1 DEF SetTypes
<1>3. ASSUME NEW s \in 1 .. Len(scopes)
      PROVE  /\ more[s] \in ScopeSet /\ more[s].parent = scopes[s].parent
             /\ DOMAIN more[s].symbols = DOMAIN scopes[s].symbols
             /\ \A name \in DOMAIN more[s].symbols :
                   \/ more[s].symbols[name] = scopes[s].symbols[name]
                   \/ more[s].symbols[name] <= Len(tree)
  <2>1. scopes[s] \in ScopeSet
    BY <1>1
  <2>2. PICK S \in SUBSET Spelling : scopes[s].symbols \in [S -> Nat]
    BY <2>1 DEF ScopeSet
  <2>3. \A name : New(s, name) = type \/ New(s, name) = scopes[s].symbols[name]
    OBVIOUS
  <2>4. type \in Nat /\ type <= Len(tree)
    BY <1>1
  <2> HIDE DEF New
  <2>5. types(s) \in [S -> Nat] /\ DOMAIN types(s) = DOMAIN scopes[s].symbols
    BY <2>2, <2>3, <2>4
  <2>6. types(s) \in UNION {[R -> Nat] : R \in SUBSET Spelling}
    BY <2>5, Zenon
  <2>7. \A name \in DOMAIN types(s) : types(s)[name] = scopes[s].symbols[name] \/ types(s)[name] <= Len(tree)
    BY <2>3, <2>4
  <2>8. more[s] = [scopes[s] EXCEPT !.symbols = types(s)]
    BY <1>2
  <2> HIDE DEF types
  <2>9. more[s] \in ScopeSet /\ more[s].symbols = types(s) /\ more[s].parent = scopes[s].parent
    BY <2>1, <2>6, <2>8 DEF ScopeSet
  <2> QED BY <2>5, <2>7, <2>9
<1>4. DOMAIN more = 1 .. Len(scopes) /\ more = [s \in 1 .. Len(scopes) |-> more[s]]
  BY <1>2
<1> HIDE DEF more
<1>5. more \in Seq(ScopeSet) /\ Len(more) = Len(scopes)
  BY <1>1, <1>3, <1>4
<1>6. ScopesOK(more, Len(tree)) /\ Keeps(scopes, more)
  <2>1. \A s \in 1 .. Len(scopes) :
           /\ more[s].parent = scopes[s].parent
           /\ DOMAIN scopes[s].symbols \subseteq DOMAIN more[s].symbols
           /\ \A name \in DOMAIN more[s].symbols :
                 \/ name \in DOMAIN scopes[s].symbols /\ more[s].symbols[name] = scopes[s].symbols[name]
                 \/ more[s].symbols[name] <= Len(tree)
    BY <1>3, Zenon
  <2>2. ScopesOK(scopes, Len(tree)) /\ Len(tree) <= Len(tree)
    BY <1>1 DEF IInv
  <2> QED BY <1>1, <1>5, <2>1, <2>2, ScopesChanged
<1> QED BY <1>5, <1>6 DEF more

LEMMA AssignTypesTyped ==
    ASSUME IInv, AssignTypes
    PROVE  IInv'
<1> DEFINE names == Declared(Kid(Len(Top.kids) - 2))
<1>1. Doing("assign types")
      /\ (GiveUp("fatal") \/ (scopes' = SetTypes(names, LastKid) /\ With(Done) /\ OnScopes))
  BY DEF AssignTypes
<1>2. CASE GiveUp("fatal")
  BY <1>2, StopTyped DEF Outcomes
<1>3. CASE scopes' = SetTypes(names, LastKid) /\ With(Done) /\ OnScopes
  <2>1. LastKid \in 0 .. Len(tree)
    <3>1. Len(Top.kids) >= 3 /\ Len(Top.kids) \in Nat
      BY <1>1, DoingTyped, Reads
    <3>2. Kid(Len(Top.kids)) \in 1 .. Len(tree)
      <4>1. \A k \in 1 .. Len(Top.kids) : Kid(k) \in 1 .. Len(tree)
        BY <1>1, DoingTyped
      <4> QED BY <3>1, <4>1
    <3>3. LastKid = Kid(Len(Top.kids))
      BY DEF Kid, LastKid
    <3> QED BY <3>2, <3>3, Sizes
  <2> HIDE DEF names
  <2> QED BY <1>1, <1>3, <2>1, SetTypesTyped, OnScopesTyped
<1> QED BY <1>1, <1>2, <1>3

\* a node that is changed
LEMMA NodeReplaced ==
    ASSUME IInv, NEW n, NEW x,
           n \in 1 .. Len(tree) =>
              /\ x \in Node
              /\ x.left = tree[n].left /\ x.right = tree[n].right
              /\ x.symbol # 0 => /\ x.symbol <= Len(scopes)
                                 /\ x.name \in DOMAIN scopes[x.symbol].symbols
    PROVE  TreeOK([tree EXCEPT ![n] = x], scopes) /\ Len([tree EXCEPT ![n] = x]) = Len(tree)
<1> DEFINE t == [tree EXCEPT ![n] = x]
<1>1. tree \in Seq(Node) /\ Len(tree) \in Nat \ {0} /\ TreeOK(tree, scopes)
  BY Sizes DEF IInv
<1>2. \A i \in 1 .. Len(tree) : t[i] = (IF i = n THEN x ELSE tree[i]) /\ tree[i] \in Node
  BY <1>1
<1>3. ASSUME NEW i \in 1 .. Len(tree) PROVE t[i] \in Node
  <2>1. CASE i = n
    <3>1. x \in Node
      BY <2>1
    <3> QED BY <1>2, <2>1, <3>1
  <2>2. CASE i # n
    BY <1>2, <2>2
  <2> QED BY <2>1, <2>2
<1>4. DOMAIN t = 1 .. Len(tree) /\ t = [i \in 1 .. Len(tree) |-> t[i]]
  BY <1>1
<1> HIDE DEF t
<1>5. t \in Seq(Node) /\ Len(t) = Len(tree)
  BY <1>1, <1>3, <1>4
<1>6. ASSUME NEW i \in 1 .. Len(t)
      PROVE  /\ t[i].left <= Len(t) /\ t[i].right <= Len(t)
             /\ t[i].symbol # 0 => /\ t[i].symbol <= Len(scopes)
                                   /\ t[i].name \in DOMAIN scopes[t[i].symbol].symbols
  <2>1. CASE i = n
    <3>1. t[i] = x /\ i \in 1 .. Len(tree) /\ Len(t) = Len(tree)
      BY <1>2, <1>5, <2>1
    <3>2. tree[i].left <= Len(tree) /\ tree[i].right <= Len(tree)
      BY <1>1, <3>1 DEF TreeOK
    <3>3. /\ x.left = tree[i].left /\ x.right = tree[i].right
          /\ x.symbol # 0 => x.symbol <= Len(scopes) /\ x.name \in DOMAIN scopes[x.symbol].symbols
      BY <2>1, <3>1
    <3> QED BY <3>1, <3>2, <3>3, Zenon
  <2>2. CASE i # n
    <3>1. t[i] = tree[i] /\ i \in 1 .. Len(tree) /\ Len(t) = Len(tree)
      BY <1>2, <1>5, <2>2
    <3> QED BY <1>1, <3>1 DEF TreeOK
  <2> QED BY <2>1, <2>2
<1>7. t # <<>>
  BY <1>1, <1>5
<1> QED BY <1>5, <1>6, <1>7 DEF TreeOK, t

LEMMA SymbolOfTypeTyped ==
    ASSUME IInv, SymbolOfType
    PROVE  IInv'
<1> DEFINE x == [tree[Top.node] EXCEPT !.symbol = tree[LastKid].symbol, !.name = tree[LastKid].name]
<1>1. /\ Doing("symbol of type") /\ With(Done) /\ OnTree
      /\ tree' = [tree EXCEPT ![Top.node].symbol = tree[LastKid].symbol,
                              ![Top.node].name = tree[LastKid].name]
  BY DEF SymbolOfType
<1>2. tree' = [tree EXCEPT ![Top.node] = x]
  <2>1. ASSUME NEW a, NEW b, NEW n
        PROVE  [tree EXCEPT ![n].symbol = a, ![n].name = b]
               = [tree EXCEPT ![n] = [tree[n] EXCEPT !.symbol = a, !.name = b]]
    OBVIOUS
  <2> QED BY <1>1, <2>1, Zenon
<1>3. LastKid \in 1 .. Len(tree) /\ Top.node \in 1 .. Len(tree)
  <2>1. Len(Top.kids) >= 1 /\ Len(Top.kids) \in Nat
    BY <1>1, DoingTyped, Reads
  <2>2. Kid(Len(Top.kids)) \in 1 .. Len(tree)
    <3>1. \A k \in 1 .. Len(Top.kids) : Kid(k) \in 1 .. Len(tree)
      BY <1>1, DoingTyped
    <3> QED BY <2>1, <3>1
  <2>3. LastKid = Kid(Len(Top.kids))
    BY DEF Kid, LastKid
  <2> QED BY <1>1, <2>2, <2>3, DoingTyped
<1>4. tree[Top.node] \in Node /\ tree[LastKid] \in Node
  BY <1>3, Sizes
<1>5. x \in Node /\ x.left = tree[Top.node].left /\ x.right = tree[Top.node].right
      /\ x.symbol = tree[LastKid].symbol /\ x.name = tree[LastKid].name
  BY <1>4 DEF Node
<1> HIDE DEF x
<1>6. x.symbol # 0 => x.symbol <= Len(scopes) /\ x.name \in DOMAIN scopes[x.symbol].symbols
  BY <1>3, <1>5 DEF IInv, TreeOK
<1>7. TreeOK(tree', scopes) /\ Len(tree') = Len(tree)
  BY <1>2, <1>5, <1>6, NodeReplaced
<1> QED BY <1>1, <1>7, OnTreeTyped

LEMMA Nodes ==
    ASSUME IInv
    PROVE  \A i \in 1 .. Len(tree) : tree[i] \in Node
BY Sizes

LEMMA RetypeTyped ==
    ASSUME IInv, Retype
    PROVE  IInv'
<1>1. PICK what \in {"accuracyTolerance", "initList", "tuple value"} : Doing(what)
  BY DEF Retype
<1>2. /\ With(Done) /\ OnTree
      /\ tree' = IF Statement1.arg = "tuple value" THEN [tree EXCEPT ![LastKid].type = "tupleValue"]
                 ELSE [tree EXCEPT ![Top.node].type = Statement1.arg]
  BY DEF Retype
<1>3. PICK n : \E type \in Spelling : tree' = [tree EXCEPT ![n].type = type]
  <2>1. Statement1.arg = what
    BY <1>1 DEF Doing
  <2>2. CASE what = "tuple value"
    <3>1. "tupleValue" \in Spelling
      BY DEF Spelling
    <3>2. tree' = [tree EXCEPT ![LastKid].type = "tupleValue"]
      BY <1>2, <2>1, <2>2
    <3> QED BY <3>1, <3>2, Zenon
  <2>3. CASE what # "tuple value"
    <3>1. what \in Spelling
      BY <1>1, <2>3 DEF Spelling
    <3>2. tree' = [tree EXCEPT ![Top.node].type = what]
      BY <1>2, <2>1, <2>3
    <3> QED BY <3>1, <3>2, Zenon
  <2> QED BY <2>2, <2>3
<1>4. PICK type \in Spelling : tree' = [tree EXCEPT ![n].type = type]
  BY <1>3
<1> DEFINE x == [tree[n] EXCEPT !.type = type]
<1>5. ASSUME n \in 1 .. Len(tree)
      PROVE  /\ x \in Node
             /\ x.left = tree[n].left /\ x.right = tree[n].right
             /\ x.symbol # 0 => /\ x.symbol <= Len(scopes)
                                /\ x.name \in DOMAIN scopes[x.symbol].symbols
  <2>1. tree[n] \in Node
    <3>1. n \in 1 .. Len(tree)
      BY <1>5
    <3>2. \A i \in 1 .. Len(tree) : tree[i] \in Node
      BY Nodes
    <3> QED BY <3>1, <3>2, Zenon
  <2>2. x \in Node /\ x.left = tree[n].left /\ x.right = tree[n].right
        /\ x.symbol = tree[n].symbol /\ x.name = tree[n].name
    BY <2>1 DEF Node
  <2> HIDE DEF x
  <2> QED BY <1>5, <2>2 DEF IInv, TreeOK
<1>6. tree' = [tree EXCEPT ![n] = x]
  BY <1>4
<1> HIDE DEF x
<1>7. TreeOK(tree', scopes) /\ Len(tree') = Len(tree)
  BY <1>5, <1>6, NodeReplaced
<1> QED BY <1>1, <1>2, <1>7, OnTreeTyped


LEMMA ScanTyped ==
    ASSUME IInv, Scan
    PROVE  IInv'
<1> DEFINE definition ==
             \E c \in {i \in at .. Len(text) : text[i].type \in {"colon", "colonAssign"}} :
                \A i \in {j \in at .. Len(text) : text[j].type \in AssignmentsScanned} : c <= i + 1
           count == IF definition THEN 1 ELSE 0
           f == [Done EXCEPT !.count = count]
<1>1. Doing("scan") /\ (GiveUp("fatal") \/ (With(f) /\ UNCHANGED tree /\ OnTree))
  BY DEF Scan
<1>2. CASE GiveUp("fatal")
  BY <1>2, StopTyped DEF Outcomes
<1>3. CASE With(f) /\ UNCHANGED tree /\ OnTree
  <2>1. count \in {0, 1}
    OBVIOUS
  <2> HIDE DEF definition, count
  <2>2. Len(tree) \in Nat /\ Len(scopes) \in Nat /\ StackOK(stack, Len(tree), Len(scopes))
    BY Sizes DEF IInv
  <2>3. Left(Tail(Top.todo), Len(Top.kids))
    BY <1>1, DoingTyped
  <2> DEFINE g == [Top EXCEPT !.todo = Tail(Top.todo)]
  <2>4. g \in FrameSet /\ FrameOK(g, Len(tree), Len(scopes), 0)
    <3>1. Len(tree) <= Len(tree) /\ Len(scopes) <= Len(scopes)
      BY <2>2
    <3> QED BY <2>2, <2>3, <3>1, GoesOn
  <2>5. f = [g EXCEPT !.count = count]
    BY DEF Done
  <2> HIDE DEF f, g
  <2>6. f \in FrameSet
    BY <2>1, <2>4, <2>5 DEF FrameSet
  <2>7. f.node = g.node /\ f.kids = g.kids /\ f.todo = g.todo /\ f.scope = g.scope
    BY <2>4, <2>5 DEF FrameSet
  <2>8. FrameOK(f, Len(tree), Len(scopes), 0)
    BY <2>4, <2>7 DEF FrameOK
  <2>9. StackOK(<<f>> \o Tail(stack), Len(tree), Len(scopes))
    BY <2>2, <2>6, <2>8, TopReplaced
  <2> QED BY <1>3, <2>9 DEF With, OnTree, tables, IInv
<1> QED BY <1>1, <1>2, <1>3

-----------------------------------------------------------------------------
(* Signatures.                                                             *)

Answers == {"yes", "no", "null", "semantic error", "endless"}

LEMMA MatchAnswers ==
    ASSUME NEW m, NEW n
    PROVE  MatchTypeExpr(m, n) \subseteq Answers
<1> DEFINE a == TypeOf(m)
           b == TypeOf(n)
<1>1. ASSUME NEW c \in NoAnswer PROVE c[1] \in Answers
  <2>1. c = <<"null">> \/ c = <<"semantic error">> \/ c = <<"endless">>
    BY DEF NoAnswer
  <2>2. c[1] = "null" \/ c[1] = "semantic error" \/ c[1] = "endless"
    <3>1. ASSUME NEW x PROVE <<x>>[1] = x
      OBVIOUS
    <3> QED BY <2>1, <3>1, Zenon
  <2> QED BY <2>2 DEF Answers
<1>2. Equal(a, b) \subseteq Answers
  BY DEF Equal, Answers
<1> HIDE DEF a, b
<1>3. CASE a \in NoAnswer
  BY <1>1, <1>3 DEF MatchTypeExpr, a, b
<1>4. CASE a \notin NoAnswer /\ b \in NoAnswer
  BY <1>1, <1>4 DEF MatchTypeExpr, a, b
<1>5. CASE a \notin NoAnswer /\ b \notin NoAnswer
  BY <1>2, <1>5 DEF MatchTypeExpr, a, b
<1> QED BY <1>3, <1>4, <1>5

LEMMA SignatureAnswers ==
    ASSUME NEW d, NEW e
    PROVE  SignatureIsMatching(d, e) \subseteq Answers
<1> DEFINE defined == Children(tree, d)
           declared == IF e <= 0 THEN <<>> ELSE Children(tree, e)
           Type(i) == IF i > Len(declared) THEN Null ELSE declared[i]
           Turn(i) ==
              CASE i > Len(defined) -> {IF i > Len(declared) THEN "yes" ELSE "no"}
                [] i <= Len(defined) /\ i > Len(declared) -> {"no"}
                [] OTHER ->
                    IF tree[declared[i]].type # "identifier" THEN {"null"}
                    ELSE IF tree[defined[i]].name # tree[declared[i]].name THEN {"no"}
                    ELSE AndThen(MatchTypeExpr(defined[i + 1], Type(i + 1)), {"next"})
           taken == {k \in 0 .. Len(defined) : \A j \in 0 .. k - 1 : "next" \in Turn(2 * j + 1)}
<1>1. ASSUME NEW i PROVE Turn(i) \subseteq Answers \cup {"next"}
  <2> DEFINE match == MatchTypeExpr(defined[i + 1], Type(i + 1))
  <2>1. match \subseteq Answers
    BY MatchAnswers
  <2> HIDE DEF match
  <2>2. AndThen(match, {"next"}) \subseteq Answers \cup {"next"}
    BY <2>1 DEF AndThen
  <2>3. CASE i > Len(defined)
    BY <2>3 DEF Answers
  <2>4. CASE ~ (i > Len(defined)) /\ (i <= Len(defined) /\ i > Len(declared))
    BY <2>4 DEF Answers
  <2>5. CASE ~ (i > Len(defined)) /\ ~ (i <= Len(defined) /\ i > Len(declared))
    <3>1. Turn(i) = IF tree[declared[i]].type # "identifier" THEN {"null"}
                    ELSE IF tree[defined[i]].name # tree[declared[i]].name THEN {"no"}
                    ELSE AndThen(match, {"next"})
      BY <2>5 DEF match
    <3> HIDE DEF Turn, declared, defined
    <3> QED BY <2>2, <3>1 DEF Answers
  <2> QED BY <2>3, <2>4, <2>5
<1>2. ASSUME NEW x \in SignatureIsMatching(d, e)
      PROVE  x \in {"null", "yes", "no"} \/ (x # "next" /\ \E k \in taken : x \in Turn(2 * k + 1))
  <2> HIDE DEF Turn
  <2>1. \/ SignatureIsMatching(d, e) = {"null"}
        \/ SignatureIsMatching(d, e) = {"yes"}
        \/ SignatureIsMatching(d, e) = {"no"}
        \/ SignatureIsMatching(d, e) = (UNION {Turn(2 * k + 1) : k \in taken}) \ {"next"}
    BY DEF SignatureIsMatching, Turn
  <2> HIDE DEF taken
  <2>2. CASE \/ SignatureIsMatching(d, e) = {"null"}
             \/ SignatureIsMatching(d, e) = {"yes"}
             \/ SignatureIsMatching(d, e) = {"no"}
    BY <2>2
  <2>3. CASE SignatureIsMatching(d, e) = (UNION {Turn(2 * k + 1) : k \in taken}) \ {"next"}
    <3>1. x \in UNION {Turn(2 * k + 1) : k \in taken} /\ x # "next"
      BY <2>3, Zenon
    <3>2. \E k \in taken : x \in Turn(2 * k + 1)
      BY <3>1, Zenon
    <3> QED BY <3>1, <3>2
  <2> QED BY <2>1, <2>2, <2>3
<1> HIDE DEF Turn, taken
<1>3. \A k \in taken : Turn(2 * k + 1) \subseteq Answers \cup {"next"}
  BY <1>1, Zenon
<1> QED BY <1>2, <1>3 DEF Answers

\* the types that a definition sets, where the tree has grown
LEMMA TypeTreeSet ==
    ASSUME IInv, NEW node \in 1 .. Len(tree), NEW U \in Nat, Len(tree) <= U, NEW type \in 0 .. U,
           Top.scope \in 1 .. Len(scopes), SetsTypeTree(node, type)
    PROVE  ScopesOK(scopes', U) /\ Keeps(scopes, scopes') /\ Len(scopes') = Len(scopes)
<1> DEFINE word == IF Top.procedure = "functionDefn" THEN tree[node].name
                   ELSE scopes[Top.scope].identifier
           more == WithType(WithName(scopes, Top.scope, word), tree[node].symbol, tree[node].name, type)
<1>1. scopes' = more
  BY DEF SetsTypeTree, WithType, WithName
<1>2. tree[node] \in Node /\ scopes[Top.scope] \in ScopeSet
  BY Sizes
<1>3. word \in Spelling
  BY <1>2 DEF Node, ScopeSet
<1> HIDE DEF word
<1>4. ScopesOK(more, U) /\ Keeps(scopes, more) /\ Len(more) = Len(scopes)
  BY <1>3, NamedAndTyped
<1> QED BY <1>1, <1>4

LEMMA NodeOfType == NewNode("", "", <<0, 1>>) \in Node
BY DEF NewNode, Node, Spelling

Linked(x, l, r) == [x EXCEPT !.left = l, !.right = r]

LEMMA NodeLinked ==
    ASSUME NEW x \in Node, NEW l \in Nat, NEW r \in Nat
    PROVE  /\ Linked(x, l, r) \in Node
           /\ Linked(x, l, r).left = l
           /\ Linked(x, l, r).right = r
           /\ Linked(x, l, r).symbol = x.symbol
<1> USE DEF Linked
<1> DEFINE y == [x EXCEPT !.left = l, !.right = r]
<1>1. y \in Node
  BY DEF Node
<1>2. y.left = l /\ y.right = r /\ y.symbol = x.symbol
  BY DEF Node
<1> QED BY <1>1, <1>2

LEMMA TypeLinked ==
    ASSUME NEW l \in Nat, NEW r \in Nat
    PROVE  /\ Linked(NewNode("", "", <<0, 1>>), l, r) \in Node
           /\ Linked(NewNode("", "", <<0, 1>>), l, r).left = l
           /\ Linked(NewNode("", "", <<0, 1>>), l, r).right = r
           /\ Linked(NewNode("", "", <<0, 1>>), l, r).symbol = 0
<1>1. PICK plain \in Node : plain = NewNode("", "", <<0, 1>>)
  BY NodeOfType
<1>2. plain.symbol = 0
  BY <1>1 DEF NewNode
<1>3. Linked(plain, l, r) \in Node
  BY NodeLinked
<1>4. Linked(plain, l, r).left = l
  BY NodeLinked
<1>5. Linked(plain, l, r).right = r
  BY NodeLinked
<1>6. Linked(plain, l, r).symbol = plain.symbol
  BY NodeLinked
<1> QED BY <1>1, <1>2, <1>3, <1>4, <1>5, <1>6, Zenon

LEMMA ThreeAppended ==
    ASSUME NEW t \in Seq(Node), NEW a \in Node, NEW b \in Node, NEW c \in Node
    PROVE  t \o <<a, b, c>> = Append(Append(Append(t, a), b), c)
<1> DEFINE x == t \o <<a, b, c>>
           z == Append(Append(Append(t, a), b), c)
<1>1. /\ x \in Seq(Node) /\ z \in Seq(Node) /\ Len(x) = Len(t) + 3 /\ Len(z) = Len(t) + 3
  OBVIOUS
<1>2. \A i \in 1 .. Len(t) + 3 : x[i] = z[i]
  OBVIOUS
<1> HIDE DEF x, z
<1> QED BY <1>1, <1>2

LEMMA TwoAppended ==
    ASSUME NEW t \in Seq(Node), NEW a \in Node, NEW b \in Node
    PROVE  t \o <<a, b>> = Append(Append(t, a), b)
<1> DEFINE x == t \o <<a, b>>
           z == Append(Append(t, a), b)
<1>1. /\ x \in Seq(Node) /\ z \in Seq(Node) /\ Len(x) = Len(t) + 2 /\ Len(z) = Len(t) + 2
  OBVIOUS
<1>2. \A i \in 1 .. Len(t) + 2 : x[i] = z[i]
  OBVIOUS
<1> HIDE DEF x, z
<1> QED BY <1>1, <1>2

\* the children and the symbols of the nodes there are
LEMMA ChildrenThere ==
    ASSUME IInv
    PROVE  \A n \in 1 .. Len(tree) :
              /\ tree[n].left <= Len(tree) /\ tree[n].right <= Len(tree)
              /\ tree[n].left \in Nat /\ tree[n].right \in Nat
              /\ tree[n].symbol # 0 => /\ tree[n].symbol <= Len(scopes)
                                       /\ tree[n].name \in DOMAIN scopes[tree[n].symbol].symbols
<1> SUFFICES ASSUME NEW n \in 1 .. Len(tree)
             PROVE  /\ tree[n].left <= Len(tree) /\ tree[n].right <= Len(tree)
                    /\ tree[n].left \in Nat /\ tree[n].right \in Nat
                    /\ tree[n].symbol # 0 => /\ tree[n].symbol <= Len(scopes)
                                             /\ tree[n].name \in DOMAIN scopes[tree[n].symbol].symbols
  OBVIOUS
<1>1. tree[n] \in Node
  BY Nodes
<1>2. tree[n].left \in Nat /\ tree[n].right \in Nat
  BY <1>1 DEF Node
<1> QED BY <1>2 DEF IInv, TreeOK

LEMMA FunctionTypesTyped ==
    ASSUME IInv, FunctionTypes
    PROVE  IInv'
<1> DEFINE name == Kid(1)
           parameters == Kid(4)
           results == Kid(6)
           before == TypeTree(name)
           type == [NewNode("", "", <<0, 1>>) EXCEPT !.left = Len(tree) + 1, !.right = Len(tree) + 2]
           answers == IF before = 0 THEN {"yes"}
                      ELSE AndThen(SignatureIsMatching(parameters, Down(before, <<"L", "L">>)),
                                   SignatureIsMatching(results, Down(before, <<"R", "L">>)))
<1>1. answers \subseteq Answers
  <2> DEFINE one == SignatureIsMatching(parameters, Down(before, <<"L", "L">>))
             two == SignatureIsMatching(results, Down(before, <<"R", "L">>))
  <2>1. one \subseteq Answers /\ two \subseteq Answers
    BY SignatureAnswers
  <2> HIDE DEF one, two
  <2>2. AndThen(one, two) \subseteq Answers
    BY <2>1 DEF AndThen
  <2> QED BY <2>2 DEF one, two, Answers
<1>2. Doing("function types")
      /\ \E answer \in answers :
              IF answer = "yes"
              THEN /\ tree' = tree \o <<tree[parameters], tree[results], type>>
                   /\ SetsTypeTree(name, Len(tree) + 3)
                   /\ With(Done)
                   /\ UNCHANGED <<text, at, outcome, moduleScopes>>
              ELSE GiveUp(IF answer = "no" THEN "semantic error" ELSE answer)
  BY DEF FunctionTypes
<1> HIDE DEF answers
<1>3. CASE \E answer \in answers : GiveUp(IF answer = "no" THEN "semantic error" ELSE answer) /\ answer # "yes"
  <2>1. PICK answer \in answers : GiveUp(IF answer = "no" THEN "semantic error" ELSE answer) /\ answer # "yes"
    BY <1>3
  <2>2. (IF answer = "no" THEN "semantic error" ELSE answer) \in Outcomes
    BY <1>1, <2>1 DEF Answers, Outcomes
  <2> QED BY <2>1, <2>2, StopTyped
<1>4. CASE /\ tree' = tree \o <<tree[parameters], tree[results], type>>
           /\ SetsTypeTree(name, Len(tree) + 3)
           /\ With(Done)
           /\ UNCHANGED <<text, at, outcome, moduleScopes>>
  <2> HIDE DEF type
  <2>1. Len(tree) \in Nat /\ Len(scopes) \in Nat /\ TreeOK(tree, scopes) /\ tree \in Seq(Node)
    BY Sizes DEF IInv
  <2>2. name \in 1 .. Len(tree) /\ parameters \in 1 .. Len(tree) /\ results \in 1 .. Len(tree)
    <3>1. 6 <= Len(Top.kids) /\ Len(Top.kids) \in Nat
      BY <1>2, DoingTyped, Reads
    <3>2. \A k \in 1 .. Len(Top.kids) : Kid(k) \in 1 .. Len(tree)
      BY <1>2, DoingTyped
    <3>3. 1 \in 1 .. Len(Top.kids) /\ 4 \in 1 .. Len(Top.kids) /\ 6 \in 1 .. Len(Top.kids)
      BY <3>1
    <3> QED BY <3>2, <3>3
  <2> HIDE DEF name, parameters, results
  <2> DEFINE one == Append(tree, tree[parameters])
             two == Append(one, tree[results])
             three == Append(two, type)
  <2>3. tree[parameters] \in Node /\ tree[results] \in Node
    BY <2>1, <2>2
  <2>4. tree' = three
    BY <1>4, <2>1, ThreeAppended
  <2>5. Len(three) = Len(tree) + 3 /\ Len(two) = Len(tree) + 2 /\ Len(one) = Len(tree) + 1
    BY <2>1
  <2>6. type \in Node /\ type.left = Len(tree) + 1 /\ type.right = Len(tree) + 2 /\ type.symbol = 0
    <3>1. PICK l \in Nat, r \in Nat : l = Len(tree) + 1 /\ r = Len(tree) + 2
      BY <2>1
    <3>2. type = Linked(NewNode("", "", <<0, 1>>), l, r)
      BY <3>1 DEF type, Linked
    <3>3. PICK linked : linked = Linked(NewNode("", "", <<0, 1>>), l, r)
      OBVIOUS
    <3>4. linked \in Node /\ linked.left = l /\ linked.right = r /\ linked.symbol = 0
      BY <3>3, TypeLinked
    <3> QED BY <3>1, <3>2, <3>3, <3>4
  <2>7. /\ ScopesOK(scopes', Len(tree')) /\ Keeps(scopes, scopes') /\ Len(scopes') = Len(scopes)
    <3>1. Len(tree) + 3 \in Nat /\ Len(tree) <= Len(tree) + 3 /\ Len(tree) + 3 \in 0 .. Len(tree) + 3
      BY <2>1
    <3>2. Top.scope \in 1 .. Len(scopes)
      BY <1>2, DoingTyped
    <3>3. Len(tree') = Len(tree) + 3
      BY <2>4, <2>5
    <3> QED BY <1>4, <2>2, <3>1, <3>2, <3>3, TypeTreeSet
  <2>8. TreeOK(tree, scopes') /\ Len(scopes') \in Nat
    BY <2>1, <2>7, TreeAmongMore DEF Keeps
  <2>9. \A n \in 1 .. Len(tree) :
           /\ tree[n] \in Node /\ tree[n].left <= Len(tree) /\ tree[n].right <= Len(tree)
           /\ tree[n].left \in Nat /\ tree[n].right \in Nat
           /\ tree[n].symbol # 0 => /\ tree[n].symbol <= Len(scopes')
                                    /\ tree[n].name \in DOMAIN scopes'[tree[n].symbol].symbols
    <3> SUFFICES ASSUME NEW n \in 1 .. Len(tree)
                 PROVE  /\ tree[n] \in Node /\ tree[n].left <= Len(tree) /\ tree[n].right <= Len(tree)
                        /\ tree[n].left \in Nat /\ tree[n].right \in Nat
                        /\ tree[n].symbol # 0 => /\ tree[n].symbol <= Len(scopes')
                                                 /\ tree[n].name \in DOMAIN scopes'[tree[n].symbol].symbols
      OBVIOUS
    <3>1. tree[n] \in Node
      BY Nodes
    <3>2. tree[n].left \in Nat /\ tree[n].right \in Nat
      BY <3>1 DEF Node
    <3> QED BY <2>8, <3>1, <3>2 DEF TreeOK
  <2>10. TreeOK(one, scopes')
    <3>1. tree[parameters].left <= Len(tree) + 1 /\ tree[parameters].right <= Len(tree) + 1
      BY <2>1, <2>2, <2>9
    <3> QED BY <2>2, <2>3, <2>8, <2>9, <3>1, TreeAppended
  <2>11. TreeOK(two, scopes')
    <3>1. tree[results].left <= Len(one) + 1 /\ tree[results].right <= Len(one) + 1
      BY <2>1, <2>2, <2>5, <2>9
    <3> HIDE DEF one
    <3> QED BY <2>2, <2>3, <2>8, <2>9, <2>10, <3>1, TreeAppended
  <2>12. TreeOK(three, scopes')
    <3>1. type.left <= Len(two) + 1 /\ type.right <= Len(two) + 1
      BY <2>1, <2>5, <2>6
    <3> HIDE DEF two
    <3> QED BY <2>6, <2>8, <2>11, <3>1, TreeAppended
  <2>13. TreeOK(tree', scopes') /\ Len(tree') \in Nat /\ Len(tree) <= Len(tree')
    BY <2>1, <2>4, <2>5, <2>12
  <2>14. text' = text /\ at' = at /\ outcome' = outcome /\ ModulesOK(moduleScopes', Len(scopes'))
    BY <1>4, <2>7 DEF IInv
  <2> QED BY <1>2, <1>4, <2>7, <2>13, <2>14, DoneTyped
<1> QED BY <1>2, <1>3, <1>4

LEMMA CopiedTypesTyped ==
    ASSUME IInv, CopiedTypes
    PROVE  IInv'
<1> DEFINE name == Kid(1)
           parameters == Kid(4)
           results == Kid(6)
           copy == Len(tree) + 1
           one == Append(tree, tree[parameters])
           two == Append(one, tree[results])
<1>1. /\ Doing("copied types")
      /\ tree' = Attach(tree \o <<tree[parameters], tree[results]>>, copy, copy + 1, "leaf")
      /\ SetsTypeTree(name, copy) /\ With(Done)
      /\ text' = text /\ at' = at /\ outcome' = outcome /\ moduleScopes' = moduleScopes
  BY DEF CopiedTypes
<1>2. Len(tree) \in Nat /\ Len(scopes) \in Nat /\ TreeOK(tree, scopes) /\ tree \in Seq(Node)
  BY Sizes DEF IInv
<1>3. name \in 1 .. Len(tree) /\ parameters \in 1 .. Len(tree) /\ results \in 1 .. Len(tree)
  <2>1. 6 <= Len(Top.kids) /\ Len(Top.kids) \in Nat
    BY <1>1, DoingTyped, Reads
  <2>2. \A k \in 1 .. Len(Top.kids) : Kid(k) \in 1 .. Len(tree)
    BY <1>1, DoingTyped
  <2>3. 1 \in 1 .. Len(Top.kids) /\ 4 \in 1 .. Len(Top.kids) /\ 6 \in 1 .. Len(Top.kids)
    BY <2>1
  <2> QED BY <2>2, <2>3
<1> HIDE DEF name, parameters, results
<1>4. tree[parameters] \in Node /\ tree[results] \in Node
  BY <1>3, Nodes
<1>5. tree' = Attach(two, copy, copy + 1, "leaf") /\ Len(two) = Len(tree) + 2 /\ Len(one) = Len(tree) + 1
  <2>1. tree \o <<tree[parameters], tree[results]>> = two
    BY <1>2, <1>4, TwoAppended
  <2>2. Len(two) = Len(tree) + 2 /\ Len(one) = Len(tree) + 1
    BY <1>2
  <2> QED BY <1>1, <2>1, <2>2, Zenon
<1>6. \A n \in 1 .. Len(tree) :
         /\ tree[n].left <= Len(tree) /\ tree[n].right <= Len(tree)
         /\ tree[n].left \in Nat /\ tree[n].right \in Nat
         /\ tree[n].symbol # 0 => /\ tree[n].symbol <= Len(scopes)
                                  /\ tree[n].name \in DOMAIN scopes[tree[n].symbol].symbols
  BY <1>2, ChildrenThere
<1>7. TreeOK(one, scopes)
  <2>1. tree[parameters].left <= Len(tree) + 1 /\ tree[parameters].right <= Len(tree) + 1
    BY <1>2, <1>3, <1>6
  <2> QED BY <1>2, <1>3, <1>4, <1>6, <2>1, TreeAppended
<1>8. TreeOK(two, scopes)
  <2>1. tree[results].left <= Len(one) + 1 /\ tree[results].right <= Len(one) + 1
    BY <1>2, <1>3, <1>5, <1>6
  <2> HIDE DEF one
  <2> QED BY <1>2, <1>3, <1>4, <1>6, <1>7, <2>1, TreeAppended
<1> HIDE DEF two
<1>9. copy \in Nat /\ copy + 1 \in 1 .. Len(two) /\ Len(two) \in Nat
  BY <1>2, <1>5
<1>10. TreeOK(tree', scopes) /\ Len(tree') \in Nat /\ Len(tree') >= Len(two)
  BY <1>5, <1>8, <1>9, TreeAttached
<1>11. Len(tree) <= Len(tree') /\ copy \in 0 .. Len(tree')
  BY <1>2, <1>5, <1>10
<1>12. /\ ScopesOK(scopes', Len(tree')) /\ Keeps(scopes, scopes') /\ Len(scopes') = Len(scopes)
  <2>1. Top.scope \in 1 .. Len(scopes)
    BY <1>1, DoingTyped
  <2> QED BY <1>1, <1>3, <1>10, <1>11, <2>1, TypeTreeSet
<1>13. TreeOK(tree', scopes')
  BY <1>2, <1>10, <1>12, TreeAmongMore DEF Keeps
<1>14. ModulesOK(moduleScopes', Len(scopes'))
  BY <1>1, <1>12 DEF IInv
<1> QED BY <1>1, <1>10, <1>11, <1>12, <1>13, <1>14, DoneTyped

-----------------------------------------------------------------------------
(* The theorem.                                                            *)

LEMMA StopsTyped ==
    ASSUME IInv, WrongFollow \/ ((SyntaxError \/ FatalPeek) /\ KeepsTables) \/ NoName \/ Fatal \/ Accept
    PROVE  IInv'
<1>1. \/ GiveUp("syntax error") \/ GiveUp("fatal") \/ GiveUp("null") \/ GiveUp("accepted")
  BY DEF WrongFollow, SyntaxError, FatalPeek, NoName, Fatal, Accept, GiveUp
<1> QED BY <1>1, StopTyped DEF Outcomes

LEMMA InitTyped == Init => IInv
<1> SUFFICES ASSUME Init PROVE IInv
  OBVIOUS
<1> DEFINE x == NewNode("program", "", <<0, 1>>)
           f == Frame("program", 1, 1, "drop")
           s == Scope(0)
<1>1. text \in Texts /\ at = 1 /\ tree = <<x>> /\ stack = <<f>> /\ outcome = "running"
      /\ scopes = <<s>> /\ moduleScopes = <<>>
  BY DEF Init
<1>2. at \in 1 .. Len(text)
  <2> DEFINE Tokens == [type : STRING, name : STRING, value : Int \X Int]
  <2>1. text # <<>> /\ text \in Seq(Tokens)
    BY <1>1, TextsAssumption
  <2> HIDE DEF Tokens
  <2>2. Len(text) \in Nat /\ Len(text) # 0
    BY <2>1
  <2>3. at = 1
    BY <1>1
  <2> QED BY <2>2, <2>3, SMT
<1>3. outcome \in Outcomes
  BY <1>1 DEF Outcomes
<1>4. x \in Node /\ x.left = 0 /\ x.right = 0 /\ x.symbol = 0
  <2>1. "program" \in Spelling
    BY DEF Spelling
  <2>2. x \in Node
    BY <2>1, NodeOfCall
  <2> QED BY <2>2 DEF NewNode
<1>5. f \in FrameSet /\ FrameOK(f, 1, 1, 0)
  <2>1. "program" \in DOMAIN Procedures
    BY ProceduresAssumption, Zenon DEF ReadsAreSet
  <2> QED BY <2>1, Starts
<1>6. s \in ScopeSet /\ s.parent = 0 /\ DOMAIN s.symbols = {}
  <2>1. "" \in Spelling
    BY DEF Spelling
  <2>2. <<>> \in [{} -> Nat] /\ {} \in SUBSET Spelling /\ DOMAIN <<>> = {}
    OBVIOUS
  <2>3. <<>> \in UNION {[R -> Nat] : R \in SUBSET Spelling}
    BY <2>2, Zenon
  <2> QED BY <2>1, <2>2, <2>3 DEF Scope, ScopeSet
<1> HIDE DEF x, f, s
<1>7. Len(tree) = 1 /\ Len(stack) = 1 /\ Len(scopes) = 1
      /\ tree[1] = x /\ stack[1] = f /\ scopes[1] = s
      /\ tree \in Seq(Node) /\ stack \in Seq(FrameSet) /\ scopes \in Seq(ScopeSet)
      /\ tree # <<>> /\ stack # <<>> /\ scopes # <<>>
  BY <1>1, <1>4, <1>5, <1>6
<1>8. TreeOK(tree, scopes)
  BY <1>4, <1>7 DEF TreeOK
<1>9. StackOK(stack, Len(tree), Len(scopes))
  BY <1>5, <1>7 DEF StackOK
<1>10. ScopesOK(scopes, Len(tree))
  BY <1>6, <1>7 DEF ScopesOK
<1>11. ModulesOK(moduleScopes, Len(scopes))
  BY <1>1 DEF ModulesOK
<1> QED BY <1>1, <1>2, <1>3, <1>8, <1>9, <1>10, <1>11 DEF IInv

LEMMA NextTyped == IInv /\ [Next]_vars => IInv'
<1> SUFFICES ASSUME IInv, [Next]_vars PROVE IInv'
  OBVIOUS
<1>1. CASE ParseTerminal BY <1>1, ParseTerminalTyped
<1>2. CASE WrongFollow \/ ((SyntaxError \/ FatalPeek) /\ KeepsTables) \/ NoName \/ Fatal \/ Accept
  BY <1>2, StopsTyped
<1>3. CASE Enter /\ KeepsTables BY <1>3, EnterTyped
<1>4. CASE Leave /\ KeepsTables BY <1>4, LeaveTyped
<1>5. CASE Branch /\ KeepsTables BY <1>5, BranchTyped
<1>6. CASE Loop /\ KeepsTables BY <1>6, LoopTyped
<1>7. CASE Define BY <1>7, DefineTyped
<1>8. CASE Use BY <1>8, UseTyped
<1>9. CASE OpenScope BY <1>9, OpenScopeTyped
<1>10. CASE CloseScope BY <1>10, CloseScopeTyped
<1>11. CASE AddModule BY <1>11, AddModuleTyped
<1>12. CASE AssignTypes BY <1>12, AssignTypesTyped
<1>13. CASE SymbolOfType BY <1>13, SymbolOfTypeTyped
<1>14. CASE Retype BY <1>14, RetypeTyped
<1>15. CASE Scan BY <1>15, ScanTyped
<1>16. CASE FunctionTypes BY <1>16, FunctionTypesTyped
<1>17. CASE CopiedTypes BY <1>17, CopiedTypesTyped
<1>18. CASE UNCHANGED vars
  BY <1>18 DEF vars, machineVars, tables, IInv
<1> QED
  BY <1>1, <1>2, <1>3, <1>4, <1>5, <1>6, <1>7, <1>8, <1>9, <1>10, <1>11, <1>12, <1>13, <1>14,
     <1>15, <1>16, <1>17, <1>18, Zenon DEF Next

LEMMA InvariantTyped == IInv => TypeOK
<1> SUFFICES ASSUME IInv PROVE TypeOK
  OBVIOUS
<1>1. /\ Len(tree) \in Nat /\ Len(scopes) \in Nat /\ tree \in Seq(Node) /\ scopes \in Seq(ScopeSet)
      /\ stack \in Seq(FrameSet)
  BY Sizes
<1>2. /\ DOMAIN tree = 1 .. Len(tree) /\ DOMAIN scopes = 1 .. Len(scopes)
      /\ DOMAIN stack = 1 .. Len(stack)
  BY <1>1
<1>3. ASSUME NEW n \in 1 .. Len(tree)
      PROVE  /\ {tree[n].left, tree[n].right} \subseteq 0 .. Len(tree)
             /\ tree[n].symbol # 0 => tree[n].name \in DOMAIN scopes[tree[n].symbol].symbols
  BY <1>1, ChildrenThere
<1>4. ASSUME NEW k \in 1 .. Len(stack)
      PROVE  stack[k].node \in 1 .. Len(tree) /\ stack[k].scope \in 1 .. Len(scopes)
  BY DEF IInv, StackOK, FrameOK
<1>5. moduleScopes \in Seq(1 .. Len(scopes))
  BY DEF IInv, ModulesOK
<1>6. \A m \in DOMAIN moduleScopes : moduleScopes[m] \in 1 .. Len(scopes)
  BY <1>5
<1>7. ASSUME NEW s \in 1 .. Len(scopes)
      PROVE  /\ scopes[s].parent < s
             /\ \A name \in DOMAIN scopes[s].symbols : scopes[s].symbols[name] \in 0 .. Len(tree)
  <2>1. scopes[s] \in ScopeSet
    BY <1>1
  <2>2. PICK S \in SUBSET Spelling : scopes[s].symbols \in [S -> Nat]
    BY <2>1 DEF ScopeSet
  <2>3. scopes[s].parent < s /\ \A name \in DOMAIN scopes[s].symbols : scopes[s].symbols[name] <= Len(tree)
    BY DEF IInv, ScopesOK
  <2>4. \A name \in DOMAIN scopes[s].symbols : scopes[s].symbols[name] \in Nat
    BY <2>2
  <2> QED BY <1>1, <2>3, <2>4
<1>8. at \in 1 .. Len(text) /\ outcome \in Outcomes
  BY DEF IInv
<1> QED BY <1>2, <1>3, <1>4, <1>6, <1>7, <1>8 DEF TypeOK, Outcomes

\* The token list never runs out, whatever the parser's functions are that
\* read no variable before it is set: every node in use is of the tree, every
\* call has a node and a scope that were made, and a symbol that a node refers
\* to is of the scope it names.
THEOREM ParserTypeCorrect == Spec => []TypeOK
<1>1. Init => IInv
  BY InitTyped
<1>2. IInv /\ [Next]_vars => IInv'
  BY NextTyped
<1>3. IInv => TypeOK
  BY InvariantTyped
<1> QED
  BY <1>1, <1>2, <1>3, PTL DEF Spec
=============================================================================
