-------------------------- MODULE RecursiveDescent --------------------------
(***************************************************************************)
(* The machine on which the hand-written recursive-descent parsers of the  *)
(* repository run.  A parser is a set of C functions, one for each         *)
(* production of the grammar; here it is data: for each production the     *)
(* statements of its function in their order.  The machine executes one    *)
(* statement at a step, on the token list, the tree under construction and *)
(* the stack of the calls in progress.                                     *)
(*                                                                         *)
(* What is common to the parsers is the lexer's token list (lexPeek,       *)
(* lexGet), the tests on it (peekCheck, inFirst) and the tree (genIrNode,  *)
(* addLeaf, addLeafWithChainingSeq).  A statement that computes with names *)
(* or dimensions is an action of the parser's own module.                  *)
(***************************************************************************)
EXTENDS Integers, Sequences

CONSTANT
    Procedures      \* for each production, the statements of its function

VARIABLES
    text,       \* the tokens, the last of which is Zeof
    at,         \* N->tokenList: the index of the first token not consumed
    tree,       \* the nodes made so far; a node is named by its index
    stack,      \* the calls in progress, the innermost first
    outcome     \* "running", "accepted", or how the parser gave up

machineVars == <<text, at, tree, stack, outcome>>

-----------------------------------------------------------------------------
(* Statements.  A condition is a sequence of tests <<lookahead, types>>,   *)
(* all of which must hold.  "arg" says what is called or done, and "how"   *)
(* what becomes of the node a call returns: it is dropped, added as a leaf *)
(* of the caller's node, or chained to it.                                 *)

Statement(op, arg, condition, then, else) ==
    [op |-> op, arg |-> arg, condition |-> condition, how |-> "drop", then |-> then, else |-> else]

Leaf(s)  == [s EXCEPT !.how = "leaf"]
Chain(s) == [s EXCEPT !.how = "chain"]

Ahead(k, type) == << <<k, {type}>> >>
Next1(type)    == Ahead(1, type)
OneOf(types)   == << <<1, types>> >>

AnyOf(types)  == Statement("token", "", OneOf(types), <<>>, <<>>)
Token(type)   == AnyOf({type})
Call(p)       == Statement("call", p, <<>>, <<>>, <<>>)
Name(kind)    == Statement("name", kind, <<>>, <<>>, <<>>)
Do(what)      == Statement("do", what, <<>>, <<>>, <<>>)
(* lexGet: one token is dropped, or all up to one of a type and that too.  *)
Junk              == Statement("junk", "", <<>>, <<>>, <<>>)
JunkThrough(type) == Statement("junk", "", Next1(type), <<>>, <<>>)
Fail              == Statement("fail", "", <<>>, <<>>, <<>>)
Repeat(condition, body)       == Statement("while", "", condition, body, <<>>)
Either(condition, then, else) == Statement("if", "", condition, then, else)
When(condition, then)         == Either(condition, then, <<>>)

(* The first alternative whose condition holds, or a syntax error.         *)
Switch(alternatives) ==
    LET from[i \in 1 .. Len(alternatives) + 1] ==
            IF i > Len(alternatives) THEN <<Fail>>
            ELSE <<Either(alternatives[i][1], alternatives[i][2], from[i + 1])>>
    IN  from[1][1]

-----------------------------------------------------------------------------
(* The token list.                                                         *)

Beyond == "beyond the end"

(* lexPeek: the type of the k-th token ahead; there is none behind Zeof,   *)
(* and asking for it is fatal.                                             *)
Peek(k) == IF at + k - 1 > Len(text) THEN Beyond ELSE text[at + k - 1].type

(* Mutant: the list runs out.                                              *)
Advance_Past == at' = at + 1

(* lexGet never removes the token at the end of the list.                  *)
Advance == at' = IF at < Len(text) THEN at + 1 ELSE at

(* The tests of a condition are made from left to right, the first that    *)
(* fails ends them.                                                        *)
FatalIn(condition) ==
    \E i \in DOMAIN condition :
        /\ Peek(condition[i][1]) = Beyond
        /\ \A j \in 1 .. i - 1 : Peek(condition[j][1]) \in condition[j][2]

Holds(condition) ==
    \A i \in DOMAIN condition : Peek(condition[i][1]) \in condition[i][2]

-----------------------------------------------------------------------------
(* The tree.  A child that is not there is 0.                              *)

(* genIrNode.                                                              *)
NewNode(type, name, value) ==
    [type |-> type, name |-> name, value |-> value, physics |-> 0,
     left |-> 0, right |-> 0, number |-> 0, symbol |-> 0]

(* depthFirstWalk: down the right children, to the first node that lacks a *)
(* child.                                                                  *)
DepthFirstWalk(t, n) ==
    LET walk[i \in 1 .. Len(t)] ==
            IF t[i].left = 0 \/ t[i].right = 0 THEN i ELSE walk[t[i].right]
    IN  walk[n]

(* Mutant: the chain is made at the first node, not at the end of it.      *)
Attach_AtNode(t, n, child, how) ==
    IF how = "drop" THEN t
    ELSE IF t[n].left = 0 THEN [t EXCEPT ![n].left = child]
    ELSE IF how = "leaf" THEN [t EXCEPT ![n].right = child]
    ELSE Append([t EXCEPT ![n].right = Len(t) + 1],
                [NewNode("seq", "", <<0, 1>>) EXCEPT !.left = child])

(* addLeaf, addLeafWithChainingSeq: the child becomes the left child of    *)
(* the node the walk ends in, or else its right child, which chaining puts *)
(* under a node of its own.                                                *)
Attach(t, n, child, how) ==
    LET end == DepthFirstWalk(t, n)
    IN  IF how = "drop" THEN t
        ELSE IF t[end].left = 0 THEN [t EXCEPT ![end].left = child]
        ELSE IF how = "leaf" THEN [t EXCEPT ![end].right = child]
        ELSE Append([t EXCEPT ![end].right = Len(t) + 1],
                    [NewNode("seq", "", <<0, 1>>) EXCEPT !.left = child])

-----------------------------------------------------------------------------
(* The calls.  "kids" are the nodes the statements of the function have    *)
(* got so far, which its local variables point to.                         *)

Frame(p, node, scope, how) ==
    [procedure |-> p, node |-> node, scope |-> scope, how |-> how,
     todo |-> Procedures[p], kids |-> <<>>, count |-> 0]

Top == stack[1]
Statement1 == Head(Top.todo)
At(op) == outcome = "running" /\ Top.todo # <<>> /\ Statement1.op = op

Kid(i) == Top.kids[i]
LastKid == Top.kids[Len(Top.kids)]

(* The innermost call when its first statement is done.                    *)
Done == [Top EXCEPT !.todo = Tail(@)]
With(frame) == stack' = <<frame>> \o Tail(stack)
Gets(frame, kid) == [frame EXCEPT !.kids = Append(@, kid)]

Stop(how) ==
    /\ outcome' = how
    /\ UNCHANGED <<text, at, tree, stack>>

(* newtonParseTerminal: the next token, which must have the type expected. *)
TakeToken ==
    /\ At("token")
    /\ Holds(Statement1.condition)
    /\ LET t == text[at]
           made == Append(tree, NewNode(t.type, t.name, t.value))
       IN  /\ tree' = Attach(made, Top.node, Len(made), Statement1.how)
           /\ With(Gets(Done, Len(made)))
    /\ Advance
    /\ UNCHANGED <<text, outcome>>

JunkToken ==
    /\ At("junk")
    /\ With(IF Holds(Statement1.condition) THEN Done ELSE Top)
    /\ Advance
    /\ UNCHANGED <<text, tree, outcome>>

(* A call of another function: its node is made before anything else.      *)
Enter ==
    /\ At("call")
    /\ tree' = Append(tree, NewNode(Statement1.arg, "", <<0, 1>>))
    /\ stack' = <<Frame(Statement1.arg, Len(tree) + 1, Top.scope, Statement1.how),
                  Done>> \o Tail(stack)
    /\ UNCHANGED <<text, at, outcome>>

(* The function returns its node to the caller, who adds it to its own.    *)
Leave ==
    /\ outcome = "running" /\ Top.todo = <<>> /\ Len(stack) > 1
    /\ tree' = Attach(tree, stack[2].node, Top.node, Top.how)
    /\ stack' = <<Gets(stack[2], Top.node)>> \o Tail(Tail(stack))
    /\ UNCHANGED <<text, at, outcome>>

Branch ==
    /\ At("if")
    /\ ~ FatalIn(Statement1.condition)
    /\ With([Top EXCEPT !.todo =
             (IF Holds(Statement1.condition) THEN Statement1.then ELSE Statement1.else)
             \o Tail(@)])
    /\ UNCHANGED <<text, at, tree, outcome>>

Loop ==
    /\ At("while")
    /\ ~ FatalIn(Statement1.condition)
    /\ With(IF Holds(Statement1.condition)
            THEN [Top EXCEPT !.todo = Statement1.then \o @]
            ELSE Done)
    /\ UNCHANGED <<text, at, tree, outcome>>

(* An error message and a jump out of the parser.                          *)
SyntaxError ==
    /\ \/ At("fail")
       \/ At("token") /\ ~ Holds(Statement1.condition)
    /\ Stop("syntax error")

(* lexPeek behind the last token.                                          *)
FatalPeek ==
    /\ At("if") \/ At("while")
    /\ FatalIn(Statement1.condition)
    /\ Stop("fatal")

MachineStep ==
    TakeToken \/ JunkToken \/ Enter \/ Leave \/ Branch \/ Loop \/ SyntaxError \/ FatalPeek
=============================================================================
