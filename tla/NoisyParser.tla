---------------------------- MODULE NoisyParser ----------------------------
(***************************************************************************)
(* The parser of the Noisy compiler: noisyParse builds the tree of a       *)
(* program and its symbol table.  The statements of the parser's functions *)
(* are those of NoisyParserCode; this module has the scopes and symbols    *)
(* they share and the computations they make on them, among them the       *)
(* comparison of a function's definition with its declaration.             *)
(*                                                                         *)
(* Not represented: where a scope begins and ends, the kind and the        *)
(* position of a symbol, and messages.                                     *)
(***************************************************************************)
EXTENDS NoisyParserCode

LOCAL INSTANCE Functions

CONSTANTS
    Texts,          \* the files: sequences of tokens, the last one Zeof
    Needs           \* for each rest of a function, the nodes it takes for got

ASSUME TextsAssumption ==
    \A w \in Texts : w # <<>> /\ w \in Seq([type : STRING, name : STRING, value : Int \X Int])

VARIABLES
    scopes,         \* the scopes made so far, the first is the top scope
    moduleScopes    \* N->moduleScopes

tables == <<scopes, moduleScopes>>
vars == <<machineVars, tables>>

(* The symbols of a scope, each with the node of its type, or 0.           *)
Scope(parent) ==
    [identifier |-> "", parent |-> parent, firstChild |-> 0, symbols |-> <<>>, closed |-> FALSE]

(* The list of tokens never runs out, the calls in progress have nodes and *)
(* scopes of their own, and a node that refers to a symbol refers to one   *)
(* of the scope it names.                                                  *)
TypeOK ==
    /\ at \in 1 .. Len(text)
    /\ outcome \in {"running", "accepted", "syntax error", "semantic error", "null", "fatal",
                    "endless"}
    /\ \A n \in DOMAIN tree :
          /\ {tree[n].left, tree[n].right} \subseteq 0 .. Len(tree)
          /\ tree[n].symbol # 0 => tree[n].name \in DOMAIN scopes[tree[n].symbol].symbols
    /\ \A f \in DOMAIN stack : stack[f].node \in DOMAIN tree /\ stack[f].scope \in DOMAIN scopes
    /\ \A m \in DOMAIN moduleScopes : moduleScopes[m] \in DOMAIN scopes
    /\ \A s \in DOMAIN scopes :
          /\ scopes[s].parent < s
          /\ \A name \in DOMAIN scopes[s].symbols : scopes[s].symbols[name] \in 0 .. Len(tree)

Init ==
    /\ text \in Texts
    /\ at = 1
    /\ tree = <<NewNode("program", "", <<0, 1>>)>>
    /\ stack = <<Frame("program", 1, 1, "drop")>>
    /\ outcome = "running"
    /\ scopes = <<Scope(0)>> /\ moduleScopes = <<>>

(* The nodes that a computation reads from the function's variables.       *)
NodesRead(what) ==
    CASE what = "add module" -> 8
      [] what \in {"function types", "copied types"} -> 6
      [] what = "assign types" -> 3
      [] what \in {"symbol of type", "tuple value"} -> 1
      [] OTHER -> 0

(* A function reads no variable before it is set: whichever way its        *)
(* conditions come out, what is left of it has the nodes it needs, each    *)
(* token, name and call adding one.                                        *)
ReadsAreSet(needs) ==
    /\ needs \in [DOMAIN needs -> Nat]
    /\ \A p \in DOMAIN Procedures : Procedures[p] \in DOMAIN needs /\ needs[Procedures[p]] = 0
    /\ \A rest \in DOMAIN needs \ {<<>>} :
          LET s == Head(rest)
              Left(others, nodes) == others \in DOMAIN needs /\ needs[others] <= nodes
          IN  /\ s.how \in {"drop", "leaf", "chain"}
              /\ s.op \in {"token", "name"} => Left(Tail(rest), needs[rest] + 1)
              /\ s.op = "call" => s.arg \in DOMAIN Procedures /\ Left(Tail(rest), needs[rest] + 1)
              /\ s.op = "do" => NodesRead(s.arg) <= needs[rest] /\ Left(Tail(rest), needs[rest])
              /\ s.op = "if" => /\ Left(s.then \o Tail(rest), needs[rest])
                                /\ Left(s.else \o Tail(rest), needs[rest])
              /\ s.op = "while" => /\ Left(s.then \o rest, needs[rest])
                                   /\ Left(Tail(rest), needs[rest])

ASSUME ProceduresAssumption ==
    /\ "program" \in DOMAIN Procedures /\ DOMAIN Procedures \subseteq STRING
    /\ ReadsAreSet(Needs)

KeepsTables == UNCHANGED tables
OnTree == UNCHANGED <<text, at, outcome, tables>>
OnScopes == UNCHANGED <<text, at, tree, outcome, moduleScopes>>
GiveUp(how) == Stop(how) /\ KeepsTables

-----------------------------------------------------------------------------
(* Tokens and names.                                                       *)

(* Whether the token behind the next one may follow tokens of this type.   *)
FollowedRightly(type) ==
    /\ type \in DOMAIN gNoisyFollows
    /\ text[IF at < Len(text) THEN at + 1 ELSE at].type \in gNoisyFollows[type]

(* noisyParseTerminal: what follows is looked at when the token is taken.  *)
ParseTerminal ==
    /\ At("token")
    /\ FollowedRightly(Peek(1))
    /\ TakeToken
    /\ KeepsTables

WrongFollow ==
    /\ At("token")
    /\ Holds(Statement1.condition)
    /\ ~ FollowedRightly(Peek(1))
    /\ GiveUp("syntax error")

(* commonSymbolTableSymbolForIdentifier: the scope that has the name, of   *)
(* those around this one, or else the first of the modules; 0 if none has. *)
Lookup(scope, name) ==
    LET owner[s \in 0 .. Len(scopes)] ==
            IF s = 0
            THEN IF moduleScopes # <<>> /\ name \in DOMAIN scopes[moduleScopes[1]].symbols
                 THEN moduleScopes[1] ELSE 0
            ELSE IF name \in DOMAIN scopes[s].symbols THEN s
            ELSE owner[scopes[s].parent]
    IN  owner[scope]

Word == text[at].name

(* The terminal as a new node, with its symbol.                            *)
TakesName(scope) ==
    LET made == Append(tree, [NewNode("identifier", Word, <<0, 1>>) EXCEPT !.symbol = scope])
    IN  /\ tree' = Attach(made, Top.node, Len(made), Statement1.how)
        /\ With(Gets(Done, Len(made)))
        /\ Advance
        /\ UNCHANGED <<text, outcome, moduleScopes>>

(* In a declaration the list in front of the colon defines its names.      *)
Defines(kind) ==
    \/ kind = "definition"
    \/ kind = "function" /\ Lookup(Top.scope, Word) = 0
    \/ /\ kind = "declared"
       /\ stack[2].procedure = "identifierOrNil"
       /\ stack[4].procedure = "assignmentStatement" /\ stack[4].count = 1

Naming == At("name") /\ Peek(1) = "identifier"

(* Mutant: a name may be defined again in its scope.                       *)
Define_Again ==
    /\ Naming /\ Defines(Statement1.arg)
    /\ IF Lookup(Top.scope, Word) # 0 /\ Peek(3) = Beyond THEN GiveUp("fatal")
       ELSE IF ~ FollowedRightly("identifier") THEN GiveUp("syntax error")
       ELSE /\ TakesName(Top.scope)
            /\ scopes' = [scopes EXCEPT ![Top.scope].symbols =
                              [name \in DOMAIN @ \cup {Word} |-> IF name = Word THEN 0 ELSE @[name]]]

(* noisyParseIdentifierDefinitionTerminal.  A name that means something    *)
(* outside may be defined again, and then two tokens more are looked at.   *)
Define ==
    /\ Naming /\ Defines(Statement1.arg)
    /\ IF Word \in DOMAIN scopes[Top.scope].symbols THEN GiveUp("semantic error")
       ELSE IF Lookup(Top.scope, Word) # 0 /\ Peek(3) = Beyond THEN GiveUp("fatal")
       ELSE IF ~ FollowedRightly("identifier") THEN GiveUp("syntax error")
       ELSE /\ TakesName(Top.scope)
            /\ scopes' = [scopes EXCEPT ![Top.scope].symbols =
                              [name \in DOMAIN @ \cup {Word} |-> IF name = Word THEN 0 ELSE @[name]]]

(* Mutant: the symbol is taken to be of the scope it is used in.           *)
Use_Here ==
    /\ Naming /\ ~ Defines(Statement1.arg)
    /\ LET from == IF Statement1.arg = "usage in module" THEN 0 ELSE Top.scope
           owner == IF Statement1.arg = "ignore" THEN 0 ELSE Lookup(from, Word)
       IN  IF Statement1.arg # "ignore" /\ owner = 0 THEN GiveUp("semantic error")
           ELSE IF ~ FollowedRightly("identifier") THEN GiveUp("syntax error")
           ELSE TakesName(IF owner = 0 THEN 0 ELSE Top.scope) /\ UNCHANGED scopes

(* noisyParseIdentifierUsageTerminal, and the terminal that is not looked  *)
(* up.  Behind an arrow the search is made in no scope but the modules.    *)
Use ==
    /\ Naming /\ ~ Defines(Statement1.arg)
    /\ LET from == IF Statement1.arg = "usage in module" THEN 0 ELSE Top.scope
           owner == IF Statement1.arg = "ignore" THEN 0 ELSE Lookup(from, Word)
       IN  IF Statement1.arg # "ignore" /\ owner = 0 THEN GiveUp("semantic error")
           ELSE IF ~ FollowedRightly("identifier") THEN GiveUp("syntax error")
           ELSE TakesName(owner) /\ UNCHANGED scopes

(* The name of a function is searched before it is known to be one.        *)
NoName ==
    /\ At("name") /\ Peek(1) # "identifier"
    /\ GiveUp(IF Statement1.arg = "function" THEN "null" ELSE "syntax error")

-----------------------------------------------------------------------------
(* Scopes.                                                                 *)

Doing(what) == At("do") /\ Statement1.arg = what

(* commonSymbolTableOpenScope: the scope knows its parent and the parent   *)
(* does not get to know it.                                                *)
OpenScope ==
    /\ Doing("open scope")
    /\ scopes' = Append(scopes, Scope(Top.scope))
    /\ With([Done EXCEPT !.scope = Len(scopes) + 1])
    /\ OnScopes

CloseScope ==
    /\ Doing("close scope")
    /\ scopes' = [scopes EXCEPT ![Top.scope].closed = TRUE]
    /\ With(Done)
    /\ OnScopes

(* addToModuleScopes, behind the type of the module's name.                *)
AddModule ==
    /\ Doing("add module")
    /\ LET name == tree[Kid(1)].name
           body == Kid(8)
       IN  scopes' = [scopes EXCEPT ![Top.scope].identifier = name,
                                    ![tree[Kid(1)].symbol].symbols[name] = body]
    /\ moduleScopes' = Append(moduleScopes, Top.scope)
    /\ With(Done)
    /\ UNCHANGED <<text, at, tree, outcome>>

-----------------------------------------------------------------------------
(* Types of symbols.                                                       *)

(* The children of a node that has its own in a chain: the left child,     *)
(* then the left children down the right chain.                            *)
Children(t, n) ==
    LET from[i \in 0 .. Len(t)] ==
            IF i = 0 THEN <<>> ELSE <<t[i].left>> \o from[t[i].right]
    IN  from[n]

SetTypes(names, type) ==
    [s \in DOMAIN scopes |->
        [scopes[s] EXCEPT !.symbols =
            [name \in DOMAIN @ |->
                IF \E n \in names : tree[n].symbol = s /\ tree[n].name = name THEN type ELSE @[name]]]]

(* The names in front of a colon.                                          *)
Declared(n) ==
    CASE tree[n].type = "identifier" -> {n}
      [] tree[n].type = "identifierList" -> Range(Children(tree, n))
      [] OTHER -> {tree[tree[orNil].left].left : orNil \in Range(Children(tree, n))}

(* assignTypes, which has no answer for nil.                               *)
AssignTypes ==
    /\ Doing("assign types")
    /\ LET names == Declared(Kid(Len(Top.kids) - 2))
       IN  IF 0 \in names THEN GiveUp("fatal")
           ELSE /\ scopes' = SetTypes(names, LastKid)
                /\ With(Done)
                /\ OnScopes

SymbolOfType ==
    /\ Doing("symbol of type")
    /\ tree' = [tree EXCEPT ![Top.node].symbol = tree[LastKid].symbol,
                            ![Top.node].name = tree[LastKid].name]
    /\ With(Done)
    /\ OnTree

(* The node of one production gets the type of another.                    *)
Retype ==
    /\ Doing("accuracyTolerance") \/ Doing("initList") \/ Doing("tuple value")
    /\ tree' = IF Statement1.arg = "tuple value" THEN [tree EXCEPT ![LastKid].type = "tupleValue"]
               ELSE [tree EXCEPT ![Top.node].type = Statement1.arg]
    /\ With(Done)
    /\ OnTree

Fatal == Doing("fatal") /\ GiveUp("fatal")

(* Whether a declaration begins here: a colon comes before an assignment.  *)
(* Some assignments are not looked for, and the test for one is a token    *)
(* behind the test for a colon.                                            *)
AssignmentsScanned ==
    {"assign", "orAssign", "andAssign", "xorAssign", "plusAssign", "minusAssign",
     "asteriskAssign", "divideAssign", "percentAssign", "channelOperatorAssign"}

Scan ==
    /\ Doing("scan")
    /\ LET colons == {i \in at .. Len(text) : text[i].type \in {"colon", "colonAssign"}}
           assigns == {i \in at .. Len(text) : text[i].type \in AssignmentsScanned}
           definition == \E c \in colons : \A i \in assigns : c <= i + 1
       IN  IF colons = {} /\ assigns = {} THEN GiveUp("fatal")
           ELSE /\ With([Done EXCEPT !.count = IF definition THEN 1 ELSE 0])
                /\ UNCHANGED tree /\ OnTree

-----------------------------------------------------------------------------
(* noisySignatureIsMatching.                                               *)

Null == -1

(* The node at the end of a path of left and right children: 0 if it is    *)
(* not there, Null if a node before it is not there.                       *)
Down(n, path) ==
    LET after[k \in 0 .. Len(path)] ==
            IF k = 0 THEN n
            ELSE IF after[k - 1] <= 0 THEN Null
            ELSE IF path[k] = "L" THEN tree[after[k - 1]].left ELSE tree[after[k - 1]].right
    IN  after[Len(path)]

TypeTree(n) == scopes[tree[n].symbol].symbols[tree[n].name]

(* A NoisyType, or no answer: a null pointer, an aggregate that is not     *)
(* supported, a name that stands for itself.  "unset" is a type that       *)
(* nothing is assigned to.                                                 *)
Basic(name) == <<"basic", name>>
NoAnswer == {<<"null">>, <<"semantic error">>, <<"endless">>}

(* getNoisyTypeFromBasicType: the token is the left child, or that of an   *)
(* integerType or a realType.                                              *)
TypeOfBasic(n) ==
    LET l == tree[n].left
        name == IF tree[l].left = 0 THEN tree[l].type ELSE tree[tree[l].left].type
    IN  Basic(IF name \in {"float4", "float8", "fixedType"} THEN "unset" ELSE name)

(* getNoisyTypeFromArrayNode: the bounds and the type of the elements,     *)
(* without the bounds that those have when they are arrays.                *)
TypeOfArray(n, element) ==
    LET bounds == SelectSeq(Children(tree, n), LAMBDA k : tree[k].type # "typeExpr")
    IN  IF element \in NoAnswer THEN element
        ELSE <<"array", IF element[1] = "array" THEN "array" ELSE element[2],
               [i \in DOMAIN bounds |-> tree[bounds[i]].value]>>

ElementOf(n) ==
    LET elements == SelectSeq(Children(tree, n), LAMBDA k : tree[k].type = "typeExpr")
    IN  elements[Len(elements)]

(* getNoisyTypeFromTypeExpr and getNoisyTypeFromTypeSymbol.  A name stands *)
(* for the type behind its symbol, of a declaration for its second child.  *)
TypeOf(n) ==
    LET type[k \in 0 .. Len(tree) + 1, m \in 1 .. Len(tree)] ==
            LET l == tree[m].left
                named == TypeTree(m)
                behind == Down(named, <<"R", "L">>)
            IN  CASE k = 0 -> <<"endless">>
                  [] k # 0 /\ tree[m].type = "basicType" -> TypeOfBasic(m)
                  [] k # 0 /\ tree[m].type = "anonAggregateType" ->
                        IF tree[l].type = "arrayType" THEN TypeOfArray(l, type[k - 1, ElementOf(l)])
                        ELSE <<"semantic error">>
                  [] k # 0 /\ tree[m].type = "typeExpr" -> type[k - 1, l]
                  [] k # 0 /\ tree[m].type = "typeName" ->
                        IF named = 0 THEN Basic("error")
                        ELSE IF tree[named].type = "typeExpr" THEN type[k - 1, named]
                        ELSE IF behind <= 0 THEN <<"null">>
                        ELSE IF tree[behind].type = "anonAggregateType" THEN <<"null">>
                        ELSE IF tree[behind].type \in {"basicType", "typeName"}
                        THEN type[k - 1, behind]
                        ELSE Basic("error")
                  [] OTHER -> <<"null">>
    IN  IF n <= 0 THEN <<"null">> ELSE type[Len(tree) + 1, n]

(* noisyTypeEquals, as the answers it may give.  The types of constants do *)
(* not occur in signatures.                                                *)
Equal(a, b) ==
    IF a[1] # b[1] \/ (a[1] = "array" /\ a[3] # b[3]) THEN {"no"}
    ELSE IF "unset" \in {a[2], b[2]} THEN {"yes", "no"}
    ELSE {IF a[2] = b[2] THEN "yes" ELSE "no"}

(* noisyMatchTypeExpr.                                                     *)
MatchTypeExpr(m, n) ==
    LET a == TypeOf(m)
        b == TypeOf(n)
    IN  CASE a \in NoAnswer -> {a[1]}
          [] a \notin NoAnswer /\ b \in NoAnswer -> {b[1]}
          [] OTHER -> Equal(a, b)

(* One answer and, if that is yes, another.                                *)
AndThen(answers, others) == IF "yes" \in answers THEN (answers \ {"yes"}) \cup others ELSE answers

(* Mutant: a declaration with more parameters matches.                     *)
SignatureIsMatching_Longer(d, e) ==
    LET defined == Children(tree, d)
        declared == IF e <= 0 THEN <<>> ELSE Children(tree, e)
        Type(i) == IF i > Len(declared) THEN Null ELSE declared[i]
        Turn(i) ==
            CASE i > Len(defined) -> {"yes"}
              [] i <= Len(defined) /\ i > Len(declared) -> {"no"}
              [] OTHER ->
                    IF tree[declared[i]].type # "identifier" THEN {"null"}
                    ELSE IF tree[defined[i]].name # tree[declared[i]].name THEN {"no"}
                    ELSE AndThen(MatchTypeExpr(defined[i + 1], Type(i + 1)), {"next"})
        taken == {k \in 0 .. Len(defined) : \A j \in 0 .. k - 1 : "next" \in Turn(2 * j + 1)}
    IN  IF Down(e, <<"L">>) <= 0 THEN {"null"}
        ELSE IF "nil" \in {tree[defined[1]].type, tree[declared[1]].type}
        THEN {IF tree[defined[1]].type = tree[declared[1]].type THEN "yes" ELSE "no"}
        ELSE (UNION {Turn(2 * k + 1) : k \in taken}) \ {"next"}

(* noisySignatureIsMatching, of a definition and what should be the        *)
(* signature of a declaration: names and types by turns, or nil.  A turn   *)
(* is taken when those before it may have gone on to the next.             *)
SignatureIsMatching(d, e) ==
    LET defined == Children(tree, d)
        declared == IF e <= 0 THEN <<>> ELSE Children(tree, e)
        Type(i) == IF i > Len(declared) THEN Null ELSE declared[i]
        Turn(i) ==
            CASE i > Len(defined) -> {IF i > Len(declared) THEN "yes" ELSE "no"}
              [] i <= Len(defined) /\ i > Len(declared) -> {"no"}
              [] OTHER ->
                    IF tree[declared[i]].type # "identifier" THEN {"null"}
                    ELSE IF tree[defined[i]].name # tree[declared[i]].name THEN {"no"}
                    ELSE AndThen(MatchTypeExpr(defined[i + 1], Type(i + 1)), {"next"})
        taken == {k \in 0 .. Len(defined) : \A j \in 0 .. k - 1 : "next" \in Turn(2 * j + 1)}
    IN  IF Down(e, <<"L">>) <= 0 THEN {"null"}
        ELSE IF "nil" \in {tree[defined[1]].type, tree[declared[1]].type}
        THEN {IF tree[defined[1]].type = tree[declared[1]].type THEN "yes" ELSE "no"}
        ELSE (UNION {Turn(2 * k + 1) : k \in taken}) \ {"next"}

SetsTypeTree(node, type) ==
    scopes' = [scopes EXCEPT ![Top.scope].identifier =
                                 IF Top.procedure = "functionDefn" THEN tree[node].name ELSE @,
                             ![tree[node].symbol].symbols[tree[node].name] = type]

(* The type of a function: a node of its own over copies of the two        *)
(* signatures.  What the name already has as its type is taken for a       *)
(* declaration of the function.                                            *)
FunctionTypes ==
    /\ Doing("function types")
    /\ LET name == Kid(1)
           parameters == Kid(4)
           results == Kid(6)
           before == TypeTree(name)
           type == [NewNode("", "", <<0, 1>>) EXCEPT !.left = Len(tree) + 1, !.right = Len(tree) + 2]
           answers == IF before = 0 THEN {"yes"}
                      ELSE AndThen(SignatureIsMatching(parameters, Down(before, <<"L", "L">>)),
                                   SignatureIsMatching(results, Down(before, <<"R", "L">>)))
       IN  \E answer \in answers :
              IF answer = "yes"
              THEN /\ tree' = tree \o <<tree[parameters], tree[results], type>>
                   /\ SetsTypeTree(name, Len(tree) + 3)
                   /\ With(Done)
                   /\ UNCHANGED <<text, at, outcome, moduleScopes>>
              ELSE GiveUp(IF answer = "no" THEN "semantic error" ELSE answer)

(* Of a problem or a predicate: a copy of the first signature, to which    *)
(* one of the second is added.                                             *)
CopiedTypes ==
    /\ Doing("copied types")
    /\ LET copy == Len(tree) + 1
       IN  /\ tree' = Attach(tree \o <<tree[Kid(4)], tree[Kid(6)]>>, copy, copy + 1, "leaf")
           /\ SetsTypeTree(Kid(1), copy)
    /\ With(Done)
    /\ UNCHANGED <<text, at, outcome, moduleScopes>>

-----------------------------------------------------------------------------
Accept ==
    /\ outcome = "running" /\ Len(stack) = 1 /\ Top.todo = <<>>
    /\ GiveUp("accepted")

Next ==
    \/ ParseTerminal \/ WrongFollow
    \/ (Enter \/ Leave \/ Branch \/ Loop \/ SyntaxError \/ FatalPeek) /\ KeepsTables
    \/ Define \/ Use \/ NoName
    \/ OpenScope \/ CloseScope \/ AddModule \/ AssignTypes \/ SymbolOfType \/ Retype
    \/ Fatal \/ Scan \/ FunctionTypes \/ CopiedTypes
    \/ Accept

(* The compiler runs by itself.                                            *)
Spec == Init /\ [][Next]_vars /\ WF_vars(Next)
=============================================================================
