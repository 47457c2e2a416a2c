---------------------------- MODULE NewtonParser ----------------------------
(***************************************************************************)
(* The front end of the Newton compiler behind the lexer:                  *)
(* processNewtonFile scans the tokens of a file twice, first for the       *)
(* dimensions its signals introduce, then to build the tree and the tables *)
(* of physics, scopes and invariants; then the sensors pass reads the      *)
(* sensors from the tree.                                                  *)
(*                                                                         *)
(* The statements of the parser's functions are those of NewtonParserCode. *)
(* This module has the state the functions share and the computations they *)
(* make on it.                                                             *)
(*                                                                         *)
(* Not represented: the value a quantity gets beside its dimensions, the   *)
(* vector flag (nothing ever sets it), the begin of a scope, the symbol a  *)
(* node points to, and messages.  The id of a physics is its number, where *)
(* the code takes the prime number with that number.                       *)
(***************************************************************************)
EXTENDS NewtonParserCode

LOCAL INSTANCE FiniteSetsExt
LOCAL INSTANCE SequencesExt

R == INSTANCE Rationals

CONSTANT
    Texts           \* the files: sequences of tokens, the last one Zeof

VARIABLES
    phase,          \* "dimensions", "parse", or "sensors"
    dimensions,     \* the names of the dimensions, in the order of the file
    physics,        \* the physics made so far; one is named by its index
    physicsList,    \* N->newtonIrTopScope->firstPhysics, as indices
    scopes,         \* the scopes made so far, the first is the top scope
    invariants,     \* N->invariantList: names and parameter lists
    sensorList      \* N->sensorList: the modalities of a sensor

tables == <<dimensions, physics, physicsList, scopes, invariants>>
vars == <<machineVars, phase, tables, sensorList>>

Scope(parent) == [parent |-> parent, parameters |-> 0, symbols |-> {}, closed |-> FALSE]

Init ==
    /\ text \in Texts
    /\ at = 1
    /\ tree = <<NewNode("prescanDescription", "", R!Zero)>>
    /\ stack = <<Frame("prescanDescription", 1, 1, "drop")>>
    /\ outcome = "running"
    /\ phase = "dimensions"
    /\ dimensions = <<>> /\ physics = <<>> /\ physicsList = <<>>
    /\ scopes = <<Scope(0)>>
    /\ invariants = <<>> /\ sensorList = <<>>

-----------------------------------------------------------------------------
(* Reading the tables.                                                     *)

TheNode == tree[Top.node]
Node(i) == tree[Kid(i)]
LastNode == tree[LastKid]

(* A physics without dimensions; the name is that of the token.            *)
NewPhysics(name) ==
    [identifier |-> name, alias |-> "", abbreviation |-> "", constant |-> FALSE,
     exponents |-> [d \in DOMAIN dimensions |-> R!Zero], id |-> 0, subindex |-> 0]

Dimensionless(p) ==
    p = 0 \/ \A d \in DOMAIN physics[p].exponents : physics[p].exponents[d] = R!Zero

AddExponents(a, b) == [d \in DOMAIN a |-> R!Plus(a[d], b[d])]
SubtractExponents(a, b) == [d \in DOMAIN a |-> R!Less(a[d], b[d])]
MultiplyExponents(a, factor) == [d \in DOMAIN a |-> R!Times(a[d], factor)]

(* The first physics of the list with a property, or 0.  Every physics is  *)
(* in the list of the top scope, where the search through the scopes ends. *)
FirstPhysics(Is(_)) ==
    LET found == {i \in DOMAIN physicsList : Is(physics[physicsList[i]])}
    IN  IF found = {} THEN 0 ELSE physicsList[Min(found)]

PhysicsForIdentifier(name) == FirstPhysics(LAMBDA p : p.identifier = name)
PhysicsForAlias(name) == FirstPhysics(LAMBDA p : p.alias = name)
PhysicsForAbbreviation(name) == FirstPhysics(LAMBDA p : p.abbreviation = name)

(* The search by name and subindex forgets the subindex when it goes on in *)
(* the parent scope.                                                       *)
PhysicsForIdentifierAndSubindex(scope, name, subindex) ==
    IF scope = 1
    THEN FirstPhysics(LAMBDA p : p.identifier = name /\ p.subindex = subindex)
    ELSE PhysicsForIdentifier(name)

PhysicsNamed(name) ==
    LET byName == PhysicsForIdentifier(name)
        byAlias == PhysicsForAlias(name)
    IN  IF byName # 0 THEN byName
        ELSE IF byAlias # 0 THEN byAlias ELSE PhysicsForAbbreviation(name)

(* Mutant: a name is known wherever it was declared.                       *)
Symbol_Anywhere(scope, name) == \E s \in DOMAIN scopes : name \in scopes[s].symbols

Symbol(scope, name) ==
    LET declared[s \in 0 .. Len(scopes)] ==
            s # 0 /\ (name \in scopes[s].symbols \/ declared[scopes[s].parent])
    IN  declared[scope]

(* The children of a node that has its own in a chain: the left child,     *)
(* then the left children down the right chain.                            *)
Children(t, n) ==
    LET from[i \in 0 .. Len(t)] ==
            IF i = 0 THEN <<>> ELSE <<t[i].left>> \o from[t[i].right]
    IN  from[n]

Parameters(tuple) == IF tuple = 0 THEN <<>> ELSE Children(tree, tuple)

(* The parameter of a tuple with that name, or 0.                          *)
ParameterNamed(tuple, name) ==
    LET parameters == Parameters(tuple)
        named == {i \in DOMAIN parameters : tree[tree[parameters[i]].left].name = name}
    IN  IF named = {} THEN 0 ELSE parameters[Min(named)]

InvariantNamed(name) ==
    LET named == {i \in DOMAIN invariants : invariants[i].name = name}
    IN  IF named = {} THEN 0 ELSE Min(named)

-----------------------------------------------------------------------------
(* The computations.  Each is one statement of a function; what it does    *)
(* not mention it leaves alone.                                            *)

Doing(what) == At("do") /\ Statement1.arg = what

KeepsTables == UNCHANGED <<phase, tables, sensorList>>
KeepsInput == UNCHANGED <<text, at, phase, outcome, sensorList>>
OnTree == KeepsInput /\ UNCHANGED tables
OnPhysics == KeepsInput /\ UNCHANGED <<dimensions, scopes, invariants>>
OnScopes == KeepsInput /\ UNCHANGED <<tree, dimensions, physics, physicsList, invariants>>

GiveUp(how) == Stop(how) /\ KeepsTables

(* deepCopyPhysicsNode for the node, with the statement done.              *)
GivesPhysics(node, p) ==
    /\ physics' = Append(physics, p)
    /\ tree' = [tree EXCEPT ![node].physics = Len(physics) + 1]
    /\ With(Done)
    /\ UNCHANGED physicsList
    /\ OnPhysics

ReturnIt ==
    /\ Doing("return it")
    /\ With([Done EXCEPT !.node = LastKid])
    /\ UNCHANGED tree /\ OnTree

ChainIt ==
    /\ Doing("chain it")
    /\ tree' = Attach(tree, Top.node, LastKid, "chain")
    /\ With(Done)
    /\ OnTree

TakeItsName ==
    /\ Doing("take its name")
    /\ tree' = [tree EXCEPT ![Top.node].name = LastNode.name]
    /\ With(Done)
    /\ OnTree

(* Scopes.  A scope is opened under the current one and becomes the        *)
(* current one of the function.                                            *)
OpenScope ==
    /\ Doing("open scope")
    /\ scopes' = Append(scopes, Scope(Top.scope))
    /\ With([Done EXCEPT !.scope = Len(scopes) + 1])
    /\ OnScopes

CloseScope ==
    /\ Doing("close scope")
    /\ scopes' = [scopes EXCEPT ![Top.scope].closed = TRUE]
    /\ With(Done)
    /\ OnScopes

(* scopeParameterList: of an invariant or a sensor the tuple just parsed;  *)
(* of an interface the tuple, if there is one; of a distribution the one   *)
(* of the scope around it.                                                 *)
ParameterList ==
    /\ \/ Doing("parameter list")
       \/ Doing("interface parameters")
       \/ Doing("same parameter list")
    /\ LET tuples == {i \in DOMAIN Top.kids : Node(i).type = "parameterTuple"}
           list == IF Statement1.arg = "same parameter list"
                   THEN scopes[scopes[Top.scope].parent].parameters
                   ELSE IF tuples = {} THEN 0 ELSE Kid(Max(tuples))
       IN  /\ scopes' = [scopes EXCEPT ![Top.scope].parameters = list]
           /\ With([Done EXCEPT !.count = list])
    /\ OnScopes

(* Numbers: newtonIrPassConstantFoldingSubtreeEvaluate, on the tree.  An   *)
(* operator that applyOperator does not know is fatal.                     *)
Unknown == "unknown operator"

OperatorType(t, n) ==
    LET down[i \in 1 .. Len(t)] == IF t[i].left = 0 THEN t[i].type ELSE down[t[i].left]
    IN  down[n]

ApplyOperator(operator, a, b) ==
    CASE operator = "plus" -> R!Plus(a, b)
      [] operator = "minus" -> R!Less(a, b)
      [] operator = "mul" -> R!Times(a, b)
      [] operator = "div" -> R!Over(a, b)
      [] OTHER -> Unknown

(* A term or an expression: its operands joined by operators, from the     *)
(* left.                                                                   *)
Evaluate(t, n) ==
    LET value[i \in 1 .. Len(t)] ==
            LET c == Children(t, i)
                upTo[k \in Nat] ==
                    IF k = 0 THEN value[c[1]]
                    ELSE ApplyOperator(OperatorType(t, c[2 * k]), upTo[k - 1], value[c[2 * k + 1]])
            IN  CASE t[i].type = "numericConst" -> t[i].value
                  [] t[i].type = "numericFactor" ->
                        IF Len(c) = 1 THEN value[c[1]] ELSE R!Power(value[c[1]], value[c[3]])
                  [] OTHER -> upTo[Len(c) \div 2]
    IN  value[n]

Fold ==
    /\ Doing("fold")
    /\ LET value == Evaluate(tree, Top.node)
       IN  IF value = Unknown THEN GiveUp("fatal")
           ELSE /\ tree' = [tree EXCEPT ![Top.node].value = value]
                /\ With(Done)
                /\ OnTree

Value ==
    /\ Doing("value")
    /\ tree' = [tree EXCEPT ![Top.node].value = LastNode.value]
    /\ With(Done)
    /\ OnTree

-----------------------------------------------------------------------------
(* Physics of units and quantities.                                        *)

NoDimensions == Doing("no dimensions") /\ GivesPhysics(Top.node, NewPhysics(""))

(* The dimensions of a unit are those of the signal it names.              *)
PhysicsOfUnit ==
    /\ Doing("physics of unit")
    /\ LET named == LastNode.physics
           none == NewPhysics("")
       IN  GivesPhysics(Top.node,
               IF named = 0 THEN none
               ELSE [none EXCEPT !.exponents = AddExponents(@, physics[named].exponents)])

(* The node a function works on, among those it has got.                   *)
Operand ==
    LET types == {"unit", "quantity", "quantityTerm", "quantityExpression", "identifier"}
    IN  Kid(Min({i \in DOMAIN Top.kids : Node(i).type \in types}))

(* The node shares the physics of its operand.                             *)
PhysicsOfFirst ==
    /\ Doing("physics of first")
    /\ tree' = [tree EXCEPT ![Top.node].physics = tree[Operand].physics]
    /\ With(Done)
    /\ OnTree

(* setPhysicsOfBaseNode: the physics is changed where it is.               *)
RaiseToExponent ==
    /\ Doing("raise to exponent")
    /\ LET p == tree[Operand].physics
       IN  physics' = IF Dimensionless(p) THEN physics
                      ELSE [physics EXCEPT ![p].exponents =
                                MultiplyExponents(@, LastNode.value)]
    /\ With(Done)
    /\ UNCHANGED <<tree, physicsList>> /\ OnPhysics

(* A factor of a term: multiplication adds its dimensions, division        *)
(* subtracts them, any other operator leaves them out.                     *)
Multiply ==
    /\ Doing("multiply") \/ Doing("multiply or divide")
    /\ LET p == LastNode.physics
           operator == IF Statement1.arg = "multiply" THEN "mul"
                       ELSE OperatorType(tree, Kid(Len(Top.kids) - 1))
       IN  physics' =
              IF Dimensionless(p) \/ operator \notin {"mul", "div"} THEN physics
              ELSE [physics EXCEPT ![TheNode.physics].exponents =
                        IF operator = "mul" THEN AddExponents(@, physics[p].exponents)
                        ELSE SubtractExponents(@, physics[p].exponents)]
    /\ With(Done)
    /\ UNCHANGED <<tree, physicsList>> /\ OnPhysics

(* areTwoPhysicsEquivalent, of the first term and the one just added.      *)
SameDimensions ==
    /\ Doing("same dimensions")
    /\ IF physics[tree[Operand].physics].exponents = physics[LastNode.physics].exponents
       THEN With(Done) /\ UNCHANGED tree /\ OnTree
       ELSE GiveUp("semantic error")

(* A quantity that names something: the node gets a physics of its own. A  *)
(* name that has a symbol and no physics is dereferenced all the same.     *)
CopyPhysics ==
    /\ Doing("copy physics")
    /\ IF LastNode.physics = 0 THEN GiveUp("null")
       ELSE GivesPhysics(LastKid, physics[LastNode.physics])

(* newtonParserResetPhysicsWithCorrectSubindex.                            *)
ResetPhysics(node, subindex) ==
    LET found == PhysicsForIdentifierAndSubindex(Top.scope, tree[node].name, subindex)
    IN  IF found = 0 THEN GiveUp("semantic error")
        ELSE GivesPhysics(node, physics[found])

(* Between the brackets of a quantity stands the index of the signal being *)
(* defined; cS->currentSubindex is 0 as long as a derivation is parsed.    *)
CurrentSubindex == Doing("current subindex") /\ ResetPhysics(Kid(1), 0)

(* A quantity of an invariant gets the number of the parameter it names. A *)
(* signal that is no parameter is looked for among them all the same.      *)
MatchParameter ==
    /\ Doing("match parameter")
    /\ LET node == tree[Kid(1)]
           list == scopes[Top.scope].parameters
           parameter == ParameterNamed(list, node.name)
           matched == /\ ~ Dimensionless(node.physics)
                      /\ ~ physics[node.physics].constant
                      /\ PhysicsForAbbreviation(node.name) = 0
                      /\ PhysicsForAlias(node.name) = 0
                      /\ list # 0
       IN  CASE ~ matched -> With(Done) /\ UNCHANGED tree /\ OnTree
             [] matched /\ parameter = 0 -> GiveUp("null")
             [] matched /\ parameter # 0 /\ tree[tree[parameter].right].physics = 0 ->
                    GiveUp("assertion")
             [] OTHER -> /\ tree' = [tree EXCEPT ![Kid(1)].number = tree[parameter].number]
                         /\ With(Done)
                         /\ OnTree

-----------------------------------------------------------------------------
(* Signals and constants.                                                  *)

(* newtonPhysicsTableAddPhysicsForToken, for the name of the definition;   *)
(* the function keeps the physics at hand.                                 *)
AddPhysics ==
    /\ Doing("new physics")
    /\ physics' = Append(physics, NewPhysics(Node(1).name))
    /\ physicsList' = Append(physicsList, Len(physics) + 1)
    /\ With([Done EXCEPT !.count = Len(physics) + 1])
    /\ UNCHANGED tree /\ OnPhysics

Changes(p, t) ==
    /\ physics' = [physics EXCEPT ![Top.count] = p]
    /\ tree' = t
    /\ With(Done)
    /\ UNCHANGED physicsList
    /\ OnPhysics

ConstantValue ==
    /\ Doing("constant")
    /\ Changes([physics[Top.count] EXCEPT !.constant = TRUE],
               [tree EXCEPT ![Top.node].value = LastNode.value])

(* newtonPhysicsAddExponentsRecursively: the units anywhere below a node,  *)
(* whatever operators join them.                                           *)
UnitsBelow(n) ==
    LET below[i \in 0 .. Len(tree)] ==
            IF i = 0 THEN {}
            ELSE (IF tree[i].type = "unit" THEN {i} ELSE {})
                 \cup below[tree[i].left] \cup below[tree[i].right]
    IN  below[n]

(* Mutant: only the first unit counts.                                     *)
SumOfExponents_First(units, start) ==
    IF units = {} THEN start
    ELSE AddExponents(start, physics[tree[Min(units)].physics].exponents)

SumOfExponents(units, start) ==
    FoldSet(LAMBDA u, sum : AddExponents(sum, physics[tree[u].physics].exponents), start, units)

UnitOfConstant ==
    /\ Doing("unit of constant")
    /\ Changes([physics[Top.count] EXCEPT !.exponents =
                    SumOfExponents(UnitsBelow(LastKid), @)], tree)

(* The identifier of the constant gets a copy.                             *)
PhysicsOfConstant ==
    /\ Doing("physics of constant")
    /\ GivesPhysics(TheNode.left, physics[Top.count])

AliasOrAbbreviation ==
    \/ /\ Doing("alias")
       /\ Changes([physics[Top.count] EXCEPT !.alias = LastNode.name], tree)
    \/ /\ Doing("abbreviation")
       /\ Changes([physics[Top.count] EXCEPT !.abbreviation = LastNode.name], tree)

(* The dimensions of the derivation are added to those of the signal.  A   *)
(* signal that derives from none is the dimension of its own name, the     *)
(* first of that name.                                                     *)
Derivation ==
    /\ Doing("derivation")
    /\ LET expression == LastNode.left
           p == tree[expression].physics
           own == Min({d \in DOMAIN dimensions : dimensions[d] = physics[Top.count].alias})
           exponents == physics[Top.count].exponents
       IN  /\ physics' = [physics EXCEPT ![Top.count].exponents =
                  IF tree[expression].type = "none"
                  THEN [exponents EXCEPT ![own] = R!Plus(@, R!Whole(1))]
                  ELSE IF p = 0 THEN exponents ELSE AddExponents(exponents, physics[p].exponents)]
           /\ With(Gets(Done, expression))
    /\ UNCHANGED <<tree, physicsList>> /\ OnPhysics

(* (int): towards zero.                                                    *)
Truncate(q) ==
    IF q = R!NotExact THEN 0
    ELSE IF q[1] >= 0 THEN q[1] \div q[2] ELSE -((-q[1]) \div q[2])

SubindexEnd ==
    /\ Doing("subindex end")
    /\ LET end == Truncate(LastNode.value)
       IN  IF end <= 0 THEN GiveUp("semantic error")
           ELSE /\ tree' = [tree EXCEPT ![Top.node].value = R!Whole(Truncate(Node(4).value)),
                                        ![Top.node].number = end]
                /\ With(Done)
                /\ OnTree

(* The ids of all physics differ.                                          *)
LastId == Max({physics[i].id : i \in DOMAIN physics})

(* The signal itself has subindex 0; a copy of it is added for each        *)
(* subindex behind the first.                                              *)
Subindices ==
    /\ Doing("subindices")
    /\ LET tuples == {i \in DOMAIN Top.kids : Node(i).type = "subdimensionTuple"}
           start == IF tuples = {} THEN 0 ELSE Node(Max(tuples)).value[1]
           end == IF tuples = {} THEN 0 ELSE Node(Max(tuples)).number
           signal == [physics[Top.count] EXCEPT !.id = LastId + 1]
           copies == [k \in 1 .. end - start |->
                         [signal EXCEPT !.id = LastId + 1 + k, !.subindex = start + k]]
       IN  /\ physics' = [physics EXCEPT ![Top.count] = signal] \o copies
           /\ physicsList' = physicsList \o [k \in DOMAIN copies |-> Len(physics) + k]
           /\ With(Done)
    /\ UNCHANGED tree /\ OnPhysics

-----------------------------------------------------------------------------
(* Parameters, and the invariants that are called with them.               *)

NumberIt ==
    /\ Doing("number it")
    /\ tree' = [tree EXCEPT ![LastKid].number = Top.count]
    /\ With([Done EXCEPT !.count = @ + 1])
    /\ OnTree

SubindexOfParameter ==
    /\ Doing("subindex of parameter")
    /\ ResetPhysics(Kid(3), LastNode.value[1])

PhysicsOfParameter ==
    /\ Doing("physics of parameter")
    /\ tree' = [tree EXCEPT ![Top.node].physics = Node(3).physics]
    /\ With(Done)
    /\ OnTree

(* newtonGetInvariantIdByParameters: the id of every parameter is read.    *)
InvariantId ==
    /\ Doing("invariant id")
    /\ LET parameters == Parameters(scopes[Top.scope].parameters)
           First0(Is(_)) == Min({i \in DOMAIN parameters : Is(parameters[i])} \cup {Len(parameters) + 1})
           noPhysics == First0(LAMBDA p : tree[p].physics = 0)
           noId == First0(LAMBDA p : tree[p].physics # 0 /\ physics[tree[p].physics].id = 0)
       IN  CASE noPhysics < noId -> GiveUp("null")
             [] noId < noPhysics -> GiveUp("assertion")
             [] OTHER -> With(Done) /\ UNCHANGED tree /\ OnTree

AddInvariant ==
    /\ Doing("add invariant")
    /\ invariants' = Append(invariants,
            [name |-> Node(1).name, parameters |-> scopes[Top.scope].parameters])
    /\ With(Done)
    /\ UNCHANGED <<tree, dimensions, physics, physicsList, scopes>> /\ KeepsInput

(* The call in progress is that of the invariant named just before it.     *)
Called == invariants[InvariantNamed(tree[stack[2].kids[Len(stack[2].kids)]].name)]

ExpectedParameter ==
    /\ \/ Doing("first expected parameter")
       \/ Doing("next expected parameter")
    /\ LET parameters == Parameters(Called.parameters)
           next == Top.count + 1
       IN  IF next > Len(parameters) THEN GiveUp("semantic error")
           ELSE IF tree[parameters[next]].physics = 0 THEN GiveUp("assertion")
           ELSE /\ With([Done EXCEPT !.count = next])
                /\ UNCHANGED tree /\ OnTree

SamePhysicsAsExpected ==
    /\ Doing("same physics as expected")
    /\ LET expected == tree[Parameters(Called.parameters)[Top.count]].physics
       IN  IF LastNode.physics = 0 THEN GiveUp("null")
           ELSE IF physics[LastNode.physics].exponents = physics[expected].exponents
           THEN With(Done) /\ UNCHANGED tree /\ OnTree
           ELSE GiveUp("semantic error")

(* Mutant: arguments may be missing.                                       *)
NoMoreExpected_Unchecked == Doing("no more expected") /\ With(Done) /\ UNCHANGED tree /\ OnTree

NoMoreExpected ==
    /\ Doing("no more expected")
    /\ IF Top.count < Len(Parameters(Called.parameters)) THEN GiveUp("semantic error")
       ELSE With(Done) /\ UNCHANGED tree /\ OnTree

-----------------------------------------------------------------------------
(* Names.                                                                  *)

Naming(kind) == At("name") /\ Statement1.arg = kind /\ Peek(1) = "identifier"

(* The terminal as a new node, with a physics or without one.              *)
TakesName(node, newPhysics) ==
    LET made == Append(tree, node)
    IN  /\ tree' = Attach(made, Top.node, Len(made), Statement1.how)
        /\ With(Gets(Done, Len(made)))
        /\ Advance
        /\ physics' = newPhysics
        /\ UNCHANGED <<text, outcome, phase, sensorList, dimensions, physicsList, invariants>>

Word == text[at].name
Terminal == NewNode("identifier", Word, R!Zero)

(* newtonParseIdentifierDefinitionTerminal: the name joins the symbols of  *)
(* the scope.  An earlier definition is reported and does not count.       *)
Define ==
    /\ Naming("definition")
    /\ TakesName(Terminal, physics)
    /\ scopes' = [scopes EXCEPT ![Top.scope].symbols = @ \cup {Word}]

(* newtonParseIdentifierUsageTerminal: a physics by its name or alias, or  *)
(* else a parameter or another symbol; these only where the scope itself   *)
(* has a list of parameters.                                               *)
Use ==
    /\ Naming("usage")
    /\ LET named == PhysicsNamed(Word)
           list == scopes[Top.scope].parameters
           parameter == ParameterNamed(list, Word)
           bound == tree[tree[parameter].right].physics
           With0(p) == /\ TakesName([Terminal EXCEPT !.physics = Len(physics) + 1],
                                    Append(physics, physics[p]))
                       /\ UNCHANGED scopes
       IN  CASE named # 0 -> With0(named)
             [] named = 0 /\ list = 0 -> GiveUp("semantic error")
             [] named = 0 /\ list # 0 /\ parameter # 0 ->
                    IF bound = 0 THEN GiveUp("assertion") ELSE With0(bound)
             [] OTHER ->
                    IF Symbol(Top.scope, Word) THEN TakesName(Terminal, physics) /\ UNCHANGED scopes
                    ELSE GiveUp("semantic error")

(* newtonParseInvariantIdentifierUsageTerminal.                            *)
UseInvariant ==
    /\ Naming("invariant")
    /\ IF InvariantNamed(Word) = 0 THEN GiveUp("semantic error")
       ELSE TakesName(Terminal, physics) /\ UNCHANGED scopes

NoName ==
    /\ At("name") /\ Peek(1) # "identifier"
    /\ GiveUp("syntax error")

-----------------------------------------------------------------------------
(* The first pass.                                                         *)

CountABrace ==
    /\ Doing("count a brace")
    /\ With([Done EXCEPT !.count = 1])
    /\ UNCHANGED tree /\ OnTree

(* One token of a block is junked, until its last brace is closed.         *)
JunkABlock ==
    /\ Doing("junk a block")
    /\ LET open == Top.count + (CASE Peek(1) = "leftBrace" -> 1
                                  [] Peek(1) = "rightBrace" -> -1
                                  [] OTHER -> 0)
       IN  With([(IF open = 0 THEN Done ELSE Top) EXCEPT !.count = open])
    /\ Advance
    /\ UNCHANGED <<text, tree, outcome>> /\ KeepsTables

KidsOfType(type) == {i \in DOMAIN Top.kids : Node(i).type = type}

HasNameAndSymbol ==
    /\ Doing("has name and symbol")
    /\ IF KidsOfType("nameStatement") = {} \/ KidsOfType("symbolStatement") = {}
       THEN GiveUp("semantic error")
       ELSE With(Done) /\ UNCHANGED tree /\ OnTree

AddDimension ==
    /\ Doing("add dimension")
    /\ dimensions' = Append(dimensions, Node(Max(KidsOfType("nameStatement"))).name)
    /\ With(Done)
    /\ UNCHANGED <<tree, physics, physicsList, scopes, invariants>> /\ KeepsInput

-----------------------------------------------------------------------------
(* processNewtonFile: the passes one after the other.  The second starts   *)
(* from the tokens again, with nothing of the first but its dimensions.    *)

Returned == outcome = "running" /\ Len(stack) = 1 /\ Top.todo = <<>>

StartParse ==
    /\ phase = "dimensions" /\ Returned
    /\ IF dimensions = <<>> THEN GiveUp("semantic error")
       ELSE /\ phase' = "parse"
            /\ at' = 1
            /\ tree' = <<NewNode("newtonDescription", "", R!Zero)>>
            /\ stack' = <<Frame("newtonDescription", 1, 1, "drop")>>
            /\ scopes' = <<Scope(0)>>
            /\ UNCHANGED <<text, outcome, dimensions, physics, physicsList, invariants, sensorList>>

(* The nodes of a type below a node, in the order in which they are found: *)
(* a node, what is on its left, what is on its right.                      *)
NodesOfType(root, type) ==
    LET below[i \in 0 .. Len(tree)] ==
            IF i = 0 THEN <<>>
            ELSE (IF tree[i].type = type THEN <<i>> ELSE <<>>)
                 \o below[tree[i].left] \o below[tree[i].right]
    IN  below[root]

(* The node at the end of a path of left and right children, 0 if there is *)
(* none.                                                                   *)
Follow(n, path) ==
    LET after[k \in 0 .. Len(path)] ==
            IF k = 0 THEN n
            ELSE IF after[k - 1] = 0 THEN 0
            ELSE IF path[k] = "L" THEN tree[after[k - 1]].left ELSE tree[after[k - 1]].right
    IN  after[Len(path)]

(* Mutant: the first statement of a type, whatever it is about.            *)
StatementOf_First(sensor, type, modality) ==
    LET all == NodesOfType(sensor, type)
    IN  IF all = <<>> THEN 0 ELSE all[1]

(* What irPassSensorsLoadSensor reads of the first statement of a type     *)
(* that names the modality.                                                *)
StatementOf(sensor, type, modality) ==
    LET its == SelectSeq(NodesOfType(sensor, type), LAMBDA n : tree[tree[n].left].name = modality)
    IN  IF its = <<>> THEN 0 ELSE its[1]

LowerBound == <<"R", "L">>
UpperBound == <<"R", "R", "R">>
First1 == <<"R", "L", "L">>             \* accuracy, bits of precision, interface
AccuracyCost == <<"R", "L", "R", "R">>
PrecisionCost == <<"R", "L", "R", "L">>
I2CAddress == <<"R", "R", "L", "L", "R">>

Modality(sensor, parameter) ==
    LET name == tree[tree[parameter].left].name
        range == StatementOf(sensor, "rangeStatement", name)
        accuracy == StatementOf(sensor, "accuracyStatement", name)
        precision == StatementOf(sensor, "precisionStatement", name)
        interface == StatementOf(sensor, "sensorInterfaceStatement", name)
        i2c == interface # 0 /\ tree[Follow(interface, First1)].type = "i2c"
        Read(n, path) == IF n = 0 THEN "unset"
                         ELSE IF Follow(n, path) = 0 THEN "null"
                         ELSE tree[Follow(n, path)].value
    IN  [name |-> name,
         rangeLowerBound |-> Read(range, LowerBound),
         rangeUpperBound |-> Read(range, UpperBound),
         accuracy |-> Read(accuracy, First1),
         accuracyCost |-> Read(accuracy, AccuracyCost),
         precisionBits |-> Read(precision, First1),
         precisionCost |-> Read(precision, PrecisionCost),
         registerAddress |-> IF i2c THEN Read(interface, I2CAddress) ELSE "unset"]

LoadSensor(n) ==
    LET parameters == Parameters(tree[tree[n].right].left)
    IN  [name |-> tree[tree[n].left].name,
         modalities |-> [i \in DOMAIN parameters |-> Modality(n, parameters[i])]]

Crashes(sensor) ==
    \E i \in DOMAIN sensor.modalities :
        \E field \in DOMAIN sensor.modalities[i] : sensor.modalities[i][field] = "null"

(* irPassSensors.  The pointer to the last sensor is never set when the    *)
(* list is empty, so that each sensor takes the place of the one before.   *)
Sensors ==
    /\ phase = "parse" /\ Returned
    /\ \E found \in {NodesOfType(1, "sensorDefinition")} :
       \E sensors \in {[i \in DOMAIN found |-> LoadSensor(found[i])]} :
          IF \E i \in DOMAIN sensors : Crashes(sensors[i])
          THEN outcome' = "null" /\ sensorList' = <<>>
          ELSE /\ outcome' = "accepted"
               /\ sensorList' = IF sensors = <<>> THEN <<>> ELSE <<sensors[Len(sensors)]>>
    /\ phase' = "sensors"
    /\ UNCHANGED <<text, at, tree, stack, tables>>

-----------------------------------------------------------------------------
Computation ==
    \/ ReturnIt \/ ChainIt \/ TakeItsName \/ OpenScope \/ CloseScope \/ ParameterList
    \/ Fold \/ Value \/ NoDimensions \/ PhysicsOfUnit \/ PhysicsOfFirst \/ RaiseToExponent
    \/ Multiply \/ SameDimensions \/ CopyPhysics \/ CurrentSubindex \/ MatchParameter
    \/ AddPhysics \/ ConstantValue \/ UnitOfConstant \/ PhysicsOfConstant \/ AliasOrAbbreviation
    \/ Derivation \/ SubindexEnd \/ Subindices \/ NumberIt \/ SubindexOfParameter
    \/ PhysicsOfParameter \/ InvariantId \/ AddInvariant \/ ExpectedParameter
    \/ SamePhysicsAsExpected \/ NoMoreExpected \/ CountABrace \/ JunkABlock
    \/ HasNameAndSymbol \/ AddDimension

Next ==
    \/ MachineStep /\ KeepsTables
    \/ Computation
    \/ Define \/ Use \/ UseInvariant \/ NoName
    \/ StartParse \/ Sensors

(* The compiler runs by itself.                                            *)
Spec == Init /\ [][Next]_vars /\ WF_vars(Next)
=============================================================================
