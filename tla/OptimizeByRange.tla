--------------------------- MODULE OptimizeByRange --------------------------
(***************************************************************************)
(* The rewriting half of irPassLLVMIROptimizeByRange: analyse the ranges,  *)
(* fold the comparisons they decide (simplifyControlFlow), let LLVM clean  *)
(* the control flow, analyse the new module from scratch, and replace the  *)
(* registers whose range is one point (constantSubstitution).              *)
(*                                                                         *)
(* After the driver is done, the module is run before and after on the     *)
(* same input (phases "source" and "output", which are not code of the     *)
(* driver but what its output is for).                                     *)
(***************************************************************************)
EXTENDS RangeAnalysis, LLVMExecution

CONSTANTS
    Inputs,   \* the integers a parameter of the entry function may have
    Width     \* the bits of the integers compared

\* the constants of the modules are integers of that width
ASSUME WidthAssumption == /\ Width \in Nat /\ 2^Width \in Nat
                          /\ \A c \in DOMAIN ConstantValue : ConstantValue[c] < 2^Width
ASSUME InputsAssumption == Inputs \subseteq Int
\* the results of a folded comparison are constants
ASSUME TruthValues == \A n \in {0, 1} : \E c \in DOMAIN ConstantValue : ConstantValue[c] = n

VARIABLES
    phase,      \* where the driver is
    pending,    \* functions the current rewriting pass has not visited
    source,     \* the module as parsed
    sourceInfo, \* funcBoundInfo of the first analysis
    machine,    \* the run in progress
    reference   \* the halted run of the source module

driverVars == <<phase, pending, source, sourceInfo>>
runVars    == <<machine, reference>>
allVars    == <<vars, driverVars, runVars>>

Idle == [stack |-> <<>>, mem |-> [g \in {} |-> 0], status |-> "idle", result |-> 0]

Positions(fn) == DOMAIN Code(fn)

ConstantFor(n) == CHOOSE c \in DOMAIN ConstantValue : ConstantValue[c] = n

WithCode(fn, code) == [prog EXCEPT !.body[fn].code = code]

-----------------------------------------------------------------------------
(* simplifyControlFlow                                                     *)

\* a constant on the left moves to the right
Normalised(i) ==
    IF IsConstant(i.args[1]) /\ ~IsConstant(i.args[2])
    THEN Compare(Swapped(i.name), i.dst, i.args[2], i.args[1]) ELSE i

\* isSigned() is false of eq and ne too: their constant is zero-extended
ComparedRange(b, pred, v) ==
    IF IsConstant(v) /\ pred \in {"eq", "ne"} THEN {Point(ConstantValue[v] % 2^Width)}
    ELSE OperandRange(b, v)

Verdict(b, i) ==
    IF IsConstant(i.args[1]) THEN "Depends"
    ELSE LET ls == OperandRange(b, i.args[1])  rs == ComparedRange(b, i.name, i.args[2])
         IN  IF ls = {} \/ rs = {} THEN "Depends"
             ELSE compareICmp(i.name, CHOOSE l \in ls : TRUE, CHOOSE r \in rs : TRUE)

\* the comparisons that are decided, and the constants they become
Folded(code, b) ==
    LET verdict(k) == Verdict(b, Normalised(code[k]))
        decided(k) == code[k].op = "icmp" /\ verdict(k) \in {"AlwaysTrue", "AlwaysFalse"}
        result(n)  == CHOOSE k \in DOMAIN code : decided(k) /\ code[k].dst = n
    IN  [n \in {code[k].dst : k \in {j \in DOMAIN code : decided(j)}} |->
            ConstantFor(IF verdict(result(n)) = "AlwaysTrue" THEN 1 ELSE 0)]

\* The comparison stays where it is, its uses become true or false.  No
\* verdict depends on a replaced use: comparisons have no range.
simplifyControlFlow(code, b) ==
    ReplaceUses([k \in DOMAIN code |-> IF code[k].op = "icmp" THEN Normalised(code[k]) ELSE code[k]],
                Folded(code, b))

-----------------------------------------------------------------------------
(* createCFGSimplificationPass: a branch on a constant becomes a jump,     *)
(* what can no longer be reached goes, phis lose the incoming values of    *)
(* branches that no longer come.                                           *)

FoldBranches(code) ==
    [k \in DOMAIN code |->
        LET i == code[k]
        IN  IF i.op = "br" /\ Len(i.at) = 2 /\ IsConstant(i.args[1])
            THEN Jump(i.at[IF ConstantValue[i.args[1]] # 0 THEN 1 ELSE 2]) ELSE i]

Successors(code, k) ==
    IF code[k].op = "br" THEN {code[k].at[j] : j \in DOMAIN code[k].at}
    ELSE IF code[k].op = "ret" THEN {} ELSE {k + 1}

Reachable(code) ==
    LET reach[n \in 0 .. Len(code)] ==
            IF n = 0 THEN {1}
            ELSE LET r == reach[n - 1] IN r \cup UNION {Successors(code, k) : k \in r}
    IN  reach[Len(code)]

\* a branch at position p still goes to the block of the phi at position k
Arrives(code, p, k) ==
    \E t \in Successors(code, p) : t <= k /\ \A j \in t .. k : code[j].op = "phi"

\* the members of K, numbers up to n, in their order
InOrder(K, n) ==
    CHOOSE js \in UNION {[1 .. m -> K] : m \in 0 .. n} :
        /\ \A j \in K : \E a \in DOMAIN js : js[a] = j
        /\ \A a, b \in DOMAIN js : a < b => js[a] < js[b]

CleanCFG(old) ==
    LET code == FoldBranches(old)
        live == Reachable(code)
        phi(i, k) ==
            LET kept == {j \in DOMAIN i.args : i.at[j] \in live /\ Arrives(code, i.at[j], k)}
                js   == InOrder(kept, Len(i.args))
            IN  Phi(i.dst, [j \in DOMAIN js |-> i.args[js[j]]], [j \in DOMAIN js |-> i.at[js[j]]])
    IN  [k \in DOMAIN code |->
            IF k \notin live THEN Erased
            ELSE IF code[k].op = "phi" THEN phi(code[k], k) ELSE code[k]]

-----------------------------------------------------------------------------
(* constantSubstitution                                                    *)

Substitutable == BinaryOps \cup UnaryOps \cup {"phi", "call"}

\* a global is an llvm::Constant too, and so is an operand replaced before
PointsToConstant(i) == i.op = "store" /\ (i.args[2] \in DOMAIN prog.globals \/ IsConstant(i.args[2]))

OnePoint(b, n) == n \in DOMAIN b /\ b[n].lo = b[n].hi

Replaced(i, b) == i.op \in Substitutable /\ i.dst \notin prog.pointers /\ OnePoint(b, i.dst)

\* a register is replaced by its constant and erased; so is every store
\* whose pointer is an llvm::Constant
constantSubstitution(fn, b) ==
    LET gone  == {k \in Positions(fn) : Replaced(Code(fn)[k], b)}
        const == [n \in {Code(fn)[k].dst : k \in gone} |-> ConstantFor(b[n].lo)]
        code  == ReplaceUses(Code(fn), const)
    IN  [k \in Positions(fn) |->
            IF k \in gone \/ PointsToConstant(code[k]) THEN Erased ELSE code[k]]

\* isFromQuantizedGlobal follows the operands of a register it is about to
\* replace, phis included, and does not note where it has been
OperandsOf(code, ns) ==
    UNION {{code[k].args[j] : j \in DOMAIN code[k].args} : k \in {m \in DOMAIN code : code[m].dst \in ns}}

Below(code, n) ==
    LET down[d \in 0 .. Len(code)] ==
            IF d = 0 THEN OperandsOf(code, {n}) ELSE down[d - 1] \cup OperandsOf(code, down[d - 1])
    IN  down[Len(code)]

WalkReturns(code, n) == \A m \in Below(code, n) \cup {n} : m \notin Below(code, m)

\* uses of registers replaced earlier in layout order are constants by then
WalksReturn(fn, b) ==
    \A k \in Positions(fn) :
        Replaced(Code(fn)[k], b) =>
            LET earlier == {Code(fn)[j].dst : j \in {m \in 1 .. k - 1 : Replaced(Code(fn)[m], b)}}
            IN  WalkReturns(ReplaceUses(Code(fn), [n \in earlier |-> ConstantFor(b[n].lo)]),
                            Code(fn)[k].dst)

-----------------------------------------------------------------------------
(* The driver                                                              *)

OptInit ==
    /\ Init
    /\ phase = "analyse" /\ pending = <<>>
    /\ source = prog /\ sourceInfo = funcBoundInfo
    /\ machine = Idle /\ reference = Idle

Analyse ==
    /\ phase \in {"analyse", "reanalyse"}
    /\ Next
    /\ UNCHANGED <<driverVars, runVars>>

BeginPass ==
    /\ phase \in {"analyse", "reanalyse"} /\ Analysed
    /\ phase' = IF phase = "analyse" THEN "simplify" ELSE "substitute"
    /\ pending' = prog.order
    /\ sourceInfo' = IF phase = "analyse" THEN funcBoundInfo ELSE sourceInfo
    /\ UNCHANGED <<vars, source, runVars>>

Simplify ==
    /\ phase = "simplify" /\ pending # <<>>
    /\ LET fn == Head(pending)
       IN  prog' = WithCode(fn, simplifyControlFlow(Code(fn), funcBoundInfo[fn]))
    /\ pending' = Tail(pending)
    /\ UNCHANGED <<todo, stack, funcBoundInfo, phase, source, sourceInfo, runVars>>

\* LLVM's cleanup, callerMap.clear(), funcBoundInfo.clear(), second analysis
Reanalyse_KeepsInfo ==
    /\ phase = "simplify" /\ pending = <<>>
    /\ prog' = [prog EXCEPT !.body =
                    [fn \in DOMAIN prog.body |-> [prog.body[fn] EXCEPT !.code = CleanCFG(Code(fn))]]]
    /\ phase' = "reanalyse"
    /\ UNCHANGED <<todo, stack, funcBoundInfo, pending, source, sourceInfo, runVars>>

Reanalyse ==
    /\ phase = "simplify" /\ pending = <<>>
    /\ prog' = [prog EXCEPT !.body =
                    [fn \in DOMAIN prog.body |-> [prog.body[fn] EXCEPT !.code = CleanCFG(Code(fn))]]]
    /\ todo' = prog.order
    /\ funcBoundInfo' = [f \in {} |-> [n \in {} |-> Point(0)]]
    /\ phase' = "reanalyse"
    /\ UNCHANGED <<stack, pending, source, sourceInfo, runVars>>

Substitute ==
    /\ phase = "substitute" /\ pending # <<>>
    /\ LET fn == Head(pending)
       IN  /\ WalksReturn(fn, funcBoundInfo[fn])
           /\ prog' = WithCode(fn, constantSubstitution(fn, funcBoundInfo[fn]))
    /\ pending' = Tail(pending)
    /\ UNCHANGED <<todo, stack, funcBoundInfo, phase, source, sourceInfo, runVars>>

ParamsOf(fn) == {source.body[fn].params[k] : k \in DOMAIN source.body[fn].params}

\* the module is written out; run it and its source on one input
StartRuns ==
    /\ phase = "substitute" /\ pending = <<>>
    /\ \E regs \in [ParamsOf(source.entry) -> Inputs] :
            machine' = Start(source, regs) /\ reference' = Start(prog, regs)
    /\ phase' = "source"
    /\ UNCHANGED <<vars, pending, source, sourceInfo>>

RunSource ==
    /\ phase = "source" /\ machine.status = "running"
    /\ machine' = Step(source, TypeRange, machine)
    /\ UNCHANGED <<vars, driverVars, reference>>

SwitchRun ==
    /\ phase = "source" /\ machine.status # "running"
    /\ machine' = reference /\ reference' = machine
    /\ phase' = "output"
    /\ UNCHANGED <<vars, pending, source, sourceInfo>>

RunOutput ==
    /\ phase = "output" /\ machine.status = "running"
    /\ machine' = Step(prog, TypeRange, machine)
    /\ UNCHANGED <<vars, driverVars, reference>>

OptNext == \/ Analyse \/ BeginPass \/ Simplify \/ Reanalyse \/ Substitute
           \/ StartRuns \/ RunSource \/ SwitchRun \/ RunOutput

OptSpec == OptInit /\ [][OptNext]_allVars

-----------------------------------------------------------------------------
(* The modules the rules are right for.  Each conjunct names a shape that  *)
(* the code gets wrong or leaves to the front end (README, "Trusted        *)
(* modules"); the hazards list says what happens outside of it.            *)

Functions   == DOMAIN source.body
CodeOf(fn)  == source.body[fn].code
InstrsOf(fn) == {CodeOf(fn)[k] : k \in DOMAIN CodeOf(fn)}
AllInstrs   == UNION {InstrsOf(fn) : fn \in Functions}
StoresOf(fn) == {k \in DOMAIN CodeOf(fn) : CodeOf(fn)[k].op = "store"}
Branches(fn) == {k \in DOMAIN CodeOf(fn) : CodeOf(fn)[k].op = "br"}
Writes(fn)  == \E k \in StoresOf(fn) : CodeOf(fn)[k].args[2] \in ParamsOf(fn)

\* the arms that keep the order of the ends or of the operands
NoInvertingArm ==
    \A i \in AllInstrs :
        /\ i.op # "fneg"
        /\ i.op = "mul" => \A k \in 1 .. 2 : IsConstant(i.args[k]) => ConstantValue[i.args[k]] >= 0
        /\ i.op = "rem" => ~IsConstant(i.args[1])

\* no equality with a constant that zero-extension changes
PlainEqualities ==
    \A i \in AllInstrs :
        i.op = "icmp" /\ i.name \in {"eq", "ne"} =>
            \A k \in 1 .. 2 : IsConstant(i.args[k]) => ConstantValue[i.args[k]] >= 0

\* pointers are flow-insensitive: one store each, in code without branches
PlainStores ==
    \A fn \in Functions :
        /\ StoresOf(fn) # {} => Branches(fn) = {}
        /\ \A j, k \in StoresOf(fn) : CodeOf(fn)[j].args[2] = CodeOf(fn)[k].args[2] => j = k

\* globals are taken to be constants
GlobalsOnlyRead ==
    \A i \in AllInstrs :
        /\ i.op = "store" => i.args[2] \notin DOMAIN source.globals
        /\ i.op = "call" /\ Writes(i.name) =>
                \A k \in DOMAIN i.args : i.args[k] \notin DOMAIN source.globals

\* a call with a one-point range is erased, whatever else it does
EffectsWithoutResult ==
    \A i \in AllInstrs : i.op = "call" /\ Writes(i.name) => i.dst = NoName

OneReturn ==
    \A fn \in Functions :
        \A j, k \in DOMAIN CodeOf(fn) :
            CodeOf(fn)[j].op = "ret" /\ CodeOf(fn)[k].op = "ret" => j = k

\* a variable's sensor type holds wherever its register is used: its check is
\* not behind the end of the function's first block
SeedsDominate ==
    \A fn \in Functions :
        \A k \in DOMAIN CodeOf(fn) :
            CodeOf(fn)[k].op = "dbg" =>
                \A j \in DOMAIN CodeOf(fn) : CodeOf(fn)[j].op \in {"br", "call", "ret"} => k < j

\* the ranges of several calls are joined where each of them has one: an
\* argument without a range at one call leaves those of the others
CallsOf(callee) ==
    UNION {{<<fn, k>> : k \in {j \in DOMAIN CodeOf(fn) : CodeOf(fn)[j].op = "call"
                                                       /\ CodeOf(fn)[j].name = callee}} : fn \in Functions}

ArgumentsKnown ==
    \A i \in AllInstrs :
        i.op = "call" /\ Cardinality(CallsOf(i.name)) > 1 =>
            \A k \in DOMAIN i.args : OperandRange(sourceInfo[source.entry], i.args[k]) # {}

Trusted == /\ NoInvertingArm /\ PlainEqualities /\ PlainStores /\ GlobalsOnlyRead
           /\ EffectsWithoutResult /\ OneReturn /\ SeedsDominate /\ ArgumentsKnown

-----------------------------------------------------------------------------
(* A module whose entry function is in SSA form and neither calls nor      *)
(* stores: the runs of such modules are followed by proof.                 *)

DefinedBy(i) == IF i.op \in Defining THEN {i.dst} ELSE {}

\* a register has one definition and is neither a parameter nor a pointer; a
\* debug intrinsic comes behind the definition of the value it describes
SingleAssignment(m) ==
    LET f == m.body[m.entry]
    IN  /\ \A j \in DOMAIN f.params : f.params[j] \notin m.pointers /\ ~IsConstant(f.params[j])
        /\ \A g \in m.pointers : ~IsConstant(g)
        /\ \A k \in DOMAIN f.code :
              f.code[k].op \in Defining =>
                 /\ f.code[k].dst \notin m.pointers /\ ~IsConstant(f.code[k].dst)
                 /\ \A j \in DOMAIN f.params : f.params[j] # f.code[k].dst
                 /\ \A j \in DOMAIN f.code :
                       /\ f.code[k].dst \in DefinedBy(f.code[j]) => j = k
                       /\ f.code[j].op = "dbg" /\ f.code[j].args[1] = f.code[k].dst => k < j

\* the operands of i, at position k, when avail[j] has a value at position j
OperandsThere(m, i, k, avail) ==
    IF i.op = "load" THEN i.args[1] \in DOMAIN m.globals
    ELSE IF i.op = "phi"
    THEN \A j \in DOMAIN i.args :
            i.at[j] \in DOMAIN avail => IsConstant(i.args[j]) \/ i.args[j] \in avail[i.at[j]]
    ELSE \A j \in DOMAIN i.args :
            \/ IsConstant(i.args[j])
            \/ i.args[j] \in avail[k]
            \/ i.args[j] \in DOMAIN m.globals /\ i.op = "dbg"

\* avail has, for each position that is reached, registers that every way
\* there defines: what the verifier means by a definition that dominates its
\* uses
Dominated(m, avail) ==
    LET f == m.body[m.entry]
    IN  /\ 1 \in DOMAIN avail /\ avail[1] \subseteq {f.params[j] : j \in DOMAIN f.params}
        /\ DOMAIN avail \subseteq DOMAIN f.code
        /\ \A k \in DOMAIN avail :
              /\ OperandsThere(m, f.code[k], k, avail)
              /\ \A s \in Successors(f.code, k) :
                    s \in DOMAIN avail /\ avail[s] \subseteq avail[k] \cup DefinedBy(f.code[k])

\* phis head their blocks and have one value for every branch that comes there
PhisHeadBlocks(m, avail) ==
    LET code == m.body[m.entry].code
    IN  /\ code[1].op # "phi"
        /\ \A k \in DOMAIN avail :
              code[k].op = "phi" =>
                 /\ \A p \in DOMAIN avail :
                       /\ k \in Successors(code, p) => code[p].op \in {"br", "phi"}
                       /\ code[p].op = "br" /\ Arrives(code, p, k) =>
                             \E j \in DOMAIN code[k].args : code[k].at[j] = p
                 /\ \A i, j \in DOMAIN code[k].args :
                       code[k].at[i] = code[k].at[j] => code[k].args[i] = code[k].args[j]

\* no branch goes back to the block that the function begins with, where its
\* debug intrinsics are
ChecksFirst(m) ==
    LET code == m.body[m.entry].code
    IN  \A k, j \in DOMAIN code :
            code[k].op = "dbg" /\ code[j].op = "br" => \A s \in Successors(code, j) : k < s

\* the result of a comparison is one bit: not divided, not described
TruthsApart(m) ==
    LET code == m.body[m.entry].code
    IN  \A k, j \in DOMAIN code :
            code[k].op = "icmp" /\ code[j].op \in {"rem", "dbg"} => code[j].args[1] # code[k].dst

OwnInstructions(m) ==
    \A k \in DOMAIN m.body[m.entry].code :
        LET i == m.body[m.entry].code[k]
        IN  /\ i.op \in Defining \cup {"dbg", "br", "ret", "erased"}
            /\ i.op = "br" => /\ i.at \in Seq(Nat) /\ Len(i.at) \in {1, 2}
                              /\ Len(i.at) = 2 => Len(i.args) = 1
            /\ i.op = "dbg" => ~IsConstant(i.args[1])
            /\ i.op = "ret" => Len(i.args) <= 1

SelfContained(m, avail) == /\ SingleAssignment(m) /\ Dominated(m, avail)
                           /\ PhisHeadBlocks(m, avail) /\ OwnInstructions(m)
                           /\ ChecksFirst(m) /\ TruthsApart(m)

\* LLVM makes a constant of any integer; the model has those that are named
PointsHaveConstants ==
    \A fn \in DOMAIN funcBoundInfo :
        \A n \in DOMAIN funcBoundInfo[fn] :
            OnePoint(funcBoundInfo[fn], n) =>
                \E c \in DOMAIN ConstantValue : ConstantValue[c] = funcBoundInfo[fn][n].lo

-----------------------------------------------------------------------------
(* Properties                                                              *)

\* the newest activation; the others were the newest when they were set
RunningFrame == machine.stack[Len(machine.stack)]

\* the activation is past the checks of its sensor types
Checked == \A k \in DOMAIN CodeOf(RunningFrame.fn) :
                CodeOf(RunningFrame.fn)[k].op = "dbg" => k < RunningFrame.pos

RegistersIn(f, b) ==
    \A n \in (DOMAIN f.regs \cap DOMAIN b) \ prog.pointers : In(f.regs[n], b[n])

\* Every value a register takes in a run of the source module, on any input
\* its sensors allow, is in the range the first analysis of that function
\* has for it, and in the range that the analysis of the entry function
\* joined into its own BoundInfo, call after call; and in a run of the
\* rewritten module, in the range of the second analysis.
RangesContain ==
    phase \in {"source", "output"} /\ Checked /\ Trusted =>
        LET f == RunningFrame
        IN  IF phase = "output" THEN RegistersIn(f, funcBoundInfo[f.fn])
            ELSE RegistersIn(f, sourceInfo[f.fn]) /\ RegistersIn(f, sourceInfo[source.entry])

\* The rewritten module returns what the source module returns, on every
\* input for which the source module's result is defined and its sensors
\* are within their specification.
SameResult ==
    phase = "output" /\ machine.status # "running" /\ reference.status = "returned" /\ Trusted =>
        /\ machine.status = "returned"
        /\ machine.result = reference.result

\* A pass works on the analysis of the module as it is: the ranges used by
\* constantSubstitution are of registers the cleaned module still has, or of
\* values that its debug intrinsics describe.
InfoIsCurrent ==
    phase = "substitute" /\ pending = prog.order =>
        \A fn \in DOMAIN funcBoundInfo :
            \A n \in DOMAIN funcBoundInfo[fn] \ prog.pointers :
                \E f \in DOMAIN prog.body :
                    \/ IsArgument(f, n)
                    \/ \E k \in Positions(f) :
                          Code(f)[k].dst = n \/ (Code(f)[k].op = "dbg" /\ Code(f)[k].args[1] = n)

\* "remove the const store inst, e.g. store double 0.0, double 0.0": what
\* constantSubstitution removes has no variable to write to, so that every
\* store to a global of a function without branches is in the output.
StoresToVariablesStay ==
    phase = "source" =>
        \A fn \in Functions :
            Branches(fn) = {} =>
                \A k \in StoresOf(fn) :
                    CodeOf(fn)[k].args[2] \in DOMAIN source.globals => Code(fn)[k].op = "store"
=============================================================================
