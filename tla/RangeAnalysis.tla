---------------------------- MODULE RangeAnalysis ---------------------------
(***************************************************************************)
(* rangeAnalysis (newton-irPass-LLVMIR-rangeAnalysis.cpp) under the driver *)
(* loop of irPassLLVMIROptimizeByRange: every function of the module is    *)
(* walked once, in layout order, with a BoundInfo of its own that starts   *)
(* from the ranges of the globals; a call of a defined function walks the  *)
(* callee again, with a BoundInfo that holds only the arguments' ranges,   *)
(* and joins what it found into the caller's.                              *)
(*                                                                         *)
(* The C++ recursion is the variable stack; the newest frame is its last.  *)
(***************************************************************************)
EXTENDS LLVMModule, IntervalArithmetic

CONSTANTS
    Programs,      \* the modules considered
    TypeRange,     \* sensor type |-> the range its specification gives
    MaxDepth       \* bound on the depth of the call stack

\* what the IR verifier guarantees of a module: operands are values, the
\* binary operators have two, stores write to pointers, which comparisons do
\* not define, calls are of functions of the module with as many arguments as
\* parameters, which are values of their own, globals are pointers, and every
\* function of the module is walked once
WellFormedInstr(m, i) ==
    /\ i = [op |-> i.op, dst |-> i.dst, args |-> i.args, at |-> i.at, name |-> i.name]
    /\ i.dst \in Names \cup {NoName}
    /\ i.args \in Seq(Names)
    /\ i.op \in {"add", "sub", "mul", "rem", "icmp"} => Len(i.args) = 2
    /\ i.op \in {"cast", "load", "fneg", "math", "dbg"} => Len(i.args) = 1
    /\ i.op = "store" => Len(i.args) = 2 /\ i.args[2] \in m.pointers
    /\ i.op = "icmp" => i.dst \notin m.pointers
    /\ i.op = "call" => /\ i.name \in DOMAIN m.body
                        /\ Len(i.args) = Len(m.body[i.name].params)

WellFormedFunction(m, f) ==
    /\ f = [params |-> f.params, code |-> f.code]
    /\ f.params \in Seq(Names)
    /\ \A j, k \in DOMAIN f.params : f.params[j] = f.params[k] => j = k
    /\ f.code \in Seq({f.code[k] : k \in DOMAIN f.code})
    /\ \A k \in 1 .. Len(f.code) : WellFormedInstr(m, f.code[k])

WellFormed(m) ==
    /\ m = [order |-> m.order, entry |-> m.entry, body |-> m.body,
            globals |-> m.globals, pointers |-> m.pointers]
    /\ m.order \in Seq(DOMAIN m.body) /\ m.entry \in DOMAIN m.body
    /\ \A fn \in DOMAIN m.body : \E k \in DOMAIN m.order : m.order[k] = fn
    /\ \A j, k \in DOMAIN m.order : m.order[j] = m.order[k] => j = k
    /\ m.globals \in [DOMAIN m.globals -> Int]
    /\ DOMAIN m.globals \subseteq Names \cap m.pointers
    /\ m.body = [fn \in DOMAIN m.body |-> m.body[fn]]
    /\ \A fn \in DOMAIN m.body : WellFormedFunction(m, m.body[fn])

ASSUME ProgramAssumption == \A m \in Programs : WellFormed(m)
ASSUME SensorAssumption  == \A t \in DOMAIN TypeRange : TypeRange[t] \in RangePairs

VARIABLES
    prog,          \* the module: [order, body, globals]
    todo,          \* functions the driver has not started
    stack,         \* activations of rangeAnalysis
    funcBoundInfo  \* function |-> its virtualRegisterRange

vars == <<prog, todo, stack, funcBoundInfo>>

Code(fn)   == prog.body[fn].code
Params(fn) == prog.body[fn].params
IsArgument(fn, v) == \E k \in DOMAIN Params(fn) : Params(fn)[k] = v

-----------------------------------------------------------------------------
(* virtualRegisterRange is a function from the names it has an entry for.  *)

\* std::map::emplace: an entry that is there already stays
Emplace(b, v, r) == [n \in DOMAIN b \cup {v} |-> IF n \in DOMAIN b THEN b[n] ELSE r]
Assign(b, v, r)  == [n \in DOMAIN b \cup {v} |-> IF n = v THEN r ELSE b[n]]
Erase(b, vs)     == [n \in DOMAIN b \ vs |-> b[n]]
EmplaceAny(b, v, rs) == IF rs = {} THEN b ELSE Emplace(b, v, CHOOSE r \in rs : TRUE)

\* the range of an operand, as a set with at most one member
OperandRange(b, v) == IF IsConstant(v) THEN {Point(ConstantValue[v])}
                      ELSE IF v \in DOMAIN b THEN {b[v]} ELSE {}

\* the arms of Add, Sub, Mul and Rem for variable and constant operands
BinaryRange(op, l, r, lConst, rConst) ==
    IF op = "add" THEN AddRange(l, r)
    ELSE IF op = "sub" THEN SubRange(l, r)
    ELSE IF op = "mul" THEN IF lConst THEN MulConst(r, l.lo)
                            ELSE IF rConst THEN MulConst(l, r.lo) ELSE MulRange(l, r)
    \* a constant dividend is swapped with the divisor
    ELSE IF lConst THEN RemRange(r, l) ELSE RemRange(l, r)

BinaryOps == {"add", "sub", "mul", "rem"}

\* two constant operands are left to "expression normalization": no range
InferBinary(b, i) ==
    LET l == i.args[1]  r == i.args[2]
    IN  IF IsConstant(l) /\ IsConstant(r) THEN {}
        ELSE {BinaryRange(i.op, x, y, IsConstant(l), IsConstant(r)) :
                x \in OperandRange(b, l), y \in OperandRange(b, r)}

\* the Rem arm calls modInterval with ranges it does not return for
Diverges(b, i) ==
    LET l == i.args[1]  r == i.args[2]
    IN  /\ i.op = "rem" /\ ~(IsConstant(l) /\ IsConstant(r))
        /\ \E x \in OperandRange(b, l), y \in OperandRange(b, r) :
                IF IsConstant(l) THEN RemDiverges(y, x) ELSE RemDiverges(x, y)

\* the casts copy the operand's range, fneg negates its ends, a declared
\* function that is known has a rule
InferUnary(b, i) ==
    LET v == i.args[1]
    IN  IF v \notin DOMAIN b THEN {}
        ELSE IF i.op = "fneg" THEN {NegRange(b[v])}
        ELSE IF i.op = "math" THEN {IF i.name = "fabs" THEN AbsRange(b[v]) ELSE Pair(-1, 1)}
        ELSE {b[v]}

UnaryOps == {"cast", "load", "fneg", "math"}

\* checkPhiRange: an unknown incoming register leaves the phi without a range
InferPhi_SkipUnknown(b, i) ==
    LET rs == UNION {OperandRange(b, i.args[k]) : k \in DOMAIN i.args}
    IN  IF rs = {} THEN {} ELSE {Pair(Min({r.lo : r \in rs}), Max({r.hi : r \in rs}))}

InferPhi(b, i) ==
    LET rs == UNION {OperandRange(b, i.args[k]) : k \in DOMAIN i.args}
    IN  IF i.args = <<>> \/ \E k \in DOMAIN i.args : OperandRange(b, i.args[k]) = {} THEN {}
        ELSE {Pair(Min({r.lo : r \in rs}), Max({r.hi : r \in rs}))}

\* Mutant: the entries of the first call stay.
MergeCallee_KeepsFirst(b, inner) ==
    [n \in DOMAIN b \cup DOMAIN inner |-> IF n \in DOMAIN b THEN b[n] ELSE inner[n]]

\* the callee's entries are joined into the caller's
MergeCallee(b, inner) ==
    [n \in DOMAIN b \cup DOMAIN inner |->
        IF n \notin DOMAIN inner THEN b[n]
        ELSE IF n \notin DOMAIN b THEN inner[n]
        ELSE Hull(inner[n], b[n])]

-----------------------------------------------------------------------------
(* Frames.  A caller stays at its call instruction while the callee runs.  *)

Frame(fn, b) == [fn |-> fn, pos |-> 1, bound |-> b, storeParam |-> {}]

\* getInitializer of every global that has one
GlobalBounds == [g \in DOMAIN prog.globals |-> Point(prog.globals[g])]

Depth  == Len(stack)
Top    == stack[Depth]
Active == stack # <<>>
AtEnd  == Active /\ Top.pos > Len(Code(Top.fn))
Now    == Code(Top.fn)[Top.pos]
At(ops) == Active /\ ~AtEnd /\ Now.op \in ops

\* the next instruction, with the entries b
Advance(f, b) == [f EXCEPT !.pos = @ + 1, !.bound = b]

StepWith(b) ==
    /\ stack' = [stack EXCEPT ![Depth] = Advance(Top, b)]
    /\ UNCHANGED <<prog, todo, funcBoundInfo>>

\* entries an argument list gives the callee: constants and known operands
ArgumentBounds(b, callee, args) ==
    LET known(n) == {k \in DOMAIN args :
                        Params(callee)[k] = n /\ OperandRange(b, args[k]) # {}}
    IN  [n \in {m \in Names : known(m) # {}} |->
            CHOOSE r \in OperandRange(b, args[CHOOSE k \in known(n) : TRUE]) : TRUE]

\* pointer operands after the call: looked up, under the caller's name, in
\* the callee's entries, and dropped when they are not there
PassPointers_AnyType(b, args, inner) ==
    LET passed == {args[k] : k \in DOMAIN args}
        kept   == Erase(b, passed \ DOMAIN inner)
    IN  [n \in DOMAIN kept |-> IF n \in passed THEN inner[n] ELSE kept[n]]

PassPointers(b, args, inner) ==
    LET passed == {args[k] : k \in DOMAIN args} \cap prog.pointers
        kept   == Erase(b, passed \ DOMAIN inner)
    IN  [n \in DOMAIN kept |-> IF n \in passed THEN inner[n] ELSE kept[n]]

\* return to the caller with at most one range, or to the driver
AfterCall(caller, inner, rs) ==
    LET call == Code(caller.fn)[caller.pos]
        b    == PassPointers(caller.bound, call.args, inner)
    IN  Advance(caller, MergeCallee(EmplaceAny(b, call.dst, rs), inner))

LeaveFunction(rs) ==
    /\ IF Depth = 1
       THEN /\ funcBoundInfo' = Emplace(funcBoundInfo, Top.fn, Top.bound)
            /\ stack' = <<>>
       ELSE /\ stack' = [k \in 1 .. Depth - 1 |->
                            IF k = Depth - 1
                            THEN AfterCall(stack[k], Top.bound, rs) ELSE stack[k]]
            /\ UNCHANGED funcBoundInfo
    /\ UNCHANGED <<prog, todo>>

-----------------------------------------------------------------------------
Init ==
    /\ prog \in Programs
    /\ todo = prog.order
    /\ stack = <<>>
    /\ funcBoundInfo = [f \in {} |-> [n \in {} |-> Point(0)]]

\* "for (auto & mi : *Mod)": the next function that has a body
StartFunction ==
    /\ ~Active /\ todo # <<>>
    /\ stack' = <<Frame(Head(todo), GlobalBounds)>>
    /\ todo' = Tail(todo)
    /\ UNCHANGED <<prog, funcBoundInfo>>

\* llvm.dbg.value / llvm.dbg.declare: a variable of a sensor type gets the
\* sensor's range, and so does the argument that was stored at its address
VisitDebug ==
    /\ At({"dbg"})
    /\ LET v    == Now.args[1]
           args == {p[2] : p \in {q \in Top.storeParam : q[1] = v}}
           r    == TypeRange[Now.name]
       IN  StepWith(IF Now.name \notin DOMAIN TypeRange THEN Top.bound
                    ELSE [n \in DOMAIN Top.bound \cup {v} \cup args |->
                            IF n \in DOMAIN Top.bound THEN Top.bound[n] ELSE r])

VisitBinary ==
    /\ At(BinaryOps) /\ ~Diverges(Top.bound, Now)
    /\ StepWith(EmplaceAny(Top.bound, Now.dst, InferBinary(Top.bound, Now)))

VisitUnary ==
    /\ At(UnaryOps)
    /\ StepWith(EmplaceAny(Top.bound, Now.dst, InferUnary(Top.bound, Now)))

VisitPhi ==
    /\ At({"phi"})
    /\ StepWith(EmplaceAny(Top.bound, Now.dst, InferPhi(Top.bound, Now)))

\* the last store in layout order decides a pointer's range; an argument of
\* unknown range is remembered with the address it is stored at
VisitStore ==
    /\ At({"store"})
    /\ LET v == Now.args[1]  ptr == Now.args[2]
           rs == OperandRange(Top.bound, v)
           remember == /\ rs = {} /\ IsArgument(Top.fn, v)
                       /\ \A p \in Top.storeParam : p[1] # ptr
           stored == IF rs = {} THEN Top.bound
                     ELSE Assign(Top.bound, ptr, CHOOSE r \in rs : TRUE)
           params == IF remember THEN Top.storeParam \cup {<<ptr, v>>} ELSE Top.storeParam
       IN  stack' = [stack EXCEPT ![Depth] =
                        [Advance(Top, stored) EXCEPT !.storeParam = params]]
    /\ UNCHANGED <<prog, todo, funcBoundInfo>>

\* a call of a function with a body
EnterCall_StepsFirst ==
    /\ At({"call"}) /\ Depth < MaxDepth
    /\ stack' = Append([stack EXCEPT ![Depth] = Advance(Top, Top.bound)],
                       Frame(Now.name, ArgumentBounds(Top.bound, Now.name, Now.args)))
    /\ UNCHANGED <<prog, todo, funcBoundInfo>>

EnterCall ==
    /\ At({"call"}) /\ Depth < MaxDepth
    /\ stack' = Append(stack, Frame(Now.name, ArgumentBounds(Top.bound, Now.name, Now.args)))
    /\ UNCHANGED <<prog, todo, funcBoundInfo>>

\* the first return whose operand has a range ends the walk
VisitRet ==
    /\ At({"ret"})
    /\ IF Now.args # <<>> /\ Now.args[1] \in DOMAIN Top.bound
       THEN LeaveFunction({Top.bound[Now.args[1]]})
       ELSE StepWith(Top.bound)

\* the loops run out: return {nullptr, {}}
FallOff_DriverOnly ==
    /\ AtEnd /\ Depth = 1
    /\ LeaveFunction({})

FallOff ==
    /\ AtEnd
    /\ LeaveFunction({})

\* comparisons, branches and the opcodes of the empty arms
VisitOther ==
    /\ At({"icmp", "br", "select", "erased"})
    /\ StepWith(Top.bound)

Next == \/ StartFunction \/ VisitDebug \/ VisitBinary \/ VisitUnary \/ VisitPhi
        \/ VisitStore \/ EnterCall \/ VisitRet \/ FallOff \/ VisitOther

Spec == Init /\ [][Next]_vars /\ WF_vars(Next)

Analysed == ~Active /\ todo = <<>>

-----------------------------------------------------------------------------
(* Properties                                                              *)

IsBounds(b) == /\ DOMAIN b \subseteq Names \cup {NoName}
               /\ \A n \in DOMAIN b : b[n] \in RangePairs

IsFrame(f) == /\ f.fn \in DOMAIN prog.body
              /\ f.pos \in 1 .. Len(Code(f.fn)) + 1
              /\ IsBounds(f.bound)
              /\ f.storeParam \subseteq Names \X Names

\* every activation but the newest waits at the call that started the next
CallersWait ==
    \A k \in 1 .. Depth - 1 :
        /\ stack[k].pos <= Len(Code(stack[k].fn))
        /\ Code(stack[k].fn)[stack[k].pos].op = "call"
        /\ Code(stack[k].fn)[stack[k].pos].name = stack[k + 1].fn

\* Every activation stands at an instruction of its function or just behind
\* the last one, callers wait at their calls, so that what a return writes
\* goes to the call that asked for it, and every entry of every
\* virtualRegisterRange is a value of the module with a pair of numbers.
TypeOK ==
    /\ prog \in Programs
    /\ \A k \in DOMAIN stack : IsFrame(stack[k])
    /\ CallersWait
    /\ \A f \in DOMAIN funcBoundInfo : f \in DOMAIN prog.body /\ IsBounds(funcBoundInfo[f])

\* Every activation that waits has passed its arguments' ranges on: the entry
\* the newer one has for a parameter covers them, whatever it has joined to it
\* since.
ArgumentsPassed ==
    \A k \in 1 .. Depth - 1 :
        LET call == Code(stack[k].fn)[stack[k].pos]
            b    == stack[k + 1].bound
        IN  \A j \in DOMAIN call.args :
               LET p == Params(call.name)[j]
               IN  p \notin prog.pointers =>
                      \A r \in OperandRange(stack[k].bound, call.args[j]) :
                         p \in DOMAIN b /\ Covers(b[p], r)

\* what c keeps of b: an entry that is not a pointer's is still there, and
\* not narrower
Widens(c, b) == \A n \in DOMAIN b \ prog.pointers : n \in DOMAIN c /\ Covers(c[n], b[n])

\* The optimiser relies on the range of an SSA register never being lost or
\* narrowed once later instructions have been derived from it: through calls,
\* returns and joins, the entries of an activation that are not pointers only
\* widen.
RegistersOnlyWiden ==
    [][\A k \in DOMAIN stack \cap DOMAIN stack' :
            Widens(stack'[k].bound, stack[k].bound)]_vars

\* "for variables of innerBoundInfo that has been stored in boundInfo, we get
\* the union set of them": a call that returns leaves its caller an entry for
\* each parameter that covers the argument it was given.  As the entries only
\* widen, after several calls of a function they cover what each one passed.
ArgumentsCoverCallSites ==
    [][Depth > 1 /\ Depth' = Depth - 1 =>
           LET caller == stack[Depth - 1]
               call   == Code(caller.fn)[caller.pos]
               b      == stack'[Depth - 1].bound
           IN  \A j \in DOMAIN call.args :
                  LET p == Params(call.name)[j]
                  IN  p \notin prog.pointers =>
                         \A r \in OperandRange(caller.bound, call.args[j]) :
                            p \in DOMAIN b /\ Covers(b[p], r)]_vars

\* The walk of a module whose calls do not recurse ends, with ranges for
\* every function: no handler leaves an activation standing.
AnalysisTerminates == <>(Analysed /\ DOMAIN funcBoundInfo = DOMAIN prog.body)
=============================================================================
