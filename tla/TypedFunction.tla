--------------------------- MODULE TypedFunction ---------------------------
(***************************************************************************)
(* A function of an LLVM module with the types of its values, as           *)
(* shrinkTypeByRange rewrites it.  A function is                           *)
(*    [inst, code, ret]                                                    *)
(* where inst maps a register to the instruction that defines it, code is  *)
(* the blocks, each the sequence of its registers, and ret the return      *)
(* type.  A parameter or a global variable is a register that is in no     *)
(* block.  An operand is a register or a constant; a constant is its word  *)
(* and its width, as LLVM keeps one object for each.                       *)
(***************************************************************************)
EXTENDS Integers, Sequences, SequencesExt

Reg(n)      == [reg |-> n, val |-> 0, w |-> 0]
Const(v, w) == [reg |-> 0, val |-> v % 2^w, w |-> w]
IsConstant(v) == v.reg = 0
SignedValue(c) == IF c.val >= 2^(c.w - 1) THEN c.val - 2^c.w ELSE c.val

Int_(w)  == [kind |-> "int", w |-> w]
Ptr(w)   == [kind |-> "ptr", w |-> w]
Double   == [kind |-> "fp", w |-> 64]
Void     == [kind |-> "void", w |-> 0]
NoType   == [kind |-> "none", w |-> 0]

TypeOf(f, v) == IF IsConstant(v) THEN Int_(v.w) ELSE f.inst[v.reg].type

\* to: the incoming blocks of a phi, the targets of a branch or switch
Instr(op, type, args) == [op |-> op, type |-> type, args |-> args, pred |-> "", to |-> <<>>]

Casts    == {"trunc", "zext", "sext", "sitofp", "uitofp", "bitcast"}
Binaries == {"add", "sub", "mul", "sdiv", "udiv", "srem", "urem",
             "shl", "lshr", "ashr", "and", "or", "xor"}

-----------------------------------------------------------------------------
(* The edits of llvm::IRBuilder and llvm::Value.                           *)

Placed(f)  == UNION {ToSet(f.code[b]) : b \in DOMAIN f.code}
Block(f, i) == CHOOSE b \in DOMAIN f.code : i \in ToSet(f.code[b])
Place(f, i) == CHOOSE k \in DOMAIN f.code[Block(f, i)] : f.code[Block(f, i)][k] = i
Layout(f)  == FlattenSeq(f.code)
Fresh(f)   == Len(f.inst) + 1
Terminator(f, b) == Last(f.code[b])

\* A new instruction in block b at place k.
Insert(f, b, k, ins) == [f EXCEPT !.inst = Append(@, ins),
                                  !.code[b] = InsertAt(@, k, Fresh(f))]
Before(f, i, ins) == Insert(f, Block(f, i), Place(f, i), ins)
\* After i, and after the phis that follow it.
After(f, i, ins) ==
    LET b == Block(f, i)
        k == CHOOSE k \in (Place(f, i) + 1)..Len(f.code[b]) :
                 /\ f.inst[f.code[b][k]].op # "phi"
                 /\ \A j \in (Place(f, i) + 1)..(k - 1) : f.inst[f.code[b][j]].op = "phi"
    IN  Insert(f, b, k, ins)
Erase(f, i) == [f EXCEPT !.code[Block(f, i)] = RemoveAt(@, Place(f, i))]

\* replaceUsesOfWith in one instruction; replaceAllUsesWith in all but keep
ReplaceIn(f, i, old, new) ==
    [f EXCEPT !.inst[i].args = [k \in DOMAIN @ |-> IF @[k] = old THEN new ELSE @[k]]]
ReplaceUses(f, old, new, keep) ==
    [f EXCEPT !.inst = [i \in DOMAIN @ |->
        IF i = keep THEN @[i]
        ELSE [@[i] EXCEPT !.args = [k \in DOMAIN @ |-> IF @[k] = old THEN new ELSE @[k]]]]]
=============================================================================
