----------------------------- MODULE LLVMModule -----------------------------
(***************************************************************************)
(* An LLVM module as the range passes walk it.  A function is its          *)
(* parameters and its instructions in layout order (the order of the two   *)
(* nested loops "for BasicBlock / for Instruction" that every pass uses);  *)
(* a branch names the positions it jumps to, and a phi, for each incoming  *)
(* value, the position of the branch it comes from.                        *)
(*                                                                         *)
(* Values are names.  A name in DOMAIN ConstantValue is an llvm::Constant; *)
(* every other name is a register, an argument or a pointer.               *)
(***************************************************************************)
EXTENDS Integers, Sequences

CONSTANTS
    Names,          \* every llvm::Value of the modules analysed
    ConstantValue,  \* the integer each constant name stands for
    NoName          \* the "void" destination of an instruction

ASSUME ConstantAssumption == /\ DOMAIN ConstantValue \subseteq Names
                             /\ \A c \in DOMAIN ConstantValue : ConstantValue[c] \in Int

\* isa<llvm::Constant>(v), for the integer and floating constants
IsConstant(v) == v \in DOMAIN ConstantValue

Instr(op, dst, args) == [op |-> op, dst |-> dst, args |-> args, at |-> <<>>, name |-> NoName]

Binary(op, dst, l, r)    == Instr(op, dst, <<l, r>>)
Compare(pred, dst, l, r) == [Instr("icmp", dst, <<l, r>>) EXCEPT !.name = pred]
Unary(op, dst, v)        == Instr(op, dst, <<v>>)
Store(v, ptr)            == Instr("store", NoName, <<v, ptr>>)
Load(dst, ptr)           == Instr("load", dst, <<ptr>>)
Ret(v)                   == Instr("ret", NoName, <<v>>)
RetVoid                  == Instr("ret", NoName, <<>>)
\* a phi whose k-th value arrives from the branch at position preds[k]
Phi(dst, vals, preds)    == [Instr("phi", dst, vals) EXCEPT !.at = preds]
Jump(target)             == [Instr("br", NoName, <<>>) EXCEPT !.at = <<target>>]
Branch(cond, yes, no)    == [Instr("br", NoName, <<cond>>) EXCEPT !.at = <<yes, no>>]
\* call void @llvm.dbg.value(metadata v, ...) of a variable of type "type"
DebugValue(v, type)      == [Instr("dbg", NoName, <<v>>) EXCEPT !.name = type]
Call(dst, fn, args)      == [Instr("call", dst, args) EXCEPT !.name = fn]
\* an intrinsic: fn is "fabs" or "sin"
MathCall(dst, fn, v)     == [Instr("math", dst, <<v>>) EXCEPT !.name = fn]
Erased                   == Instr("erased", NoName, <<>>)

\* replaceAllUsesWith, for every name in DOMAIN new at once
ReplaceUses(code, new) ==
    [k \in DOMAIN code |->
        LET args == code[k].args
        IN  [code[k] EXCEPT !.args =
                [j \in DOMAIN args |-> IF args[j] \in DOMAIN new THEN new[args[j]] ELSE args[j]]]]
=============================================================================
