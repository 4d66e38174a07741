------------------------------ MODULE CgAtomic ------------------------------
(***************************************************************************)
(* Atomic memory-order lowering of cgmain.c: the translation of an ILI's  *)
(* MEMORY_ORDER and scope into instruction flags, and the instructions     *)
(* gen_llvm_fence_instruction, gen_llvm_atomicrmw_expr, gen_llvm_cmpxchg  *)
(* and gen_llvm_cmpxchg_component build once their operands are lowered. *)
(*                                                                         *)
(* An atomic ILI e is a record with, besides [op, a, l, r]:                *)
(*   mo     its MEMORY_ORDER (memory_order(ilix))                          *)
(*   fmo    the failure order of a cmpxchg (cmpxchg_memory_order)          *)
(*   scope  "singlethread" (SS_SINGLETHREAD) or "system"                   *)
(*   aop    the ATOMIC_RMW_OP of an atomicrmw                              *)
(*   vol    ILI_OPND(ilix, 3) = NME_VOL                                    *)
(*   weak   cmpxchg_is_weak                                                *)
(* Its address is the variable a; the operand list of the LLVM            *)
(* instruction starts with it.                                             *)
(***************************************************************************)
EXTENDS CgInstrList

MemoryOrder == {"relaxed", "consume", "acquire", "release", "acq_rel", "seq_cst"}

\* Mutant: consume is lowered as relaxed.
LlInstrFlagsFromMemoryOrderConsumeRelaxed(mo) ==
  CASE mo \in {"relaxed", "consume"} -> "MONOTONIC"
    [] mo = "acquire"                -> "ACQUIRE"
    [] mo = "release"                -> "RELEASE"
    [] mo = "acq_rel"                -> "ACQ_REL"
    [] mo = "seq_cst"                -> "SEQ_CST"

\* ll_instr_flags_from_memory_order: LLVM has no consume, so it is rounded
\* up to acquire.
LlInstrFlagsFromMemoryOrder(mo) ==
  CASE mo = "relaxed"                -> "MONOTONIC"
    [] mo \in {"consume", "acquire"} -> "ACQUIRE"
    [] mo = "release"                -> "RELEASE"
    [] mo = "acq_rel"                -> "ACQ_REL"
    [] mo = "seq_cst"                -> "SEQ_CST"

\* ll_instr_flags_for_memory_order_and_scope
LlInstrFlagsForMemoryOrderAndScope(e) ==
  {LlInstrFlagsFromMemoryOrder(e.mo)}
  \cup (IF e.scope = "singlethread" THEN {"SINGLETHREAD"} ELSE {})

VolatileFlag(e) == IF e.vol THEN {"VOLATILE"} ELSE {}

\* ll_instr_flags_from_aop
LlInstrFlagsFromAop(aop) ==
  CASE aop = "xchg" -> "XCHG" [] aop = "add" -> "ADD" [] aop = "sub" -> "SUB"
    [] aop = "and"  -> "AND"  [] aop = "or"  -> "OR"  [] aop = "xor" -> "XOR"

(***************************************************************************)
(* gen_llvm_atomicrmw_expr, after the address and the value r are         *)
(* lowered: the flags are the order and scope, volatile and the operation; *)
(* ad_csed_instr is called with CSE off.                                   *)
(***************************************************************************)
AtomicrmwFlags(e) ==
  LlInstrFlagsForMemoryOrderAndScope(e) \cup VolatileFlag(e)
  \cup {LlInstrFlagsFromAop(e.aop)}

AtomicrmwInstr(x, e, r) ==
  AdCsedInstr("atomicrmw", x, <<VarOp(e.a), r.op>>, AtomicrmwFlags(e), FALSE, r.c)

\* gen_llvm_fence_instruction: a fence added with ilix 0.
GenLlvmFenceInstruction(e, c) ==
  AdInstr(0, GenInstr("fence", 0, <<>>, LlInstrFlagsForMemoryOrderAndScope(e)), c)

(***************************************************************************)
(* gen_llvm_cmpxchg, after the comparand cmp and the new value r are      *)
(* lowered: the success order and scope, the failure order, volatile and  *)
(* weak; ad_csed_instr with CSE off.  A cmpxchg ILI tempsMap already      *)
(* holds a temporary for is not lowered again: both its components use    *)
(* that temporary.                                                         *)
(***************************************************************************)
CmpxchgFlags(e) ==
  LlInstrFlagsForMemoryOrderAndScope(e)
  \cup {FailFlag(LlInstrFlagsFromMemoryOrder(e.fmo))}
  \cup VolatileFlag(e) \cup (IF e.weak THEN {"WEAK"} ELSE {})

CmpxchgInstr(x, e, cmp, r) ==
  AdCsedInstr("cmpxchg", x, <<VarOp(e.a), cmp, r.op>>, CmpxchgFlags(e), FALSE, r.c)

CmpxchgFromTempMap(x, c) == [c |-> c, op |-> TmpOp(c.tmap[x])]

\* gen_llvm_cmpxchg_component / gen_extract_value_ll: element idx of the
\* lowered cmpxchg r, in a new temporary, added with ilix 0.
ExtractValue(idx, r) ==
  NewTmpInstr("extractvalue", 0, <<r.op, ConOp(idx)>>, {}, MakeTmps(r.c))

=============================================================================
