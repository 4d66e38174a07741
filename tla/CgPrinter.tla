------------------------------ MODULE CgPrinter ------------------------------
(***************************************************************************)
(* write_instructions of cgmain.c, reduced to the block structure of the  *)
(* text it prints.  Each instruction prints as a sequence of tokens:      *)
(*                                                                         *)
(*   "lab"   a label line                                                  *)
(*   "term"  a terminator (br, ret, switch)                                *)
(*   "ins"   any other instruction                                         *)
(*                                                                         *)
(* The printer repairs the list as it goes: forceLabel prints a dead      *)
(* label before an instruction that follows a terminator, a label not     *)
(* preceded by a branch gets a fall-through "br label", a label that ends *)
(* the list gets a "ret", and a br right after a ret or br is not printed.*)
(* Operand text, types, metadata and debug locations are left out.        *)
(***************************************************************************)
EXTENDS CgInstrList

\* INSTR_IS_BRANCH, for the instructions the model has.
IsBranch(i) == i.name \in {"br", "ret", "sw"}

\* dont_force_a_dummy_label: a label, or a br followed by a label.
DontForceADummyLabel(il, p) ==
  \/ il[p].name = "label"
  \/ il[p].name = "br" /\ p < Len(il) /\ il[p + 1].name = "label"

\* The I_BR case prints a branch unless it follows a ret or a br.
PrintsBr(il, p) == p = 1 \/ il[p - 1].name \notin {"ret", "br"}

\* Mutant: a label that does not follow a branch gets no fall-through br.
PrintLabelNoFallthrough(il, p) ==
  IF p = 1 /\ il[p].lab = "entry" THEN <<>>
  ELSE <<"lab">> \o (IF p = Len(il) THEN <<"term">> ELSE <<>>)

\* The I_NONE case: the entry label at the head of the list is skipped;
\* otherwise a fall-through branch when the label does not follow a
\* branch, the label, and a default return when the label ends the list.
PrintLabel(il, p) ==
  IF p = 1 /\ il[p].lab = "entry" THEN <<>>
  ELSE (IF p = 1 \/ ~IsBranch(il[p - 1]) THEN <<"term">> ELSE <<>>)
       \o <<"lab">>
       \o (IF p = Len(il) THEN <<"term">> ELSE <<>>)

InstrTokens(il, p) ==
  CASE il[p].name = "label" -> PrintLabel(il, p)
    [] il[p].name \in {"ret", "sw"} -> <<"term">>
    [] il[p].name = "br"    -> IF PrintsBr(il, p) THEN <<"term">> ELSE <<>>
    [] il[p].name = "decl"  -> <<>>
    [] OTHER                -> <<"ins">>

\* Mutant: the I_SW case does not set forceLabel.
SetsForceLabelNoSw(il, p) ==
  \/ il[p].name = "ret"
  \/ il[p].name = "br" /\ PrintsBr(il, p)

\* forceLabel after instruction p: set by a ret, a switch and a printed br,
\* cleared by everything else (the dead label or dont_force clear it first).
SetsForceLabel(il, p) ==
  \/ il[p].name \in {"ret", "sw"}
  \/ il[p].name = "br" /\ PrintsBr(il, p)

RECURSIVE PrintFrom(_, _, _)
PrintFrom(il, p, forceLabel) ==
  IF p > Len(il) THEN <<>>
  ELSE (IF forceLabel /\ ~DontForceADummyLabel(il, p) THEN <<"lab">> ELSE <<>>)
       \o InstrTokens(il, p)
       \o PrintFrom(il, p + 1, SetsForceLabel(il, p))

WriteInstructions(il) == PrintFrom(il, 1, TRUE)

(***************************************************************************)
(* The atomic modifiers write_instructions prints: for a load or store    *)
(* with a memory order "atomic", then volatile, then                       *)
(* write_memory_order_and_alignment; for an atomicrmw its operation and   *)
(* write_memory_order; for a cmpxchg the success and the failure order    *)
(* names; for a fence write_memory_order.  write_memory_order is          *)
(* [singlethread] <order>.  Alignment is left out.                        *)
(***************************************************************************)
\* get_atomic_memory_order_name
GetAtomicMemoryOrderName(f) ==
  CASE f = "MONOTONIC" -> "monotonic" [] f = "ACQUIRE" -> "acquire"
    [] f = "RELEASE"   -> "release"   [] f = "ACQ_REL" -> "acq_rel"
    [] f = "SEQ_CST"   -> "seq_cst"

\* The memory-order field of flags (ATOMIC_MEM_ORD_FLAGS), and the failure
\* order of a cmpxchg (FROM_CMPXCHG_MEMORDER_FAIL).
OrderOf(flags) == CHOOSE f \in MemOrdFlag : f \in flags
FailOrderOf(flags) == CHOOSE f \in MemOrdFlag : FailFlag(f) \in flags

\* get_atomicrmw_opname
GetAtomicrmwOpname(flags) ==
  CASE "SUB" \in flags -> "sub"   [] "ADD" \in flags -> "add"
    [] "XCHG" \in flags -> "xchg" [] "UMIN" \in flags -> "umin"
    [] "MIN" \in flags -> "min"   [] "UMAX" \in flags -> "umax"
    [] "MAX" \in flags -> "max"   [] "AND" \in flags -> "and"
    [] "OR" \in flags -> "or"     [] "XOR" \in flags -> "xor"

WriteMemoryOrder(i) ==
  (IF "SINGLETHREAD" \in i.flags THEN <<"singlethread">> ELSE <<>>)
  \o <<GetAtomicMemoryOrderName(OrderOf(i.flags))>>

IsAtomicFlags(flags) == flags \cap MemOrdFlag # {}

WriteMemoryOrderAndAlignment(i) ==
  IF IsAtomicFlags(i.flags) THEN WriteMemoryOrder(i) ELSE <<>>

\* The opcode and the modifiers printed for instruction i.
AtomicTokens(i) ==
  <<i.name>> \o
  CASE i.name \in {"load", "store"} ->
         (IF IsAtomicFlags(i.flags) THEN <<"atomic">> ELSE <<>>)
         \o (IF "VOLATILE" \in i.flags THEN <<"volatile">> ELSE <<>>)
         \o WriteMemoryOrderAndAlignment(i)
    [] i.name = "atomicrmw" -> <<GetAtomicrmwOpname(i.flags)>> \o WriteMemoryOrder(i)
    [] i.name = "cmpxchg" ->
         <<GetAtomicMemoryOrderName(OrderOf(i.flags)),
           GetAtomicMemoryOrderName(FailOrderOf(i.flags))>>
    [] i.name = "fence" -> WriteMemoryOrder(i)

\* The atomic operations that order memory for other threads: fences,
\* atomicrmw, cmpxchg and stores with a memory order.
IsAtomicEffect(i) ==
  \/ i.name \in {"fence", "atomicrmw", "cmpxchg"}
  \/ i.name = "store" /\ IsAtomicFlags(i.flags)

\* The lines write_instructions prints for them, in list order.
PrintAtomicEffects(il) ==
  LET e == SelectSeq(il, IsAtomicEffect) IN [k \in DOMAIN e |-> AtomicTokens(e[k])]

=============================================================================
