----------------------------- MODULE CgInstrList -----------------------------
(***************************************************************************)
(* The per-routine LLVM instruction list of cgmain.c (Instructions /      *)
(* llvm_info.last_instr) and the operations that append to it, search it  *)
(* and delete from it:                                                     *)
(*                                                                         *)
(*   ad_instr            append, count operand uses, mark STARTEBB        *)
(*   ad_csed_instr       reuse an identical instruction of the current    *)
(*                       extended basic block, or append a new one        *)
(*   find_load_cse       reuse a loaded or stored value for a load,       *)
(*                       keeping the last same-name store alive           *)
(*   make_load           find_load_cse, else append a load                *)
(*   remove_instr        unlink, decrement operand uses                   *)
(*   remove_dead_instrs  backward dead-code walk                          *)
(*                                                                         *)
(* Every operator takes and returns the lowering context c, a record that *)
(* holds the file-static state of cgmain.c; this module reads and writes  *)
(* its fields il (the list), uses (TMPS use_count), ntmp (temporaries     *)
(* made), nid (instructions made), newEbb (new_ebb) and dbgFail (a        *)
(* DEBUG_ASSERT of find_load_cse failed).                                  *)
(*                                                                         *)
(* Types, alignments, debug locations and the operand text are left out: *)
(* an operand is a temporary, a variable (an address), a constant, a      *)
(* label or nothing.                                                       *)
(***************************************************************************)
EXTENDS Integers, Sequences, SequencesExt, FiniteSets

CONSTANTS
  Opt,               \* flg.opt
  Addr,              \* the variables a load or store may address
  Nme,               \* Nme[a]: the NME (alias name) of address a
  FenceNmeConflicts  \* what enhanced_conflict(ld_nme, ILI_OPND(0, 3)) says
                     \* for a fence added with ilix 0 (TRUE: may conflict)

ASSUME Opt \in {1, 2}
ASSUME FenceNmeConflicts \in BOOLEAN

\* ENABLE_CSE_OPT and ENABLE_ENHANCED_CSE_OPT without the XBIT switches.
CseOpt == Opt >= 1
EnhancedCseOpt == Opt >= 2

TmpOp(t) == [ot |-> "tmp", v |-> t]
VarOp(a) == [ot |-> "var", v |-> a]
ConOp(k) == [ot |-> "con", v |-> k]
LblOp(k) == [ot |-> "lbl", v |-> k]
NoOp     == [ot |-> "none", v |-> 0]
\* The callee operand of an intrinsic call (get_intrinsic) and undef.
FnOp(n)  == [ot |-> "fn", v |-> n]
UndefOp  == [ot |-> "undef", v |-> 0]

\* The operands, told apart by kind first.
IsOperand(o) ==
  CASE o.ot \in {"tmp", "lbl"}          -> o.v \in Nat
    [] o.ot = "con"                    -> o.v \in Int
    [] o.ot = "var"                    -> o.v \in Addr
    [] o.ot = "fn"                     -> o.v \in STRING
    [] o.ot \in {"none", "undef", "cc"} -> o.v = 0
    [] OTHER                           -> FALSE

InstrName == {"label", "br", "ret", "store", "load", "add", "icmp",
              "fence", "decl", "call", "fadd", "fsub", "fmul", "picall",
              "insertelement", "extractelement", "atomicrmw", "cmpxchg",
              "extractvalue", "sw"}
\* ATOMIC_MEM_ORD_FLAGS: the memory-order field of LL_InstrListFlags.
MemOrdFlag == {"MONOTONIC", "ACQUIRE", "RELEASE", "ACQ_REL", "SEQ_CST"}
\* TO_CMPXCHG_MEMORDER_FAIL: the same orders in the failure-order field.
FailFlag(f) == "FAIL_" \o f
\* ATOMIC_RMW_OP_FLAGS.
RmwFlag == {"XCHG", "ADD", "SUB", "AND", "OR", "XOR", "UMIN", "MIN", "UMAX", "MAX"}
\* LL_InstrListFlags the model tells apart.
Flag == {"startebb", "deletable", "intrinsic", "SINGLETHREAD", "VOLATILE", "WEAK"}
        \cup MemOrdFlag \cup {FailFlag(f) : f \in MemOrdFlag} \cup RmwFlag
\* What reaches a label: "join" (a branch target, DEFDG/CCSYMG label),
\* "fall" (false edge of a conditional branch), "dead" (made after a
\* terminator), "entry" (label 0 at the head of the routine), "en" (the
\* label of an entry point, insert_entry_label) and "disp" (the false edge
\* of a test of the entry dispatch, insert_jump_entry_instr).
LabelKind == {"join", "fall", "dead", "entry", "en", "disp", "-"}

IsInstr(i) ==
  /\ DOMAIN i = {"id", "name", "ilix", "tmp", "ops", "flags", "lab"}
  /\ i.id \in Nat /\ i.name \in InstrName /\ i.ilix \in Nat /\ i.tmp \in Nat
  /\ i.flags \subseteq Flag /\ i.lab \in LabelKind
  /\ DOMAIN i.ops = 1..Len(i.ops) /\ \A k \in DOMAIN i.ops : IsOperand(i.ops[k])

\* make_instr + gen_instr: an instruction not yet in the list.
GenInstr(name, tmp, ops, flags) ==
  [id |-> 0, name |-> name, ilix |-> 0, tmp |-> tmp, ops |-> ops,
   flags |-> flags, lab |-> "-"]

MkLabel(kind) == [GenInstr("label", 0, <<>>, {}) EXCEPT !.lab = kind]

StartsEbb(i) == "startebb" \in i.flags
IsDeletableStore(i) == i.name = "store" /\ "deletable" \in i.flags
StoreAddr(i) == i.ops[2].v

\* Occurrences of temporary t among the operands of instruction i.
TmpUses(i, t) ==
  Quantify(DOMAIN i.ops, LAMBDA k : i.ops[k].ot = "tmp" /\ i.ops[k].v = t)

(***************************************************************************)
(* ad_instr: count a use of every temporary operand, append, and give the *)
(* instruction STARTEBB when a new extended basic block was opened.       *)
(***************************************************************************)
AdInstr(ilix, ins, c) ==
  LET new == [ins EXCEPT !.ilix = ilix, !.id = c.nid + 1,
                         !.flags = IF c.newEbb THEN @ \cup {"startebb"} ELSE @]
  IN [c EXCEPT !.il = Append(@, new),
               !.nid = @ + 1,
               !.uses = [t \in DOMAIN @ |-> @[t] + TmpUses(ins, t)],
               !.newEbb = FALSE]

\* make_tmps: a fresh temporary with no use yet.
MakeTmps(c) ==
  [c EXCEPT !.ntmp = @ + 1, !.uses = (c.ntmp + 1 :> 0) @@ @]

(***************************************************************************)
(* ad_csed_instr.  With CSE enabled and not at the head of an extended    *)
(* basic block, walk back from the last instruction; an instruction of    *)
(* the same name and the same operands (same_op) is reused.  The walk     *)
(* stops after a switch, invoke or call, after a branch or label unless   *)
(* enhanced CSE is on, and after the STARTEBB instruction.                *)
(***************************************************************************)
\* same_op: temporaries, variables and constants compare by value; any
\* other operand (a label) never matches.
SameOp(o1, o2) == o1.ot = o2.ot /\ o1.v = o2.v /\ o1.ot \in {"tmp", "var", "con"}
SameOps(s1, s2) ==
  Len(s1) = Len(s2) /\ \A k \in DOMAIN s1 : SameOp(s1[k], s2[k])

CsedScanStop(i) ==
  \/ i.name \in {"call", "sw"}
  \/ i.name \in {"br", "label"} /\ ~EnhancedCseOpt
  \/ StartsEbb(i)

\* The position of the instruction ad_csed_instr would reuse, or 0.
CsedHit(name, ops, il) ==
  SelectLastInSubSeq(il, Max({1, SelectLastInSeq(il, CsedScanStop)}), Len(il),
                     LAMBDA i : i.name = name /\ SameOps(i.ops, ops))

\* A new instruction with a new temporary (c has the temporary made).
NewTmpInstr(name, ilix, ops, flags, c) ==
  [c |-> AdInstr(ilix, GenInstr(name, c.ntmp, ops, flags), c), op |-> TmpOp(c.ntmp)]

CsedOrNew(name, ilix, ops, flags, hit, c) ==
  IF hit # 0 THEN [c |-> c, op |-> TmpOp(c.il[hit].tmp)]
  ELSE NewTmpInstr(name, ilix, ops, flags, MakeTmps(c))

AdCsedInstr(name, ilix, ops, flags, doCse, c) ==
  CsedOrNew(name, ilix, ops, flags,
            IF doCse /\ CseOpt /\ ~c.newEbb THEN CsedHit(name, ops, c.il) ELSE 0, c)

\* Mutant: only an acquire order holds a load back.
CanMoveLoadUpOverAcquireOnly(i) == {"ACQUIRE"} \cap i.flags = {}

\* can_move_load_up_over_fence: acquire, acq_rel and seq_cst hold a load
\* back; monotonic, release and no order do not.
CanMoveLoadUpOverFence(i) == {"ACQUIRE", "ACQ_REL", "SEQ_CST"} \cap i.flags = {}

(***************************************************************************)
(* find_load_cse(ilix, load_op).  First walk: the last store with the     *)
(* load's NME in the current extended basic block loses DELETABLE (the    *)
(* walk ends there, or at the STARTEBB instruction, which bounds the      *)
(* second walk).  Second walk, from the last instruction back: an earlier *)
(* instruction of the same ilix gives its temporary; a store to the same  *)
(* address gives its stored operand (and gets its flags back when it is   *)
(* the store of the first walk); a load, fence, cmpxchg or atomicrmw     *)
(* with an acquire, acq_rel or seq_cst order stops it, and so does a      *)
(* fence, cmpxchg or atomicrmw whose NME may conflict with the load's     *)
(* (the fences are asserted to carry an ilix); a store with the load's    *)
(* NME, a call and, without enhanced CSE, a label or branch stop it.      *)
(* Returns the operand found or NoOp.                                      *)
(***************************************************************************)
\* Mutant: the first walk leaves DELETABLE on the store it finds.
KeepDeletable(il, k) == il

\* Mutant: the first walk clears every flag of the store, not DELETABLE.
ClearDeletableAll(il, k) == IF k # 0 THEN [il EXCEPT ![k].flags = {}] ELSE il

\* The first walk of find_load_cse takes DELETABLE off the store at k.
ClearDeletable(il, k) ==
  IF k # 0 THEN [il EXCEPT ![k].flags = @ \ {"deletable"}] ELSE il

\* The last STARTEBB instruction, or 0.
EbbHead(il) == SelectLastInSeq(il, StartsEbb)

\* First walk: the last store with NME ldNme from the STARTEBB instruction on.
DelStore(il, ldNme) ==
  SelectLastInSubSeq(il, Max({EbbHead(il), 1}), Len(il),
    LAMBDA i : i.name = "store" /\ i.ilix # 0 /\ Nme[StoreAddr(i)] = ldNme)

\* Where the second walk stops (exclusive): nowhere when the first walk
\* found a store, else the STARTEBB instruction, or the one before it when
\* that is a label.
ScanEnd(il, del) ==
  LET e == EbbHead(il)
  IN IF del # 0 \/ e = 0 THEN 0
     ELSE IF il[e].name # "label" THEN e ELSE e - 1

\* Mutant: an intrinsic call is passed over as a FAST_CALL would be.
DecidesPastIntrinsic(i, ilix, ldNme) ==
  \/ i.ilix = ilix
  \/ i.name = "load" /\ ~CanMoveLoadUpOverFence(i)
  \/ i.name = "fence" /\ (~CanMoveLoadUpOverFence(i) \/ FenceNmeConflicts)
  \/ i.name \in {"atomicrmw", "cmpxchg"} /\
       (~CanMoveLoadUpOverFence(i) \/ Nme[i.ops[1].v] = ldNme)
  \/ i.name = "store" /\ (i.ilix = 0 \/ Nme[StoreAddr(i)] = ldNme)
  \/ i.name = "call" /\ "intrinsic" \notin i.flags
  \/ i.name \in {"label", "br"} /\ ~EnhancedCseOpt

\* The instructions that decide the second walk for a load of ilix.
Decides(i, ilix, ldNme) ==
  \/ i.ilix = ilix
  \/ i.name = "load" /\ ~CanMoveLoadUpOverFence(i)
  \/ i.name = "fence" /\ (~CanMoveLoadUpOverFence(i) \/ FenceNmeConflicts)
  \/ i.name \in {"atomicrmw", "cmpxchg"} /\
       (~CanMoveLoadUpOverFence(i) \/ Nme[i.ops[1].v] = ldNme)
  \/ i.name = "store" /\ (i.ilix = 0 \/ Nme[StoreAddr(i)] = ldNme)
  \/ i.name = "call"
  \/ i.name \in {"label", "br"} /\ ~EnhancedCseOpt

\* The operand the deciding instruction j gives a load of a by ilix.
Forwarded(il, j, ilix, a) ==
  IF j = 0 THEN NoOp
  ELSE IF il[j].ilix = ilix
       THEN IF SameOp(il[j].ops[1], VarOp(a)) THEN TmpOp(il[j].tmp) ELSE NoOp
  ELSE IF il[j].name = "store" /\ il[j].ilix # 0 /\ StoreAddr(il[j]) = a
       THEN il[j].ops[1]
  ELSE NoOp

\* DEBUG_ASSERT: every fence, cmpxchg and atomicrmw the second walk
\* reaches carries an ilix.
FenceWithoutIli(il, from) ==
  \E k \in from..Len(il) :
    il[k].name \in {"fence", "cmpxchg", "atomicrmw"} /\ il[k].ilix = 0

\* The field rd is a history: each load find_load_cse replaced, as the
\* position of the instruction that gave the value and the length of the
\* list when the load was asked for.
LoadCseReturn(c, del, j, fail, found) ==
  [c |-> [c EXCEPT !.il = IF found # NoOp /\ j = del /\ j # 0 THEN @
                          ELSE ClearDeletable(@, del),
                   !.dbgFail = @ \/ fail,
                   !.rd = IF found # NoOp THEN @ \cup {[from |-> j, at |-> Len(c.il)]}
                          ELSE @],
   op |-> found]

LoadCseWalk(ilix, a, c, del, last, j) ==
  LoadCseReturn(c, del, j, FenceWithoutIli(c.il, Max({j, last + 1})),
                Forwarded(c.il, j, ilix, a))

LoadCseScan(ilix, a, c, del, last) ==
  LoadCseWalk(ilix, a, c, del, last,
    SelectLastInSubSeq(c.il, last + 1, Len(c.il),
                       LAMBDA i : Decides(i, ilix, Nme[a])))

FindLoadCseFrom(ilix, a, c, del) ==
  LoadCseScan(ilix, a, c, del, ScanEnd(c.il, del))

FindLoadCse(ilix, a, c) ==
  IF c.newEbb THEN [c |-> c, op |-> NoOp]
  ELSE FindLoadCseFrom(ilix, a, c, DelStore(c.il, Nme[a]))

(***************************************************************************)
(* make_load: the operand find_load_cse gives, else a new load of a with *)
(* the flags the caller passes (the memory order of an atomic load).      *)
(***************************************************************************)
LoadOrNew(ilix, a, flags, r) ==
  IF r.op # NoOp THEN r
  ELSE NewTmpInstr("load", ilix, <<VarOp(a)>>, flags, MakeTmps(r.c))

MakeLoad(ilix, a, flags, c) ==
  LoadOrNew(ilix, a, flags,
            IF CseOpt THEN FindLoadCse(ilix, a, c) ELSE [c |-> c, op |-> NoOp])

(***************************************************************************)
(* remove_instr: unlink the instruction at position k and drop one use of *)
(* each of its temporary operands.                                         *)
(***************************************************************************)
\* Mutant: the operand use counts are dropped twice.
RemoveInstrTwice(k, c) ==
  [c EXCEPT !.il = RemoveAt(@, k),
            !.uses = [t \in DOMAIN @ |-> @[t] - 2 * TmpUses(c.il[k], t)]]

\* Mutant: the operand use counts are not dropped.
RemoveInstrKeepUses(k, c) == [c EXCEPT !.il = RemoveAt(@, k)]

RemoveInstr(k, c) ==
  [c EXCEPT !.il = RemoveAt(@, k),
            !.uses = [t \in DOMAIN @ |-> @[t] - TmpUses(c.il[k], t)]]

(***************************************************************************)
(* remove_dead_instrs: from the last instruction back, delete a DELETABLE *)
(* store and any instruction other than a call or an atomicrmw that       *)
(* defines a temporary                                                     *)
(* no one uses.  Walking backward lets a use removed at k make the        *)
(* definition before k dead in the same walk.                              *)
(***************************************************************************)
IsDead(i, c) ==
  \/ IsDeletableStore(i)
  \/ i.name \notin {"call", "atomicrmw"} /\ i.tmp # 0 /\ c.uses[i.tmp] <= 0

RECURSIVE DceWalk(_, _)
DceWalk(k, c) ==
  IF k = 0 THEN c
  ELSE IF IsDead(c.il[k], c) THEN DceWalk(k - 1, RemoveInstr(k, c))
  ELSE DceWalk(k - 1, c)

RemoveDeadInstrs(c) == DceWalk(Len(c.il), c)

=============================================================================
