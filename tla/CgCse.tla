-------------------------------- MODULE CgCse --------------------------------
(***************************************************************************)
(* Expression lowering of cgmain.c with its common-subexpression state:   *)
(*                                                                         *)
(*   csedList / CSED_ITEM  the ILIs the IL_CSE opcodes refer to, each  *)
(*                         with the operand of its last evaluation    *)
(*   ILI_COUNT             how often an ILI was evaluated; only "is it    *)
(*                         zero" is ever tested, so the model keeps the   *)
(*                         set of ILIs whose count is not zero            *)
(*   tempsMap              ILI -> temporary of its last evaluation        *)
(*                                                                         *)
(* and gen_llvm_expr restricted to the ILI forms the model's programs     *)
(* use: a load, an integer or floating add, subtract or multiply and a    *)
(* floating negation (gen_binary_expr), a CSE reference, a define/free of *)
(* a call result, a call, a constant, an atomic load, an atomicrmw, a     *)
(* cmpxchg and its two components.                                        *)
(*                                                                         *)
(* The ILI table IL maps an ILI number to [op, a, l, r]: its opcode, the  *)
(* address it loads or stores, and its left and right link operands (0:   *)
(* none).                                                                  *)
(***************************************************************************)
EXTENDS CgAtomic

CONSTANTS IL

Ili == DOMAIN IL

IsCseIli(x) == IL[x].op = "cse"

(***************************************************************************)
(* build_csed_list / add_to_cselist: every ILI a CSE ILI refers to gets a *)
(* list item with no operand.  A target already on the list ends the      *)
(* walk below that CSE ILI.                                                *)
(***************************************************************************)
RECURSIVE BuildCsedList(_, _), BuildLinks(_, _)
BuildLinks(x, c) ==
  LET c1 == IF IL[x].l # 0 THEN BuildCsedList(IL[x].l, c) ELSE c
  IN IF IL[x].r # 0 THEN BuildCsedList(IL[x].r, c1) ELSE c1

BuildCsedList(x, c) ==
  IF IsCseIli(x) /\ IL[x].l \in DOMAIN c.csed THEN c
  ELSE BuildLinks(x, IF IsCseIli(x)
                     THEN [c EXCEPT !.csed = (IL[x].l :> NoOp) @@ @]
                     ELSE c)

\* add_to_cselist for a call target of a define ILI (not via a CSE ILI).
AddToCselist(t, c) ==
  IF t \in DOMAIN c.csed THEN c
  ELSE BuildCsedList(t, [c EXCEPT !.csed = (t :> NoOp) @@ @])

\* set_csed_operand
SetCsedOperand(t, op, c) == [c EXCEPT !.csed[t] = op]

(***************************************************************************)
(* clear_csed_list: every item forgets its operand and its ILI count      *)
(* drops to zero, so the next CSE reference evaluates the ILI again.      *)
(***************************************************************************)
\* Mutant: clear_csed_list is not called.
ClearCsedListSkipped(c) == c

\* Mutant: the items lose their operands but the ILI counts stay.
ClearCsedListKeepCount(c) == [c EXCEPT !.csed = [t \in DOMAIN @ |-> NoOp]]

ClearCsedList(c) ==
  [c EXCEPT !.csed = [t \in DOMAIN @ |-> NoOp],
            !.cnt  = @ \ DOMAIN c.csed]

(***************************************************************************)
(* remove_from_csed_list(ili): reset the item of ili and of every ILI     *)
(* below it, not descending through a CSE ILI.                             *)
(***************************************************************************)
RECURSIVE RemoveFromCsedList(_, _), RemoveLinks(_, _)
RemoveLinks(x, c) ==
  LET c1 == IF IL[x].l # 0 THEN RemoveFromCsedList(IL[x].l, c) ELSE c
  IN IF IL[x].r # 0 THEN RemoveFromCsedList(IL[x].r, c1) ELSE c1

RemoveFromCsedList(x, c) ==
  IF IsCseIli(x) /\ DOMAIN c.csed # {} THEN c
  ELSE RemoveLinks(x, IF x \in DOMAIN c.csed
                      THEN [c EXCEPT !.csed[x] = NoOp, !.cnt = @ \ {x}]
                      ELSE c)

(***************************************************************************)
(* The tail of gen_llvm_expr: the operand becomes the list item's operand *)
(* when x is on the list, ILI_COUNT(x) goes up and the temporary is       *)
(* recorded in tempsMap (setTempMap keeps only temporaries).              *)
(***************************************************************************)
EndExpr(x, r) ==
  [c  |-> [r.c EXCEPT
             !.csed = IF x \in DOMAIN @ THEN [@ EXCEPT ![x] = r.op] ELSE @,
             !.cnt  = @ \cup {x},
             !.tmap[x] = IF r.op.ot = "tmp" THEN r.op.v ELSE 0],
   op |-> r.op]

\* gen_call_expr: a call instruction whose result is a new temporary.
GenCallExpr(x, c) == NewTmpInstr("call", x, <<>>, {}, MakeTmps(c))

(***************************************************************************)
(* gen_llvm_expr(x) and its define case (_process_define_ili).            *)
(*   CSE ILI: a target whose count is zero is evaluated again, otherwise  *)
(*   the item's operand is copied (asserted not null).                    *)
(*   define/free of t: t not on the list is evaluated and added; a t with *)
(*   count zero or no operand is evaluated again; otherwise copied.       *)
(***************************************************************************)
\* The result r of evaluating t becomes t's list item operand.
DefineResult(t, r, c) == [c |-> SetCsedOperand(t, r.op, c), op |-> r.op]

\* The IL_CSE case once the target t has been evaluated.
CseCopy(t, c) ==
  LET op == IF t \in DOMAIN c.csed THEN c.csed[t] ELSE NoOp
  IN [c |-> [c EXCEPT !.cseAssert = @ \/ op = NoOp], op |-> op]

RECURSIVE Lower(_, _), LowerDefine(_, _), DefineNew(_, _), DefineAgain(_, _),
          LowerBinary(_, _), LowerNeg(_, _), LowerBinary2(_, _, _),
          LowerAtomicrmw(_, _), LowerCmpxchg(_, _), LowerCmpxchg2(_, _),
          LowerCse(_, _), LowerCmpxchgComponent(_, _)
DefineNew(t, r) == DefineResult(t, r, AddToCselist(t, r.c))
DefineAgain(t, r) == DefineResult(t, r, r.c)

LowerDefine(t, c) ==
  IF t \notin DOMAIN c.csed THEN DefineNew(t, Lower(t, c))
  ELSE IF t \notin c.cnt THEN Lower(t, c)
  ELSE IF c.csed[t] = NoOp THEN DefineAgain(t, Lower(t, c))
  ELSE [c |-> c, op |-> c.csed[t]]

(***************************************************************************)
(* gen_binary_expr: the left operand, the right operand, then             *)
(* ad_csed_instr.  The instruction is I_ADD, I_FADD, I_FSUB or I_FMUL as  *)
(* gen_llvm_expr passes it for the opcode.  A negation is a subtraction   *)
(* from the constant -0.0 (the FCON ILI of stb.fltm0), whose lowering     *)
(* emits no instruction.                                                   *)
(***************************************************************************)
BinInstr(x) == IF IL[x].op = "fneg" THEN "fsub" ELSE IL[x].op

NegZero == ConOp(-1)

LowerBinary2(x, op1, r2) ==
  AdCsedInstr(BinInstr(x), x, <<op1, r2.op>>, {}, TRUE, r2.c)
LowerBinary(x, r1) == LowerBinary2(x, r1.op, Lower(IL[x].r, r1.c))
LowerNeg(x, c) == LowerBinary2(x, NegZero, Lower(IL[x].l, c))

(***************************************************************************)
(* The atomic cases: an atomicrmw lowers its address and then its value;  *)
(* a cmpxchg found in tempsMap is reused, otherwise its address, the      *)
(* comparand and the new value are lowered; a component lowers the        *)
(* cmpxchg and extracts element 0 (the old value) or 1 (success).         *)
(***************************************************************************)
LowerAtomicrmw(x, c) == AtomicrmwInstr(x, IL[x], Lower(IL[x].l, c))

LowerCmpxchg2(x, r1) == CmpxchgInstr(x, IL[x], r1.op, Lower(IL[x].r, r1.c))
LowerCmpxchg(x, c) ==
  IF c.tmap[x] # 0 THEN CmpxchgFromTempMap(x, c)
  ELSE LowerCmpxchg2(x, Lower(IL[x].l, c))

(***************************************************************************)
(* The cases of gen_llvm_expr's switch.  A plain load takes no order      *)
(* flags; an atomic load takes the order and scope of its ILI.  A CSE ILI *)
(* whose target has count zero evaluates the target again, otherwise it   *)
(* copies the target's list item operand.  A cmpxchg component lowers     *)
(* the cmpxchg and extracts element 0 (old value) or 1 (success).          *)
(***************************************************************************)
LowerLd(x, c) == MakeLoad(x, IL[x].a, {}, c)

LowerAtomicLd(x, c) ==
  MakeLoad(x, IL[x].a, LlInstrFlagsForMemoryOrderAndScope(IL[x]), c)

LowerCse(x, c) ==
  IF IL[x].l \notin c.cnt THEN Lower(IL[x].l, c) ELSE CseCopy(IL[x].l, c)

LowerCmpxchgComponent(x, c) ==
  ExtractValue(IF IL[x].op = "cxold" THEN 0 ELSE 1, Lower(IL[x].l, c))

Lower(x, c) ==
  EndExpr(x,
    CASE IL[x].op = "con" -> [c |-> c, op |-> ConOp(x)]
      [] IL[x].op = "ld"  -> LowerLd(x, c)
      [] IL[x].op = "ald" -> LowerAtomicLd(x, c)
      [] IL[x].op = "rmw" -> LowerAtomicrmw(x, c)
      [] IL[x].op = "cx"  -> LowerCmpxchg(x, c)
      [] IL[x].op \in {"cxold", "cxok"} -> LowerCmpxchgComponent(x, c)
      [] IL[x].op \in {"add", "fadd", "fsub", "fmul"} ->
                             LowerBinary(x, Lower(IL[x].l, c))
      [] IL[x].op = "fneg" -> LowerNeg(x, c)
      [] IL[x].op = "cse" -> LowerCse(x, c)
      [] IL[x].op = "jsr" -> GenCallExpr(x, c)
      [] IL[x].op \in {"dfr", "free"} -> LowerDefine(IL[x].l, c))

(***************************************************************************)
(* gen_llvm_expr of a compare-with-zero jump ILI: a condition-code        *)
(* operand list (cc, the lowered operand, the constant 0); the ILI's      *)
(* tempsMap entry is cleared, as the condition code has no temporary.     *)
(***************************************************************************)
CcOp == [ot |-> "cc", v |-> 0]

CmpResult(x, r1) ==
  [c |-> EndExpr(x, [c |-> r1.c, op |-> CcOp]).c, ops |-> <<CcOp, r1.op, ConOp(0)>>]

GenCmpExpr(x, c) == CmpResult(x, Lower(IL[x].l, c))

(***************************************************************************)
(* cancel_store: a store of a load (possibly through a CSE ILI) of its    *)
(* own address is not emitted.                                             *)
(***************************************************************************)
CancelStore(x) ==
  LET v == IF IsCseIli(IL[x].l) THEN IL[IL[x].l].l ELSE IL[x].l
  IN IL[v].op = "ld" /\ IL[v].a = IL[x].a

=============================================================================
