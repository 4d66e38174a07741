-------------------------------- MODULE CgFma --------------------------------
(***************************************************************************)
(* fma_rewrite of cgmain.c: the pass over the finished instruction list   *)
(* that turns a floating add or subtract with a multiply operand into a   *)
(* call of a fused multiply-add intrinsic.                                 *)
(*                                                                         *)
(* maybe_generate_fma appends the new instructions at the end of the      *)
(* list (ad_instr) and overwrite_fma_add moves all but the last of them   *)
(* in front of the add, then overwrites the add in place with the last    *)
(* one, so that the add's temporary, and every use of it, stays valid.   *)
(* The code is compiled for one of three targets:                          *)
(*                                                                         *)
(*   "x86"     TARGET_LLVM_X8664: x86 FMA intrinsics on vectors, add and  *)
(*             subtract, a negated multiply too                            *)
(*   "power"   TARGET_LLVM_POWER: VSX intrinsics, add and subtract, a     *)
(*             negated multiply too                                        *)
(*   "generic" neither: llvm.fma, add only                                 *)
(*                                                                         *)
(* Single and double precision take the same path; the model has one      *)
(* floating type.  A name stands for the intrinsic, without the "llvm."   *)
(* prefix and the .ss/.sd or sp/dp suffix.                                 *)
(***************************************************************************)
EXTENDS CgCse

CONSTANTS Arch

ASSUME Arch \in {"x86", "power", "generic"}

\* A negation of a multiply (only a candidate on x86 and POWER).
NegOfMul(y) == Arch # "generic" /\ IL[y].op = "fneg" /\ IL[IL[y].l].op = "fmul"

\* The opcodes fused_multiply_add_candidate takes (FSUB only on x86, POWER).
FmaRoot(x) == IL[x].op = "fadd" \/ (IL[x].op = "fsub" /\ Arch # "generic")

\* fused_multiply_add_candidate: the operand ILI that is the multiply.
FusedMultiplyAddCandidate(x) ==
  IF ~FmaRoot(x) THEN 0
  ELSE IF IL[IL[x].l].op = "fmul" THEN IL[x].l
  ELSE IF IL[IL[x].r].op = "fmul" THEN IL[x].r
  ELSE IF NegOfMul(IL[x].l) THEN IL[x].l
  ELSE IF NegOfMul(IL[x].r) THEN IL[x].r
  ELSE 0

(***************************************************************************)
(* get_mac_name: swap when the multiply is on the right, fneg when it is  *)
(* negated, and the intrinsic for the add or subtract.                     *)
(***************************************************************************)
\* Mutant: a subtract with the multiply on the right keeps the negation.
MacNameX86Swapped(op, swap, fneg) ==
  CASE op = "fadd"          -> IF fneg THEN "x86.vfnmadd" ELSE "x86.vfmadd"
    [] op = "fsub" /\ swap  -> IF fneg THEN "x86.vfnmadd" ELSE "x86.vfmadd"
    [] op = "fsub" /\ ~swap -> IF fneg THEN "x86.vfnmsub" ELSE "x86.vfmsub"

MacNameX86(op, swap, fneg) ==
  CASE op = "fadd"          -> IF fneg THEN "x86.vfnmadd" ELSE "x86.vfmadd"
    [] op = "fsub" /\ swap  -> IF fneg THEN "x86.vfmadd" ELSE "x86.vfnmadd"
    [] op = "fsub" /\ ~swap -> IF fneg THEN "x86.vfnmsub" ELSE "x86.vfmsub"

\* Mutant: the subtract ignores which side the multiply is on.
MacNamePowerNoSwap(op, swap, fneg) ==
  CASE op = "fadd" -> IF fneg THEN "ppc.xsnmsuba" ELSE "ppc.xsmadda"
    [] op = "fsub" -> IF fneg THEN "ppc.xsnmadda" ELSE "ppc.xsmsuba"

MacNamePower(op, swap, fneg) ==
  CASE op = "fadd"          -> IF fneg THEN "ppc.xsnmsuba" ELSE "ppc.xsmadda"
    [] op = "fsub" /\ swap  -> IF fneg THEN "ppc.xsmadda" ELSE "ppc.xsnmsuba"
    [] op = "fsub" /\ ~swap -> IF fneg THEN "ppc.xsnmadda" ELSE "ppc.xsmsuba"

GetMacName(x, matches) ==
  LET swap == matches = IL[x].r
      fneg == IL[matches].op = "fneg"
  IN [swap |-> swap, fneg |-> fneg,
      name |-> IF Arch = "x86" THEN MacNameX86(IL[x].op, swap, fneg)
               ELSE MacNamePower(IL[x].op, swap, fneg)]

\* info.idef: the position of the instruction that defines temporary t.
DefPos(il, t) == SelectInSeq(il, LAMBDA i : i.tmp = t)
Def(il, o) == il[DefPos(il, o.v)]

\* fma_mult_has_mult_uses: not a temporary, or used more than once.
\* Mutant: a multiply used twice still counts as used once.
FmaMultHasMultUsesOffByOne(o, c) == o.ot # "tmp" \/ c.uses[o.v] > 2

FmaMultHasMultUses(o, c) == o.ot # "tmp" \/ c.uses[o.v] > 1

(***************************************************************************)
(* overwrite_fma_add: the instructions appended after position last are   *)
(* cut off; all but the last (newFma) go in front of the add at p, and    *)
(* the add takes newFma's name, ilix, flags and operands.  Every          *)
(* temporary operand of the result gets 100 more uses, so that            *)
(* remove_dead_instrs keeps the FMA's arguments.                           *)
(***************************************************************************)
FmaOverwritten(add, fma) ==
  [add EXCEPT !.name = fma.name, !.ilix = fma.ilix, !.flags = fma.flags,
              !.ops = fma.ops]

\* Mutant: the moved instructions land after the add instead of before.
OverwriteFmaAddAfter(p, last, c) ==
  LET seg == SubSeq(c.il, last + 1, Len(c.il))
      new == FmaOverwritten(c.il[p], seg[Len(seg)])
  IN [c EXCEPT !.il = SubSeq(@, 1, p - 1) \o <<new>>
                        \o SubSeq(seg, 1, Len(seg) - 1) \o SubSeq(@, p + 1, last),
               !.uses = [t \in DOMAIN @ |-> @[t] + 100 * TmpUses(new, t)]]

OverwriteFmaAdd(p, last, c) ==
  LET seg == SubSeq(c.il, last + 1, Len(c.il))
      new == FmaOverwritten(c.il[p], seg[Len(seg)])
  IN [c EXCEPT !.il = SubSeq(@, 1, p - 1) \o SubSeq(seg, 1, Len(seg) - 1)
                        \o <<new>> \o SubSeq(@, p + 1, last),
               !.uses = [t \in DOMAIN @ |-> @[t] + 100 * TmpUses(new, t)]]

\* fmaop->tmps->use_count++ on the temporary the last instruction defines.
CountResult(c) == [c EXCEPT !.uses[c.ntmp] = @ + 1]

(***************************************************************************)
(* The intrinsic call (gen_call_llvm_intrinsic: an I_PICALL of the callee *)
(* and the arguments), then on x86 the extractelement of lane 0 of its    *)
(* vector result; the overwrite follows.                                   *)
(***************************************************************************)
FmaCall(name, args, c) ==
  LET d == MakeTmps(c)
  IN AdInstr(0, GenInstr("picall", d.ntmp, <<FnOp(name)>> \o args, {}), d)

ExtractLane0(c) ==
  LET d == MakeTmps(c)
  IN AdInstr(0, GenInstr("extractelement", d.ntmp, <<TmpOp(c.ntmp), ConOp(0)>>, {}), d)

FmaResult(p, last, c) ==
  OverwriteFmaAdd(p, last,
    CountResult(IF Arch = "x86" THEN ExtractLane0(CountResult(c)) ELSE c))

(***************************************************************************)
(* x86_promote_to_vector: each argument goes into lane 0 of an undef      *)
(* vector by an insertelement of a copy of it, in order.                   *)
(***************************************************************************)
InsertLane0(o, c) ==
  LET d == MakeTmps(c)
  IN AdInstr(0, GenInstr("insertelement", d.ntmp, <<UndefOp, o, ConOp(0)>>, {}), d)

PromoteArgs(args, c) ==
  FoldLeft(LAMBDA acc, o : [c |-> InsertLane0(o, acc.c),
                            ops |-> Append(acc.ops, TmpOp(acc.c.ntmp + 1))],
           [c |-> c, ops |-> <<>>], args)

PromotedCall(name, pr, p, last) == FmaResult(p, last, FmaCall(name, pr.ops, pr.c))

\* The arguments of the call: the multiply's operands and the addend.
\* Mutant: the addend is passed second, not third.
FmaArgsMisordered(lOps, r) == <<lOps[1], r, lOps[2]>>

FmaArgs(lOps, r) == <<lOps[1], lOps[2], r>>

(***************************************************************************)
(* The rest of maybe_generate_fma once the candidate passed: the         *)
(* multiply's operand list gets the addend appended (l_r->next = r), the  *)
(* use count of the left operand drops by one, and the call is made.     *)
(***************************************************************************)
FuseMul(mpos, l, r, name, p, last, c) ==
  LET lOps == c.il[mpos].ops
      c1 == [c EXCEPT !.il[mpos].ops = FmaArgs(lOps, r),
                      !.uses[l.v] = @ - 1]
  IN IF Arch = "x86"
     THEN PromotedCall(name, PromoteArgs(FmaArgs(lOps, r), c1), p, last)
     ELSE FmaResult(p, last, FmaCall(name, FmaArgs(lOps, r), c1))

\* x86 and POWER: get_mac_name, swap, and skip a negation to its multiply.
FuseTarget(x, matches, ops, p, c) ==
  LET mac == GetMacName(x, matches)
      l == IF mac.swap THEN ops[2] ELSE ops[1]
      r == IF mac.swap THEN ops[1] ELSE ops[2]
      mul == IF mac.fneg THEN Def(c.il, l).ops[2] ELSE l
  IN FuseMul(DefPos(c.il, mul.v), l, r, mac.name, p, Len(c.il), c)

(***************************************************************************)
(* fused_multiply_add_canonical_form, generic target: the multiply is put *)
(* on the left.  Its subtract and negation branches need an FSUB or FNEG  *)
(* candidate, which only the x86 and POWER builds make, and are dead code *)
(* where the function is compiled.                                         *)
(***************************************************************************)
FuseGeneric(x, matches, ops, p, c) ==
  LET l == IF matches = IL[x].r THEN ops[2] ELSE ops[1]
      r == IF matches = IL[x].r THEN ops[1] ELSE ops[2]
  IN FuseMul(DefPos(c.il, l.v), l, r, "fma", p, Len(c.il), c)

\* killCSE is set and the CSE list cleared before the rewrite.
FuseAt(x, matches, p, c) ==
  LET c1 == ClearCsedList(c)
  IN IF Arch = "generic" THEN FuseGeneric(x, matches, c.il[p].ops, p, c1)
     ELSE FuseTarget(x, matches, c.il[p].ops, p, c1)

\* The early returns of maybe_generate_fma.
FmaRejected(x, matches, ops, c) ==
  LET l == IF matches = IL[x].l THEN ops[1] ELSE ops[2]
  IN \/ FmaMultHasMultUses(l, c)
     \/ IL[matches].op = "fneg" /\ FmaMultHasMultUses(Def(c.il, l).ops[2], c)

MaybeGenerateFma(p, c) ==
  LET x == c.il[p].ilix
      matches == IF IL[x].l = IL[x].r THEN 0 ELSE FusedMultiplyAddCandidate(x)
  IN IF matches = 0 THEN c
     ELSE IF FmaRejected(x, matches, c.il[p].ops, c) THEN c
     ELSE FuseAt(x, matches, p, c)

(***************************************************************************)
(* fma_rewrite: every instruction with an ILI, a temporary with uses and  *)
(* operands is tried, in list order.  The walk goes on after the add,     *)
(* past the instructions moved in front of it.                             *)
(***************************************************************************)
FmaTry(i, c) == i.ilix # 0 /\ i.tmp # 0 /\ i.ops # <<>> /\ c.uses[i.tmp] > 0

RECURSIVE FmaWalk(_, _)
FmaStep(p, len0, c) == FmaWalk(p + 1 + Len(c.il) - len0, c)
FmaWalk(p, c) ==
  IF p > Len(c.il) THEN c
  ELSE IF FmaTry(c.il[p], c) THEN FmaStep(p, Len(c.il), MaybeGenerateFma(p, c))
  ELSE FmaWalk(p + 1, c)

FmaRewrite(c) == FmaWalk(1, c)

-----------------------------------------------------------------------------
(***************************************************************************)
(* What an instruction list computes, for the properties: a load of a     *)
(* reads InitVal[a] (the programs checked store to no variable they       *)
(* load), a constant is 0 (-0.0 and the lane index), and an intrinsic     *)
(* computes what its target's manual says.  Exact integers stand for the  *)
(* floating values, so the check is about the algebra of the rewrite and  *)
(* not about rounding.  A temporary with no definition has the value      *)
(* Undefined.                                                              *)
(***************************************************************************)
CONSTANTS InitVal

Undefined == -1000000

IntrinsicVal(n, a, b, k) ==
  CASE n \in {"fma", "x86.vfmadd", "ppc.xsmadda"} -> a * b + k
    [] n \in {"x86.vfmsub", "ppc.xsmsuba"}         -> a * b - k
    [] n = "x86.vfnmadd"                           -> -(a * b) + k
    [] n = "x86.vfnmsub"                           -> -(a * b) - k
    [] n = "ppc.xsnmadda"                          -> -(a * b + k)
    [] n = "ppc.xsnmsuba"                          -> -(a * b - k)

RECURSIVE OpVal(_, _), InstrVal(_, _)
OpVal(il, o) ==
  IF o.ot # "tmp" THEN 0
  ELSE IF DefPos(il, o.v) = 0 THEN Undefined
  ELSE InstrVal(il, Def(il, o))

InstrVal(il, i) ==
  CASE i.name = "load"           -> InitVal[i.ops[1].v]
    [] i.name = "fmul"           -> OpVal(il, i.ops[1]) * OpVal(il, i.ops[2])
    [] i.name = "fadd"           -> OpVal(il, i.ops[1]) + OpVal(il, i.ops[2])
    [] i.name = "fsub"           -> OpVal(il, i.ops[1]) - OpVal(il, i.ops[2])
    [] i.name = "insertelement"  -> OpVal(il, i.ops[2])
    [] i.name = "extractelement" -> OpVal(il, i.ops[1])
    [] i.name = "picall"         -> IntrinsicVal(i.ops[1].v, OpVal(il, i.ops[2]),
                                      OpVal(il, i.ops[3]), OpVal(il, i.ops[4]))

=============================================================================
