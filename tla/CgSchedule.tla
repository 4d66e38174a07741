------------------------------ MODULE CgSchedule ------------------------------
(***************************************************************************)
(* schedule() of cgmain.c: the statement scheduler that walks the basic   *)
(* blocks (BIH) of a routine and their statements (ILT) in program order, *)
(* lowers each statement with make_stmt, and after the last block runs    *)
(* dead-code elimination over the finished instruction list.              *)
(*                                                                         *)
(* A program is a sequence of blocks [lab, tail, stmts]:                   *)
(*   lab    "join"  a label that is a branch target (DEFDG or CCSYMG)     *)
(*          "unref" a label nothing branches to                           *)
(*          "none"  no label                                              *)
(*          "entry" an entry block (BIH_EN); its first ILT, the entry,    *)
(*          is not in stmts, and it has no BIH_LABEL                      *)
(*   tail   BIH_TAIL                                                       *)
(*   stmts  the ILTs: [ili, del], del being ILT_DELETE                    *)
(* gbl.entries lists the entry blocks in program order.  Parallel regions *)
(* are not in the model; blocks share PAR/CS/TASK, and only entry blocks  *)
(* may have NOMERGE.                                                       *)
(***************************************************************************)
EXTENDS CgFma, CgPrinter

CONSTANTS
  Programs,     \* the routines to lower
  GenerateFma,  \* XBIT_GENERATE_SCALAR_FMA and LLVM 3.7 or later
  Choice,       \* the homed master-entry-choice argument
  EntryNoMerge  \* whether the front end gives entry blocks BIH_NOMERGE

VARIABLES
  prog,    \* the routine being lowered
  cg,      \* the lowering context (instruction list, CSE state, flags)
  bih,     \* the block being lowered
  ilt,     \* the statement of bih being lowered; 0 before the block head
  merge,   \* merge_next_block
  phase,   \* "lower", then "done" once the instruction list is final
  built,   \* the instruction list as scheduled, before remove_dead_instrs
  out,     \* the tokens write_instructions printed
  atext    \* the lines it printed for the atomic operations

vars == <<prog, cg, bih, ilt, merge, phase, built, out, atext>>

Block(k) == prog[k]
Stmt == Block(bih).stmts[ilt]
LastBih == Len(prog)

(***************************************************************************)
(* The first loop of schedule(): build_csed_list over every statement of  *)
(* the routine, before any block is lowered.                               *)
(***************************************************************************)
BuildStmts(c, stmts) == FoldLeft(LAMBDA acc, s : BuildCsedList(s.ili, acc), c, stmts)
BuildRoutine(c, p) == FoldLeft(LAMBDA acc, b : BuildStmts(acc, b.stmts), c, p)

\* The routine's list opens with label 0 (ad_instr of an I_NONE).
InitCg ==
  [il |-> <<[MkLabel("entry") EXCEPT !.id = 1]>>, uses |-> <<>>, ntmp |-> 0,
   nid |-> 1, newEbb |-> FALSE,
   dbgFail |-> FALSE, csed |-> <<>>, cnt |-> {}, tmap |-> [x \in Ili |-> 0],
   cseAssert |-> FALSE, lastBr |-> FALSE, madeRet |-> FALSE, rd |-> {},
   exf |-> {}]

Init ==
  /\ prog \in Programs
  /\ cg = BuildRoutine(InitCg, prog)
  /\ bih = 1
  /\ ilt = 0
  /\ merge = FALSE
  /\ phase = "lower"
  /\ built = <<>>
  /\ out = <<>>
  /\ atext = <<>>

(***************************************************************************)
(* make_stmt(STMT_LABEL): a label instruction.  The preamble of every     *)
(* other make_stmt: after a branch or return, code needs a label of its   *)
(* own, so a fresh (dead) label is made first.                             *)
(***************************************************************************)
MakeLabel(kind, c) == [AdInstr(0, MkLabel(kind), c) EXCEPT !.lastBr = FALSE]

StmtPreamble(c) ==
  [IF c.lastBr THEN MakeLabel("dead", c) ELSE c EXCEPT !.lastBr = FALSE]

\* The step to the next statement, or to the next block after the last.
Advance ==
  IF ilt < Len(Block(bih).stmts)
  THEN bih' = bih /\ ilt' = ilt + 1
  ELSE bih' = bih + 1 /\ ilt' = 0

Lowering == phase = "lower" /\ bih <= LastBih /\ ilt >= 1

(***************************************************************************)
(* Block head: a branch-target label clears the CSE list and is emitted; *)
(* unless this block was merged with the previous one a new extended     *)
(* basic block starts; merge_next_block is computed for the next block.  *)
(***************************************************************************)
NoMerge(k) == Block(k).lab = "entry" /\ EntryNoMerge

\* Mutant: BIH_NOMERGE of the next block is not tested.
MergeNextIntoNoMerge(k) ==
  /\ \/ Opt = 1 /\ Block(k).lab = "entry"
     \/ Opt >= 2 /\ ~Block(k).tail
  /\ k < LastBih
  /\ Block(k + 1).lab \in {"none", "entry"}
  /\ ~NoMerge(k)

MergeNext(k) ==
  /\ \/ Opt = 1 /\ Block(k).lab = "entry"
     \/ Opt >= 2 /\ ~Block(k).tail
  /\ k < LastBih
  /\ Block(k + 1).lab \in {"none", "entry"}
  /\ ~NoMerge(k) /\ ~NoMerge(k + 1)

\* The label of a branch-target block clears the CSE list.
BlockLabel(b, c) == IF b.lab = "join" THEN MakeLabel("join", ClearCsedList(c)) ELSE c
\* Unless the block was merged with the previous one, a new EBB starts.
BlockEbb(c) == IF merge THEN c ELSE [c EXCEPT !.newEbb = TRUE]

(***************************************************************************)
(* The entry ILT of an entry block, when the routine has several entries: *)
(* at the first entry block insert_jump_entry_instr adds, for each entry  *)
(* of gbl.entries with val counting from 0, a load of the choice          *)
(* argument, a compare of it with val (its temporary gets an extra use), *)
(* a branch to the entry or to a fresh label, and that label; then        *)
(* insert_entry_label adds the entry's label.  All go in with ad_instr(0).*)
(***************************************************************************)
GblEntries == SelectSeq([k \in 1..LastBih |-> k], LAMBDA k : prog[k].lab = "entry")

HasMultipleEntries == Len(GblEntries) > 1

DispatchBr(e, t, c) ==
  AdInstr(0, MkLabel("disp"),
          AdInstr(0, GenInstr("br", 0, <<TmpOp(t), LblOp(e), LblOp(0)>>, {}), c))

DispatchCmp(e, val, ld, c) ==
  DispatchBr(e, c.ntmp,
    AdInstr(0, GenInstr("icmp", c.ntmp, <<CcOp, ld, ConOp(val)>>, {}),
            [c EXCEPT !.uses[c.ntmp] = 1]))

DispatchTest(e, val, r) == DispatchCmp(e, val, r.op, MakeTmps(r.c))

DispatchEntry(e, val, c) ==
  DispatchTest(e, val, NewTmpInstr("load", 0, <<VarOp(Choice)>>, {}, MakeTmps(c)))

\* Mutant: the first entry is tested against 1.
InsertJumpEntryInstrFromOne(c) ==
  FoldLeft(LAMBDA acc, k : DispatchEntry(GblEntries[k], k, acc), c,
           [k \in 1..Len(GblEntries) |-> k])

InsertJumpEntryInstr(c) ==
  FoldLeft(LAMBDA acc, k : DispatchEntry(GblEntries[k], k - 1, acc), c,
           [k \in 1..Len(GblEntries) |-> k])

InsertEntryLabel(k, c) == AdInstr(0, [MkLabel("en") EXCEPT !.ops = <<LblOp(k)>>], c)

EntryIlt(k, c) ==
  IF Block(k).lab # "entry" \/ ~HasMultipleEntries THEN c
  ELSE InsertEntryLabel(k, IF k = GblEntries[1] THEN InsertJumpEntryInstr(c) ELSE c)

EnterBlock ==
  /\ phase = "lower" /\ bih <= LastBih /\ ilt = 0
  /\ cg' = EntryIlt(bih, BlockEbb(BuildStmts(BlockLabel(Block(bih), cg), Block(bih).stmts)))
  /\ merge' = MergeNext(bih)
  /\ ilt' = 1
  /\ UNCHANGED <<prog, bih, phase, built, out, atext>>

(***************************************************************************)
(* STMT_ST: unless cancel_store drops it, lower the stored value and add  *)
(* a store, DELETABLE when ILT_DELETE is set and CSE is on.  An atomic    *)
(* store (an opcode with IL_HAS_FENCE) also gets its memory order, scope  *)
(* and volatile flags.                                                     *)
(***************************************************************************)
StoreFlags(x, del) ==
  (IF IL[x].op = "ast"
   THEN LlInstrFlagsForMemoryOrderAndScope(IL[x]) \cup VolatileFlag(IL[x]) ELSE {})
  \cup (IF CseOpt /\ del THEN {"deletable"} ELSE {})

StoreInstr(x, del, r) ==
  AdInstr(x, GenInstr("store", 0, <<r.op, VarOp(IL[x].a)>>, StoreFlags(x, del)), r.c)

LowerStore(x, del, c) ==
  IF CancelStore(x) THEN c ELSE StoreInstr(x, del, Lower(IL[x].l, c))

StmtStore ==
  /\ Lowering
  /\ IL[Stmt.ili].op \in {"st", "ast"}
  /\ cg' = LowerStore(Stmt.ili, Stmt.del, StmtPreamble(cg))
  /\ Advance
  /\ UNCHANGED <<prog, merge, phase, built, out, atext>>

(***************************************************************************)
(* STMT_CALL: a call statement (a JSR, or a define ILI of one) is skipped *)
(* when tempsMap already holds a temporary for the JSR.                   *)
(***************************************************************************)
CallIli(x) == IF IL[x].op = "dfr" THEN IL[x].l ELSE x

LowerCall(j, c) == IF c.tmap[j] # 0 THEN c ELSE GenCallExpr(j, c).c

StmtCall ==
  /\ Lowering
  /\ IL[Stmt.ili].op \in {"jsr", "dfr"}
  /\ cg' = LowerCall(CallIli(Stmt.ili), StmtPreamble(cg))
  /\ Advance
  /\ UNCHANGED <<prog, merge, phase, built, out, atext>>

(***************************************************************************)
(* STMT_SMOVE and STMT_SZERO: a block copy (IL_SMOVE) and a call of       *)
(* __c_bzero (cgmain_init_call) become calls of llvm.memcpy and           *)
(* llvm.memset, intrinsic calls with no temporary.  An SMOVE ILI has the  *)
(* destination a, the source src, the length len in 8-byte units (make_  *)
(* stmt multiplies it by 8) and the alignment of the source's type; a     *)
(* bzero has the destination a and its length in bytes.  Lowering the     *)
(* address ILIs (source first) emits no instruction.  The first memcpy    *)
(* and the first memset of the file add their declaration to the          *)
(* external function list (the statics memcpy_defined, memset_defined).   *)
(***************************************************************************)
\* add_external_function_declaration of the intrinsic f, once per file.
DeclareIntrinsic(f, c) == [c EXCEPT !.exf = @ \cup {f}]

IntrinsicCall(x, f, args, c) ==
  DeclareIntrinsic(f,
    AdInstr(x, GenInstr("call", 0, <<FnOp(f)>> \o args, {"intrinsic"}), c))

InsertLlvmMemcpy(x, dst, src, len, align, c) ==
  IntrinsicCall(x, "memcpy", <<dst, src, ConOp(len), ConOp(align), ConOp(0)>>, c)

InsertLlvmMemset(x, dst, len, c) ==
  IntrinsicCall(x, "memset", <<dst, ConOp(0), ConOp(len), ConOp(1), ConOp(0)>>, c)

StmtSmove ==
  /\ Lowering
  /\ IL[Stmt.ili].op = "smove"
  /\ cg' = InsertLlvmMemcpy(Stmt.ili, VarOp(IL[Stmt.ili].a), VarOp(IL[Stmt.ili].src),
                            IL[Stmt.ili].len * 8, IL[Stmt.ili].align, StmtPreamble(cg))
  /\ Advance
  /\ UNCHANGED <<prog, merge, phase, built, out, atext>>

StmtSzero ==
  /\ Lowering
  /\ IL[Stmt.ili].op = "bzero"
  /\ cg' = InsertLlvmMemset(Stmt.ili, VarOp(IL[Stmt.ili].a), IL[Stmt.ili].len,
                            StmtPreamble(cg))
  /\ Advance
  /\ UNCHANGED <<prog, merge, phase, built, out, atext>>

(***************************************************************************)
(* A free ILI: remove_from_csed_list, then STMT_DECL of the lowered ILI.  *)
(***************************************************************************)
DeclInstr(x, r) == AdInstr(x, GenInstr("decl", 0, <<r.op>>, {}), r.c)

StmtFree ==
  /\ Lowering
  /\ IL[Stmt.ili].op = "free"
  /\ cg' = DeclInstr(Stmt.ili,
              Lower(Stmt.ili, StmtPreamble(RemoveFromCsedList(Stmt.ili, cg))))
  /\ Advance
  /\ UNCHANGED <<prog, merge, phase, built, out, atext>>

(***************************************************************************)
(* Any other ILI of a statement with ILT_EX (an atomicrmw, a cmpxchg or a *)
(* component of one): STMT_DECL of the lowered ILI.                       *)
(***************************************************************************)
StmtDecl ==
  /\ Lowering
  /\ IL[Stmt.ili].op \in {"rmw", "cx", "cxok", "cxold"}
  /\ cg' = DeclInstr(Stmt.ili, Lower(Stmt.ili, StmtPreamble(cg)))
  /\ Advance
  /\ UNCHANGED <<prog, merge, phase, built, out, atext>>

(***************************************************************************)
(* IL_FENCE: gen_llvm_fence_instruction adds the fence with ilix 0,       *)
(* outside make_stmt.                                                      *)
(***************************************************************************)
StmtFence ==
  /\ Lowering
  /\ IL[Stmt.ili].op = "fence"
  /\ cg' = GenLlvmFenceInstruction(IL[Stmt.ili], cg)
  /\ Advance
  /\ UNCHANGED <<prog, merge, phase, built, out, atext>>

(***************************************************************************)
(* STMT_BR of an unconditional jump.                                       *)
(***************************************************************************)
StmtJump ==
  /\ Lowering
  /\ IL[Stmt.ili].op = "jmp"
  /\ cg' = [AdInstr(Stmt.ili, GenInstr("br", 0, <<LblOp(IL[Stmt.ili].a)>>, {}),
                    StmtPreamble(cg))
              EXCEPT !.lastBr = TRUE]
  /\ Advance
  /\ UNCHANGED <<prog, merge, phase, built, out, atext>>

(***************************************************************************)
(* STMT_BR of an IL_JMPM: gen_switch lowers the switched value, then adds *)
(* a switch on it with the default label and a (value, label) pair for    *)
(* each element of the switch table, in its order.  Unlike a jump, no     *)
(* label is made after it.  The table sw is a sequence of <<val, block>>. *)
(***************************************************************************)
CaseOps(cases) == FoldLeft(LAMBDA ops, e : ops \o <<ConOp(e[1]), LblOp(e[2])>>, <<>>, cases)

GenSwitch(x, r) ==
  AdInstr(x, GenInstr("sw", 0, <<r.op, LblOp(IL[x].a)>> \o CaseOps(IL[x].sw), {}), r.c)

StmtSwitch ==
  /\ Lowering
  /\ IL[Stmt.ili].op = "jmpm"
  /\ cg' = [GenSwitch(Stmt.ili, Lower(IL[Stmt.ili].l, StmtPreamble(cg))) EXCEPT !.lastBr = TRUE]
  /\ Advance
  /\ UNCHANGED <<prog, merge, phase, built, out, atext>>

(***************************************************************************)
(* STMT_BR of a compare-with-zero jump: a compare into a new temporary,  *)
(* a two-way branch, and the label of the false edge, which is the next  *)
(* block's label when this is the block's last statement and the next    *)
(* block starts with a branch-target label (next_bih_label).              *)
(***************************************************************************)
NextBihLabel ==
  ilt = Len(Block(bih).stmts) /\ bih < LastBih /\ Block(bih + 1).lab = "join"

\* The two-way branch on temporary t; without a next-block label the false
\* edge goes to a fresh label made right after it.
CondBranch(x, t, c) ==
  IF NextBihLabel
  THEN AdInstr(x, GenInstr("br", 0, <<TmpOp(t), LblOp(IL[x].a), LblOp(bih + 1)>>, {}), c)
  ELSE MakeLabel("fall",
         AdInstr(x, GenInstr("br", 0, <<TmpOp(t), LblOp(IL[x].a), LblOp(0)>>, {}), c))

CmpInstr(x, t, g) == CondBranch(x, t, AdInstr(x, GenInstr("icmp", t, g.ops, {}), g.c))

LowerCondJump(x, c) == CmpInstr(x, c.ntmp, GenCmpExpr(x, c))

StmtCondJump ==
  /\ Lowering
  /\ IL[Stmt.ili].op = "cbr"
  /\ cg' = LowerCondJump(Stmt.ili, MakeTmps(StmtPreamble(cg)))
  /\ Advance
  /\ UNCHANGED <<prog, merge, phase, built, out, atext>>

(***************************************************************************)
(* A move-to-return-register ILI: STMT_RET of its value; made_return.     *)
(***************************************************************************)
RetInstr(x, r) ==
  [AdInstr(IL[x].l, GenInstr("ret", 0, <<r.op>>, {}), r.c)
     EXCEPT !.lastBr = TRUE, !.madeRet = TRUE]

StmtMvRet ==
  /\ Lowering
  /\ IL[Stmt.ili].op = "mv"
  /\ cg' = RetInstr(Stmt.ili, Lower(IL[Stmt.ili].l, StmtPreamble(cg)))
  /\ Advance
  /\ UNCHANGED <<prog, merge, phase, built, out, atext>>

(***************************************************************************)
(* The exit ILI of the last block: a default return unless a return was   *)
(* made; elsewhere it emits nothing.                                       *)
(***************************************************************************)
StmtExit ==
  /\ Lowering
  /\ IL[Stmt.ili].op = "exit"
  /\ cg' = IF bih = LastBih /\ ~cg.madeRet
           THEN [AdInstr(Stmt.ili, GenInstr("ret", 0, <<>>, {}), StmtPreamble(cg))
                   EXCEPT !.lastBr = TRUE]
           ELSE cg
  /\ Advance
  /\ UNCHANGED <<prog, merge, phase, built, out, atext>>

(***************************************************************************)
(* After the last block: fma_rewrite when FMA generation is on, then     *)
(* remove_dead_instrs (CSE is on), then write_instructions prints the     *)
(* final list.  undo_recip_div, whose callee is not in the source, is     *)
(* left out.                                                               *)
(***************************************************************************)
FmaPass(c) == IF GenerateFma THEN FmaRewrite(c) ELSE c

FinalList(c) == IF CseOpt THEN RemoveDeadInstrs(FmaPass(c)) ELSE FmaPass(c)

PrintRoutine(c) ==
  /\ cg' = c
  /\ out' = WriteInstructions(c.il)
  /\ atext' = PrintAtomicEffects(c.il)

FinishRoutine ==
  /\ phase = "lower" /\ bih > LastBih
  /\ built' = cg.il
  /\ PrintRoutine(FinalList(cg))
  /\ phase' = "done"
  /\ UNCHANGED <<prog, bih, ilt, merge>>

\* Lowering a routine ends; the final state repeats.
Finished == phase = "done" /\ UNCHANGED vars

Next ==
  \/ EnterBlock
  \/ StmtStore \/ StmtCall \/ StmtSmove \/ StmtSzero \/ StmtFree \/ StmtDecl \/ StmtFence
  \/ StmtJump \/ StmtSwitch \/ StmtCondJump \/ StmtMvRet \/ StmtExit
  \/ FinishRoutine
  \/ Finished

Spec == Init /\ [][Next]_vars

-----------------------------------------------------------------------------
(***************************************************************************)
(* Properties                                                              *)
(***************************************************************************)

\* A label other code branches to: a branch-target block label, or the
\* label of an entry the dispatch branches to.
IsJoin(i) == i.name = "label" /\ i.lab \in {"join", "en"}
Uses(i, t) == TmpUses(i, t) > 0
InList(i, l) == \E k \in DOMAIN l : l[k].id = i.id

\* The type invariant of the lowering context.
TypeOK ==
  /\ phase \in {"lower", "done"}
  /\ bih \in 1..LastBih + 1 /\ ilt \in Nat /\ merge \in BOOLEAN
  /\ \A i \in Range(cg.il) \cup Range(built) : IsInstr(i)
  /\ out \in Seq({"lab", "term", "ins"})
  /\ cg.uses \in [1..cg.ntmp -> Nat]
  /\ DOMAIN cg.csed \subseteq Ili /\ \A t \in DOMAIN cg.csed : IsOperand(cg.csed[t])
  /\ cg.cnt \subseteq Ili /\ cg.tmap \in [Ili -> 0..cg.ntmp]
  /\ {cg.newEbb, cg.lastBr, cg.madeRet, cg.dbgFail, cg.cseAssert} \subseteq BOOLEAN
  /\ cg.rd \subseteq [from : Nat, at : Nat]
  /\ cg.exf \subseteq {"memcpy", "memset"}
  /\ atext \in Seq(Seq(STRING))

(***************************************************************************)
(* Every temporary an instruction uses is defined by an earlier           *)
(* instruction, with no branch-target label in between: the reuse of a    *)
(* value by ad_csed_instr, find_load_cse or the CSE list (a copy of       *)
(* csed->operand) never reaches across a label other code jumps to, so   *)
(* the definition dominates the use.                                       *)
(***************************************************************************)
TmpDefinedBeforeUse ==
  \A u \in DOMAIN cg.il : \A k \in DOMAIN cg.il[u].ops :
    cg.il[u].ops[k].ot = "tmp" =>
      \E d \in 1..u - 1 :
        /\ cg.il[d].tmp = cg.il[u].ops[k].v
        /\ \A m \in d + 1..u : ~IsJoin(cg.il[m])

(***************************************************************************)
(* An ILI on the CSE list whose ILI_COUNT is not zero has an operand, so  *)
(* the IL_CSE case of gen_llvm_expr never copies a null operand (the      *)
(* assert "null operand in cse list").  clear_csed_list and               *)
(* remove_from_csed_list must reset the count with the operand.           *)
(***************************************************************************)
CountedHasOperand ==
  \A t \in DOMAIN cg.csed \cap cg.cnt : cg.csed[t] # NoOp

(***************************************************************************)
(* After remove_dead_instrs no deletable store is left and every          *)
(* instruction other than a call or an atomicrmw that defines a temporary *)
(* has a use: the                                                          *)
(* backward walk with the use counts kept by ad_instr and remove_instr    *)
(* also deletes what only dead instructions used.                          *)
(***************************************************************************)
DceLeavesNoDeadDef ==
  phase = "done" =>
    \A p \in DOMAIN cg.il :
      /\ ~IsDeletableStore(cg.il[p])
      /\ cg.il[p].tmp # 0 /\ cg.il[p].name \notin {"call", "atomicrmw"} =>
           \E q \in DOMAIN cg.il : Uses(cg.il[q], cg.il[p].tmp)

(***************************************************************************)
(* A load that survives dead-code elimination reads what the code stored: *)
(* the last store to its variable earlier in its extended basic block is  *)
(* not deleted.  find_load_cse takes DELETABLE off the store a later load *)
(* reads, and gives it back only when the load is replaced by the stored  *)
(* value.                                                                  *)
(***************************************************************************)
StoreKeptForLoad ==
  phase = "done" =>
    \A p \in DOMAIN built :
      LET a == built[p].ops[1].v
          e == Max({1, SelectLastInSubSeq(built, 1, p, StartsEbb)})
          s == SelectLastInSubSeq(built, e, p - 1,
                 LAMBDA i : i.name = "store" /\ StoreAddr(i) = a)
      IN built[p].name = "load" /\ InList(built[p], cg.il) /\ s # 0
           => InList(built[s], cg.il)

(***************************************************************************)
(* No load is replaced by a value from before a call: llvm.memcpy and     *)
(* llvm.memset (STMT_SMOVE, STMT_SZERO) and any call without FAST_CALL    *)
(* may write the loaded variable, so find_load_cse's second walk must     *)
(* stop at them, whatever same-ilix load or store lies before.            *)
(***************************************************************************)
LoadNotReusedAcrossCall ==
  LET il == IF phase = "lower" THEN cg.il ELSE built
  IN \A r \in cg.rd : \A k \in r.from + 1..r.at : il[k].name # "call"

(***************************************************************************)
(* A block copy reads what the code stored: the last store to an SMOVE's  *)
(* source earlier in its extended basic block survives dead-code          *)
(* elimination.  Only find_load_cse takes DELETABLE off a store; the      *)
(* memcpy of make_stmt(STMT_SMOVE) reads memory without it.               *)
(***************************************************************************)
IsMemcpy(i) ==
  i.name = "call" /\ i.ops # <<>> /\ i.ops[1].ot = "fn" /\ i.ops[1].v = "memcpy"

StoreKeptForMemcpy ==
  phase = "done" =>
    \A p \in DOMAIN built :
      LET a == built[p].ops[3].v
          e == Max({1, SelectLastInSubSeq(built, 1, p, StartsEbb)})
          s == SelectLastInSubSeq(built, e, p - 1,
                 LAMBDA i : i.name = "store" /\ StoreAddr(i) = a)
      IN IsMemcpy(built[p]) /\ s # 0 => InList(built[s], cg.il)

(***************************************************************************)
(* While the routine is being scheduled the instruction list only grows  *)
(* at its tail (spec, Instruction: "insertion is always at the tail       *)
(* except for the one rewrite pass"): every step keeps each instruction   *)
(* already listed, in its place, with its operands and flags, except     *)
(* that find_load_cse may take DELETABLE off a store a later load reads,  *)
(* and never gives DELETABLE to a store that lacks it.  It rests on       *)
(* ad_instr appending, on make_stmt's paths never unlinking an            *)
(* instruction before fma_rewrite and remove_dead_instrs, and on          *)
(* find_load_cse touching nothing but that one flag.                       *)
(***************************************************************************)
Shape(i) == [i EXCEPT !.flags = @ \ {"deletable"}]

InstrListAppendOnly ==
  [][phase' = "lower" =>
       /\ Len(cg'.il) >= Len(cg.il)
       /\ \A k \in DOMAIN cg.il :
            /\ Shape(cg'.il[k]) = Shape(cg.il[k])
            /\ "deletable" \in cg'.il[k].flags => "deletable" \in cg.il[k].flags]_vars

(***************************************************************************)
(* find_load_cse asserts (DEBUG_ASSERT) that every fence, cmpxchg or      *)
(* atomicrmw its second walk reaches carries an ILI number.                *)
(***************************************************************************)
FenceScanAssert == ~cg.dbgFail

(***************************************************************************)
(* The printed routine body has the block structure LLVM requires: every  *)
(* terminator is followed by a label or ends the body, every label but    *)
(* the first line follows a terminator, and the body ends in a            *)
(* terminator.  It rests on make_stmt's label after a branch, the label   *)
(* of a conditional branch's false edge, the default return, and the     *)
(* repairs write_instructions makes (dead labels, fall-through branches,  *)
(* the return after a trailing label).                                    *)
(***************************************************************************)
PrintedBlocksWellFormed ==
  phase = "done" =>
    /\ out # <<>> /\ out[Len(out)] = "term"
    /\ \A k \in 1..Len(out) - 1 : out[k] = "term" => out[k + 1] = "lab"
    /\ \A k \in 2..Len(out) : out[k] = "lab" => out[k - 1] = "term"

(***************************************************************************)
(* fma_rewrite and the dead-code walk after it change no stored value:    *)
(* every store of the final list stores what it stored in the list as     *)
(* scheduled.  This rests on the intrinsic get_mac_name picks for the     *)
(* add or subtract, the swap and the negation, on the order of the call's *)
(* arguments, on overwrite_fma_add putting the new instructions in front  *)
(* of the add, and on the use counts that keep the multiply's operands    *)
(* alive through remove_dead_instrs.                                       *)
(***************************************************************************)
FmaPreservesValue ==
  phase = "done" =>
    \A p \in DOMAIN built : \A q \in DOMAIN cg.il :
      built[p].name = "store" /\ cg.il[q].id = built[p].id =>
        OpVal(cg.il, cg.il[q].ops[1]) = OpVal(built, built[p].ops[1])

(***************************************************************************)
(* An add or subtract is fused only with a multiply it alone uses: when  *)
(* fma_rewrite replaced the instruction, one of its operands in the list  *)
(* as scheduled is a multiply, or a negation of a multiply, whose every    *)
(* temporary on the way has exactly one use (spec 4.6, 8: a multiply used *)
(* elsewhere must not be fused).  The use counts maybe_generate_fma reads *)
(* must equal the uses ad_instr and ad_csed_instr made.                   *)
(***************************************************************************)
RealUses(il, t) == FoldLeft(LAMBDA n, i : n + TmpUses(i, t), 0, il)

SoleUse(il, o) == o.ot = "tmp" /\ DefPos(il, o.v) # 0 /\ RealUses(il, o.v) = 1

SoleMul(il, o) ==
  /\ SoleUse(il, o)
  /\ \/ Def(il, o).name = "fmul"
     \/ /\ Def(il, o).name = "fsub" /\ Def(il, o).ops[1] = NegZero
        /\ SoleUse(il, Def(il, o).ops[2])
        /\ Def(il, Def(il, o).ops[2]).name = "fmul"

Fused(i) == \E q \in DOMAIN cg.il : cg.il[q].id = i.id /\ cg.il[q].name # i.name

FmaOnlySoleMul ==
  phase = "done" =>
    \A p \in DOMAIN built :
      built[p].name \in {"fadd", "fsub"} /\ Fused(built[p]) =>
        \E k \in 1..2 : SoleMul(built, built[p].ops[k])

(***************************************************************************)
(* A load is never served from before an atomic operation that orders    *)
(* later loads: when find_load_cse replaced a load by the value of an     *)
(* earlier instruction, no load, fence, cmpxchg or atomicrmw with an      *)
(* acquire, acq_rel or seq_cst order lies between that instruction and    *)
(* the point of the load (spec 4.3: load reuse never crosses an atomic    *)
(* fence that forbids reordering).  This rests on can_move_load_up_over_  *)
(* fence and on the order the second walk tests the same-ilix match, the *)
(* orders and the NME conflicts.                                           *)
(***************************************************************************)
Acquiring(i) ==
  /\ i.name \in {"load", "fence", "cmpxchg", "atomicrmw"}
  /\ i.flags \cap {"ACQUIRE", "ACQ_REL", "SEQ_CST"} # {}

LoadNotReusedAcrossAcquire ==
  LET il == IF phase = "lower" THEN cg.il ELSE built
  IN \A r \in cg.rd : \A k \in r.from + 1..r.at : ~Acquiring(il[k])

(***************************************************************************)
(* The atomic operations are printed as the program has them: the lines  *)
(* write_instructions prints for fences, atomicrmw, cmpxchg and atomic    *)
(* stores are, in order, one per atomic ILI of the routine's statements   *)
(* (a cmpxchg both of whose components are used counts once), each with   *)
(* [singlethread] and the order the spec's table gives (consume printed  *)
(* as acquire; a cmpxchg also its failure order).  It covers the flags    *)
(* of ll_instr_flags_for_memory_order_and_scope, the tempsMap reuse of a  *)
(* cmpxchg, cancel_store, the DCE exclusions and the printer.             *)
(***************************************************************************)
RefOrderName ==
  [relaxed |-> "monotonic", consume |-> "acquire", acquire |-> "acquire",
   release |-> "release", acq_rel |-> "acq_rel", seq_cst |-> "seq_cst"]

RefText(e) ==
  (CASE e.op = "fence" -> <<"fence">>
     [] e.op = "rmw"   -> <<"atomicrmw", e.aop>>
     [] e.op = "ast"   -> <<"store", "atomic">> \o (IF e.vol THEN <<"volatile">> ELSE <<>>)
     [] e.op = "cx"    -> <<"cmpxchg">>)
  \o (IF e.scope = "singlethread" THEN <<"singlethread">> ELSE <<>>)
  \o <<RefOrderName[e.mo]>>
  \o (IF e.op = "cx" THEN <<RefOrderName[e.fmo]>> ELSE <<>>)

\* The atomic ILIs under x, operands first.
RECURSIVE AtomicsOf(_)
AtomicsOf(x) ==
  (IF IL[x].l # 0 /\ IL[x].op \notin {"cse", "dfr", "free"} THEN AtomicsOf(IL[x].l) ELSE <<>>)
  \o (IF IL[x].r # 0 THEN AtomicsOf(IL[x].r) ELSE <<>>)
  \o (IF IL[x].op \in {"fence", "rmw", "ast", "cx"} THEN <<x>> ELSE <<>>)

ProgramAtomics ==
  FoldLeft(LAMBDA acc, x : IF IL[x].op = "cx" /\ x \in Range(acc) THEN acc
                           ELSE Append(acc, x),
           <<>>,
           FoldLeft(LAMBDA s, b : s \o FoldLeft(LAMBDA t, st : t \o AtomicsOf(st.ili), <<>>, b.stmts),
                    <<>>, prog))

AtomicsPrintedAsProgram ==
  phase = "done" =>
    atext = [k \in DOMAIN ProgramAtomics |-> RefText(IL[ProgramAtomics[k]])]


(***************************************************************************)
(* The entry dispatch of a routine with several entries sends each value  *)
(* of the choice argument to its entry: started at the head of the final  *)
(* list with the choice equal to v, the compares of a load of the choice  *)
(* and the branches after them, taken or falling through to the label    *)
(* made after each, reach the label insert_entry_label made for entry     *)
(* v + 1 of gbl.entries, the numbering the master routine's callers use.  *)
(* It rests on val counting with the entries, on the branch operands, on  *)
(* the extra use that keeps the compare through remove_dead_instrs, and   *)
(* on every entry block getting its label.                                 *)
(***************************************************************************)
ChoiceTest(il, p, v) ==
  /\ il[p].name = "icmp" /\ il[p].ops[3] = ConOp(v)
  /\ \E d \in 1..p - 1 : il[d].tmp = il[p].ops[2].v /\ il[d].name = "load"
                        /\ il[d].ops = <<VarOp(Choice)>>

EntryLabelOf(il, o) ==
  IF \E q \in DOMAIN il : il[q].name = "label" /\ il[q].lab = "en" /\ il[q].ops = <<o>>
  THEN o.v ELSE 0

RECURSIVE ReachedEntry(_, _, _)
ReachedEntry(il, p, v) ==
  IF p > Len(il) THEN 0
  ELSE IF il[p].name = "label" /\ il[p].lab = "en" THEN il[p].ops[1].v
  ELSE IF /\ il[p].name = "br" /\ Len(il[p].ops) = 3 /\ il[p - 1].name = "icmp"
          /\ il[p].ops[1] = TmpOp(il[p - 1].tmp) /\ ChoiceTest(il, p - 1, v)
       THEN EntryLabelOf(il, il[p].ops[2])
  ELSE ReachedEntry(il, p + 1, v)

EntryDispatch ==
  phase = "done" /\ HasMultipleEntries =>
    \A v \in 0..Len(GblEntries) - 1 : ReachedEntry(cg.il, 2, v) = GblEntries[v + 1]

=============================================================================
