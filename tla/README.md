# TLA+ models of the LLVM lowering back end (cgmain.c)

The core of this repository is `cgmain.c`. It is the back end that lowers
flang's ILI/ILT/BIH intermediate form into LLVM IR text. Its C source sits in
`src/tools/flang1/utils/symtab/CMakeLists.txt`, from line 123 on. The other
files under `src/` are runtime library routines: the LIB3F `FSYNC`
(`src/runtime/flang/fsync3f.c`), the temporary-name generator `pgnewfil`
and small wrappers (gather, CPU stopwatch, statistics, timef) in
`src/unnamed/part_000`-`part_002`. `FSYNC` and `pgnewfil` are modelled too
(see the end of this list).

This directory models the part of `cgmain.c` where correctness depends on
state carried from one statement to the next:

- the statement scheduler (`schedule`, `make_stmt`);
- the per-routine instruction list and its CSE reuse (`ad_instr`,
  `ad_csed_instr`);
- load CSE across stores and fences (`find_load_cse`, `make_load`);
- the common-subexpression list of the IL (`csedList`, `ILI_COUNT`,
  `tempsMap`);
- dead-code elimination (`remove_dead_instrs`);
- the fused multiply-add rewrite (`fma_rewrite`, `maybe_generate_fma`);
- the block structure the printer emits (`write_instructions`);
- `FSYNC` and its Windows `fsync` shim, in a program that writes, flushes
  and may crash and restart;
- the temporary-name generator `gentmp` and its callers `pg_newfile`,
  `pg_makenewfile` and `pg_makenewdir`, run by several processes in one
  directory.

## Inventory of the system

| Part (spec section) | Code | Model |
|---|---|---|
| Statement Scheduler (4.5) | `schedule` 891-1303, `make_stmt` 2942-3257, `gen_switch` 8402, `insert_jump_entry_instr` 11706, `insert_entry_label` 11755, `insert_llvm_memset`/`memcpy` 3605-3692 | `CgSchedule` (partly) |
| Instruction list (operand model, 3) | `make_instr`, `gen_instr`, `ad_instr`, `ad_csed_instr` 2759-2878, `remove_instr` 5398 | `CgInstrList` |
| Load CSE (4.3) | `find_load_cse` 5478-5579, `make_load` 5591 | `CgInstrList` |
| CSE cache (4.3) | `add_to_cselist` ... `build_csed_list` 8463-8593, IL_CSE / define cases and tail of `gen_llvm_expr` | `CgCse` |
| Expression lowering (4.2) | `gen_llvm_expr` 6669-8235, `gen_binary_expr`, `gen_call_expr` | `CgCse` (loads, add, fadd/fsub/fmul/fneg, CSE, define/free, call, constant, compare-with-zero, atomics) |
| Dead-code elimination (4.6) | `remove_dead_instrs` 5426 | `CgInstrList` |
| Instruction printer (4.7) | `write_instructions` 2122-2655, `dont_force_a_dummy_label` | `CgPrinter` (block structure only) |
| FMA rewrite (4.6) | `fma_rewrite`, `maybe_generate_fma` 4555-4930 | `CgFma` |
| Atomic memory order (4.2, 4.7) | `ll_instr_flags_from_memory_order` 2903, `gen_llvm_atomicrmw_expr` 6565, `gen_llvm_fence_instruction` 6587, `gen_llvm_cmpxchg` 6597, atomic loads 6948, atomic stores 3239, printer cases 2428-2606 | `CgAtomic`, `CgCse`, `CgSchedule`, `CgPrinter` |
| Type bridge, ABI lowering (4.1, 4.4) | `make_lltype_*`, `ll_abi_*`, `gen_arg_operand` | not modelled: data conversion only |
| Debug info, TBAA, globals | `lldbg_*`, `write_tbaa_metadata`, ... | not modelled: output text |
| FSYNC | `fsync3f.c`: Windows `fsync` shim 31-64, `ENT3F(FSYNC)` 67-75 | `Fsync3f` |
| Temporary names | `part_000`: `addn` 145-160, tempnam `gentmp` 172-240, Unix `gentmp` 256-339, `pg_newfile` 347-371, `pg_makenewfile` 377-419, `pg_makenewdir` 425-462 | `PgNewfil` (both builds, one directory) |
| Other runtime wrappers | `getcpu`, `alarm`, `etime`, `mergec`, `__mth_i_cdexp` (`part_000`), timing and statistics (`part_001`, `part_002`), `gather_real8.F95` | not modelled: one system or math call each |

The system is single-threaded (spec section 5). It compiles one routine at a
time and has no I/O in the lowering path. The hard behaviours are therefore
not thread interleavings. They are orders of statements and blocks that no
test writes down: a store, a label, a fence, a free and a load of the same
variable, in every order and with every kind of label between them. Each
of them changes file-static state that later statements read:

- the instruction list;
- the `new_ebb` and `last_stmt_is_branch` bits;
- the CSE list and `ILI_COUNT`;
- `tempsMap`;
- the DELETABLE flags.

The two runtime models are different in kind. `FSYNC` is one call between
a program, the stdio buffer, the kernel's page cache and the disk, and what
matters is what survives a crash. `pgnewfil` runs in every process that
needs a temporary file, and processes share the directory, so its `access`
then `open` is a race with other processes and users.

## Modules

- **CgInstrList.** This module holds the instruction list and the
  operations on it. The lowering context `c` is a record. It stands for the
  file-static state of `cgmain.c`:
  - `il`: `Instructions`;
  - `uses`: `TMPS.use_count`;
  - `ntmp`: the temporaries made;
  - `newEbb`: `new_ebb`;
  - `dbgFail`: whether a `DEBUG_ASSERT` of `find_load_cse` failed.

  Every C function is an operator from a context to a context, or to a
  record `[c, op]` when it returns an operand. An instruction is a record:
  - `name`;
  - `ilix`;
  - `tmp`: the defined temporary, or 0;
  - `ops`: the operands;
  - `flags`: STARTEBB, DELETABLE, acquire or release;
  - `lab`: what kind of label it is.

  An operand is a temporary, a variable, a constant, a label, a condition
  code or nothing.
- **CgCse.** This module holds the CSE list and expression lowering. The
  constant `IL` is the ILI table: `[op, a, l, r]` gives the opcode, the
  address and the two link operands. `csed` maps each listed ILI to its
  operand. `cnt` is the set of ILIs with `ILI_COUNT` > 0, because only
  "is it zero" is ever tested. `tmap` is `tempsMap`. `Lower(x, c)` is
  `gen_llvm_expr(x)` for the opcodes the model has, ending with the tail
  that records the operand, the count and the temporary.
- **CgPrinter.** This module reduces `write_instructions` to the tokens
  "lab", "term" and "ins" that it prints. It keeps the `forceLabel` logic and
  every repair the printer makes.
- **CgSchedule.** This module is the specification. Its variables are:
  - `prog`: the routine;
  - `cg`: the context;
  - `bih`, `ilt`: the position;
  - `merge`: `merge_next_block`;
  - `phase`;
  - `built`: the list before DCE;
  - `out`: the printed tokens.

  Its actions are:
  - `EnterBlock`: the head of a block, that is, the label with
    `clear_csed_list`, `build_csed_list`, `new_ebb` and `merge_next_block`;
  - one action per statement kind `schedule` dispatches: `StmtStore`,
    `StmtCall`, `StmtFree`, `StmtFence`, `StmtJump`, `StmtCondJump`,
    `StmtMvRet` and `StmtExit`. Each action includes the whole `make_stmt`
    it calls, including the dead label of the preamble and the false-edge
    label;
  - `FinishRoutine`: the end of `schedule`, that is, `remove_dead_instrs`
    followed by `write_instructions`;
  - `Finished`: the routine is done and the state repeats.
- **CgFma.** This module holds `fma_rewrite`. The target is the constant
  `Arch`: `"x86"`, `"power"` or `"generic"`, standing for
  `TARGET_LLVM_X8664`, `TARGET_LLVM_POWER` and neither. Each C function is
  an operator on the context:
  - `FusedMultiplyAddCandidate` picks the multiply operand of an fadd (or,
    on x86 and POWER, of an fsub), looking through an fneg of a multiply;
  - `MacNameX86` and `MacNamePower` are the two `get_mac_name` tables, with
    their `swap` and `fneg` outputs;
  - `FmaMultHasMultUses` is the single-use test;
  - `FuseMul` reuses the multiply's operand list as the argument list
    (`l_r->next = r`) and drops the add's use of the multiply;
  - `PromoteArgs`, `InsertLane0` and `ExtractLane0` are the x86 vector
    promotion;
  - `FmaCall` is `gen_call_llvm_intrinsic` with `I_PICALL`;
  - `OverwriteFmaAdd` splices the new instructions before the add,
    overwrites the add with the call and adds 100 to its operands' counts.

  `FmaWalk` is the `for` loop of `fma_rewrite`; it continues after the
  spliced instructions. `OpVal` and `InstrVal` give the value an operand
  computes from the initial memory `InitVal`, with each intrinsic's meaning.
  On the generic target only the swap branch of
  `fused_multiply_add_canonical_form` is reachable, since
  `fused_multiply_add_candidate` offers no fsub or fneg there; its other
  branches are dead code and are not modelled.
- **CgAtomic.** This module holds the atomic lowering. An atomic ILI is a
  record that carries its memory order `mo`, the failure order `fmo`, the
  `scope`, the read-modify-write operation `aop`, and the `vol` and `weak`
  bits. `LlInstrFlagsFromMemoryOrder` is `ll_instr_flags_from_memory_order`;
  it rounds consume up to acquire. `AtomicrmwInstr`, `CmpxchgInstr` and
  `GenLlvmFenceInstruction` build the instructions. Like the code, the first
  two add theirs through `ad_csed_instr` with CSE off, and the fence adds its
  own with ilix 0. `CmpxchgFromTempMap` is the `getTempMap` reuse. Because of
  it, both components of one cmpxchg (`ExtractValue` 0 and 1) read one
  exchange. `CgCse`'s `Lower` handles the atomic opcodes:
  - `ald`: an atomic load, through `make_load`, with its order flags;
  - `rmw` and `cx`;
  - `cxok` and `cxold`.

  In `CgSchedule`:
  - `StoreFlags` adds the order, scope and volatile flags of an `ast`;
  - `StmtDecl` is the STMT_DECL of an ILT_EX ILI that is not a call;
  - `StmtFence` calls `GenLlvmFenceInstruction`.

  In `CgPrinter`, `AtomicTokens` is the text the printer gives each atomic
  instruction: the load/store case with `write_memory_order_and_alignment`,
  and the atomicrmw, cmpxchg and fence cases. `PrintRoutine` records the
  printed atomics in the variable `atext`.
- **Entries and switches (CgSchedule).** A block whose `lab` is
  `"entry"` is an entry block (BIH_EN). Its entry ILT is implicit. Such a
  block goes to `do_en_bih`, so it gets neither `clear_csed_list` nor a
  block label. `GblEntries` lists the entry blocks in program order.
  `EntryIlt` is the first ILT of an entry block in a routine with several
  entries:
  - at the first entry block, `InsertJumpEntryInstr` adds one test per
    entry: a load of `Choice`, `icmp eq` against `val`, a branch, and a
    `disp` label;
  - `InsertEntryLabel` then adds the entry's `en` label.

  Whether the front end sets BIH_NOMERGE on entry blocks is not in this
  code. It is the constant `EntryNoMerge`, read by `MergeNext`.
  `StmtSwitch` is the IL_JMPM case of `make_stmt`. It calls `GenSwitch`
  and sets `last_stmt_is_branch`, and it makes no label after the switch.
- **Block copies and clears (CgSchedule).** `StmtSmove` is
  `make_stmt(STMT_SMOVE)`: the source and destination address ILIs are
  lowered (source first, no instruction), and `InsertLlvmMemcpy` adds a call
  of `llvm.memcpy` with the length (the ILI's count of 8-byte units times 8)
  and the alignment of the source's type. `StmtSzero` is the `__c_bzero`
  call `cgmain_init_call` recognises, made into `llvm.memset` of zero. Both
  calls carry CALL_INTRINSIC_FLAG and define no temporary. The statics
  `memcpy_defined` and `memset_defined`, with the declaration they add to
  the external function list, are the set `exf` of the lowering context;
  a routine starts with it empty, as the first routine of a file does.
- **MCCgSchedule.** This module holds the model for TLC:
  - two variables `a1` and `a2`;
  - a 22-entry ILI table, listed in the module's comment, with an SMOVE
    from `a1` to `a2` and a `__c_bzero` of `a1`;
  - every routine of three one-statement blocks followed by an exit block.

  A block takes each statement from a menu, and each label kind. The move of
  the return value is only in the block before the exit, as flang places it.
  Every jump targets a block whose label is a branch target.
- **MCCgFma.** This module holds the FMA model: three loads of `a1`-`a3`
  with values 2, 3 and 7, and fourteen floating expressions over them:
  `m = a1*a2`, `m+a3`, `a3+m`, `m-a3`, `a3-m`, `-m`, `-m+a3`, `a3+-m`,
  `-m-a3`, `a3--m`, `(m+a3)*a3`, `(m+a3)*a3+a1`, `m+m` and `m+-m`. A routine is one
  block storing two of them to `a4`, followed by the exit block; every
  ordered pair is a routine (196). The pairs give a multiply with one use,
  one shared by two stored expressions, and one used twice by the same add.
  It instantiates `CgSchedule` once per target (`T(a)`); the variable `arch`
  picks the target in the initial state and each property is checked for
  the target of the behaviour (`ForArch`), so one run covers all three.
- **MCCgEntry.** This module holds the entry model: `a1`, `a2` and the
  choice argument. Its ILI table has two stores of `a1 + a2`, a switch on
  `a1` (1 to block 3, 2 and the default to the exit block), a release
  fence and the exit. A routine has four blocks:
  - block 1: an entry block, tail or not;
  - block 2: an entry, unlabelled or a branch target;
  - block 3: an entry or a branch target;
  - block 4: the exit block.

  Each of the first three blocks takes one statement from the menu. This
  gives routines with 1, 2 or 3 entries.
- **MCCgAtomic.** This module holds the atomic model: two variables, and
  17 ILIs. They are:
  - plain loads and stores;
  - a seq_cst fence, and a single-thread release fence;
  - a seq_cst atomicrmw add, and a single-thread relaxed xchg;
  - a single-thread consume atomic load;
  - an acq_rel/consume cmpxchg with its success and old-value components
    stored back;
  - a single-thread release atomic store.

  A routine is one block of three statements from a 13-entry menu, followed
  by the exit block (2,197 routines). `MCILScope` makes the cmpxchg
  single-thread. `MCILCancel` makes the atomic store store `a2`'s own
  loaded value.

- **Fsync3f.** This module models `fsync3f.c` in a program around it.
  - State: `platform` (the build), `unit` (the `FILE *` `__getfile3f`
    returns per unit, or `NoFile` for NULL), per file the records in the
    stdio buffer (`buf`), in dirty kernel pages (`kern`) and on disk
    (`disk`), `errno`, `ret` (what the discarded `fsync` returned), `up`,
    and the ghost `synced`: what a call whose `fsync` returned 0 promised.
  - Code: `Fsync3f(lu)` is the whole of `ENT3F(FSYNC)`. `GetFile3f` is the
    lookup at line 71 and the `if (f)` test; `IoGetfd` is
    `__io_getfd(f)`. `FsyncResults` is the build's `fsync`: POSIX
    `fsync(2)` (`PosixFsyncResults`) or the shim. `ShimFsync` is the shim's
    three returns (EBADF for a fd with no OS handle, -1 with the translated
    error after a failed `FlushFileBuffers`, 0), and `ShimErrno` is its
    `switch`. `FlushFileBuffersResults` is the Windows call: a console
    handle fails with `ERROR_INVALID_HANDLE`, a disk handle fails only when
    the device does.
  - Environment: `Open`, `Close`, `Write` and `Flush` stand for the Fortran
    `OPEN`, `CLOSE`, `WRITE` and `FLUSH` statements, whose runtime is not in
    this repository. `Writeback` is the kernel writing dirty pages back in
    any order. `Crash` loses `buf` and `kern`; `Restart` starts the program
    again with only unit 6 connected.
- **MCFsync3f.** Two units (`u1`, and `u6`, preconnected to stdout), two
  disk files, a console and a stdout with no OS handle (a Windows GUI
  program), both builds, a device that may fail, and three records.
- **PgNewfil.** This module models `pgnewfil` for several processes.
  - State: the build `build` (`unix`, or `tempnam` for Windows and
    `USETEMPNAM`), the directory's permissions `perm` (writable, searchable but
    read-only, or not searchable), `fs` (each existing name and the call
    or other user that created it), and per process the statics `pgrand`
    and `next`, the program counter `pc` in the current call, the function `op`, the
    current `name` and the last `result`.
  - Code: `AddN` is `addn` (recursive, one base-64 digit per step, stopping
    when the value is 0). `NextRand` is `pgrand = (pgrand << 16) + pgrand
    * 3` modulo `2^LongBits`. `TmpName` is the name `gentmp` builds after
    the directory and prefix: `chars[pgrand & 0x3f]`, `addn(pid, 8)`, then
    the next two values of `pgrand`, the second XORed with the call-site
    address bits. A character is its index in `chars[]`, which is
    one-to-one. `Seed` is the `pgrand` a call starts from (a member of
    `Seeds` while `pgrand` is 0). `Gentmp` is the Unix `gentmp`: it builds
    the name and advances `pgrand` twice. `GentmpTempnam` is the tempnam
    build's `gentmp` (173-240): it returns NULL when `tempnam` or `malloc`
    does, before seeding, and the caller returns NULL; otherwise
    `TempnamName` is `tempnam`'s name (a member of `TempNames`), then
    `addn(next++, 4)` (`next` an `int`, modulo `2^IntBits`), then the Unix
    suffix. `Access` is the `access` test of
    all three loops: no search permission returns NULL, an existing name
    loops, and ENOENT returns (`pg_newfile`) or goes on to `Open` or `Mkdir`.
    `Open` is `open(O_CREAT|O_EXCL)`: it creates the file and returns, or
    fails and loops (`OpenCreates` is its success condition). `Mkdir`
    creates the directory if it can, and returns the name either way.
  - Environment: `Call` starts a call, `Return` hands the result back, and
    `ForeignCreate` is another user (or an earlier process with the same
    pid) creating the name a process is about to open or will draw next.
- **MCPgNewfil.** Two processes of one program (one call-site address),
  pids 1 and 2, two seeds, a 6-bit `long`, a 1-bit `int` (so `next`
  wraps after two names), one name `tempnam` returns, both builds, two
  calls each, and one file created by another user.

## Runs

| Run | Config | Expect | What it shows |
|---|---|---|---|
| `cg_schedule` | `CgSchedule.cfg` | pass | All seven invariants and the action property `InstrListAppendOnly` hold on every routine of the model at -O2 with distinct NMEs (397,840 states). |
| `cg_fma` | `CgFma.cfg` | pass | For each of the x86-64, POWER and generic targets (chosen in the initial state), the spliced instructions define every temporary before use, each chosen intrinsic with its swap, negation and argument order computes the stored value, and only a sole-use multiply is fused. |
| `cg_atomic` | `CgAtomic.cfg` | pass | No load is reused across an acquiring fence, atomicrmw, cmpxchg or atomic load, and the printed atomics match the program's, in program order, with their orders, scopes and operations (17,576 states). |
| `cg_entry` | `CgEntry.cfg` | pass | With entry blocks not mergeable, every choice value reaches its entry, no reused temporary crosses an entry or branch-target label, and switches print as terminators (5,460 states). |
| `cg_schedule_alias` | `CgScheduleAlias.cfg` | violation of `StoreKeptForLoad` | With `a1` and `a2` sharing one NME, a DELETABLE store that a load still reads is deleted. |
| `cg_schedule_fence` | `CgScheduleFence.cfg` | violation of `FenceScanAssert` | A load after a fence trips `find_load_cse`'s `DEBUG_ASSERT`, because the fence has ilix 0. |
| `cg_entry_merge` | `CgEntryMerge.cfg` | violation of `TmpDefinedBeforeUse` | If an entry block may merge with the block before it, the code of entry 2 reuses the load, store and add temporaries of entry 1. |
| `cg_smove_deletable` | `CgSmoveDel.cfg` | violation of `StoreKeptForMemcpy` | A DELETABLE store to `a1` followed by an SMOVE from `a1` is deleted, and the copy reads `a1`'s old contents. |
| `cg_atomic_scope` | `CgAtomicScope.cfg` | violation of `AtomicsPrintedAsProgram` | A single-thread cmpxchg is printed as `cmpxchg ... acq_rel acquire`, without `singlethread`. |
| `cg_atomic_cancel` | `CgAtomicCancel.cfg` | violation of `AtomicsPrintedAsProgram` | An atomic release store of `a2`'s own loaded value is dropped by `cancel_store`; nothing is printed. |
| `fsync_crash` | `Fsync3f.cfg` | pass | On both builds, through failing syncs, writeback and crashes with restarts, records promised by a successful `FSYNC` stay on disk and the shim sets `errno` as POSIX `fsync` would (27,432 states). |
| `pgnewfil` | `PgNewfil.cfg` | pass | With another user racing the processes, `pg_makenewfile` returns only files its own call created, and every call returns under weak fairness, except `pg_makenewfile` in a read-only directory, in the Unix and the tempnam build (2,094,355 states, about 2 minutes). |

The properties:

- `TypeOK`.
- `TmpDefinedBeforeUse`: every temporary an instruction uses is defined
  earlier, with no branch-target label in between. This covers CSE reuse by
  `ad_csed_instr`, by `find_load_cse` and by the CSE list.
- `CountedHasOperand`: an ILI on the CSE list with a non-zero count has an
  operand. This is the `assert(operand, "null operand in cse list")`.
- `DceLeavesNoDeadDef`: after `remove_dead_instrs`, no DELETABLE store is
  left and every non-call definition has a use.
- `StoreKeptForLoad`: a load that survives DCE still has the last store to
  its variable in its extended basic block. This is what DELETABLE must
  guarantee (spec 4.6, and the comment at 5491).
- `PrintedBlocksWellFormed`: in the printed body, every terminator is
  followed by a label or ends the body, every label after the first line
  follows a terminator, and the body ends in a terminator (spec 4.7).
- `InstrListAppendOnly` (an action property): while the routine is
  scheduled, every step keeps each listed instruction in its place with
  its operands and flags, and appends only at the tail. The one change
  allowed is `find_load_cse` taking DELETABLE off a store; no step gives
  DELETABLE back to a store that lost it. The spec's Instruction entry
  says insertion is always at the tail except for the rewrite pass. The
  restore of `del_store_flags` (5555) is part of what this checks.
- `FenceScanAssert`: the `DEBUG_ASSERT` of `find_load_cse` holds.
- `FmaPreservesValue`: after `fma_rewrite` and DCE, every store writes the
  value it wrote before the rewrite. This checks the `get_mac_name` tables,
  the argument order and the 100-use inflation together.
- `EntryDispatch`: suppose the routine has several entries and the choice
  argument is `v`. Walking the final list from its head, following the
  compares of the choice and their branches, reaches the label of entry
  `v + 1` of `gbl.entries`.
- `LoadNotReusedAcrossAcquire`: no load that `find_load_cse` replaced by an
  earlier value has an acquiring instruction (an acquire, acq_rel or
  seq_cst fence, load, atomicrmw or cmpxchg) between the earlier value and
  the load. The ghost field `rd` records each such replacement.
- `AtomicsPrintedAsProgram`: the printed atomic instructions are, in order,
  those of the program's statements. Each has the text of a reference table
  written from spec 8 and 4.7: consume printed as acquire, `singlethread`
  when the scope is single-thread, and the operation of an atomicrmw.
- `LoadNotReusedAcrossCall`: no load that `find_load_cse` replaced takes
  its value from before a call. `llvm.memcpy` and `llvm.memset` write
  memory, and only a FAST_CALL may be passed over.
- `StoreKeptForMemcpy`: the last store to a block copy's source in its
  extended basic block survives DCE.
- `FmaOnlySoleMul`: an add or subtract that was rewritten had, in the
  original list, an operand that is a multiply (or a negated multiply) with
  no other use.
- `DurableAfterFsync`: every record a successful `FSYNC` promised (those
  that had left the stdio buffer before the call) is on disk, in every
  later state, through crashes and restarts.
- `FsyncErrnoAsPosix` (an action property): every `FSYNC` step leaves
  `errno` as `fsync(2)` on POSIX would for the file's kind and the outcome
  (`PosixErrno`: EBADF, EINVAL for a terminal, EIO, unchanged on success),
  and succeeds only on a disk file. On the POSIX build it restates the
  environment; on Windows it checks the shim.
- `MakeNewFileExclusive`: when `pg_makenewfile` returns a name, the file
  was created by that very call, so no other process or user holds it.
- `CallReturns` (liveness): every call that has started drawing names
  returns, except `pg_makenewfile` in a directory that is searchable but
  not writable (`Hangs`, see below).

Each property of the passing run has a mutant in PROJECT.json: a plausible
bug in the mapped code that TLC finds. The mutants are:

- `remove_instr` drops use counts twice, or not at all;
- `clear_csed_list` is skipped, or keeps the counts;
- the first walk of `find_load_cse` keeps DELETABLE, or clears every flag
  of the store instead of DELETABLE only;
- the printer omits the fall-through branch;
- `overwrite_fma_add` splices after the add instead of before it;
- the x86 table swaps `vfmsub` and `vfnmadd`;
- the POWER table ignores `swap`;
- the single-use test accepts two uses;
- the FMA arguments are put in the order `l, r, l.r`;
- `can_move_load_up_over_fence` blocks only on `acquire`;
- `merge_next_block` ignores BIH_NOMERGE of the next block;
- the dispatch numbers the entries from 1;
- the printer's I_SW case does not set `forceLabel`;
- consume is lowered as relaxed;
- `find_load_cse` passes over an intrinsic call as if it had FAST_CALL;
- the shim's failed-`FlushFileBuffers` branch falls through to `return 0`;
- the shim's `switch` loses its `ERROR_INVALID_HANDLE` case;
- `pg_makenewfile` opens without `O_EXCL`;
- `gentmp` does not advance `pgrand`, so a taken name is retried for ever.

## Findings

1. **DELETABLE keyed by NME (`find_load_cse`, line 5508).** The first walk
   clears DELETABLE only on the *last* store with the load's NME. Suppose two
   addresses share an NME, as `a(i)` and `a(j)` do. Then an earlier DELETABLE
   store to the loaded address keeps its flag. The later same-NME store stops
   the second walk with `SAME`, so the load is emitted. DCE then removes the
   store the load reads. TLC's trace: `st a1 (del)`, `st a2 (del)`, then a
   load of `a1`. Whether flang's front end ever marks both stores
   ILT_DELETE with a shared NME is outside the code; the code itself does not
   protect against it.
2. **Fence with ilix 0 (`gen_llvm_fence_instruction`, line 6594).** The
   fence is added with `ad_instr(0, fence)`. `find_load_cse` asserts that the
   fences it scans carry an ilix, and it reads `ILI_OPND(0, 3)` for the
   conflict test. The assert (5536) runs before
   `can_move_load_up_over_fence` (5538), so any load scanned back to a fence
   in the same extended basic block trips it in a debug build, whatever the
   fence's order. In a release build an acquire, acq_rel or seq_cst fence
   returns NULL at 5539; only a release (or weaker) fence goes on to read
   `ILI_OPND(0, 3)` at 5559. TLC's trace puts an acquire fence before the
   load, so it shows the assert, not the ILI-0 read. The fence's conflict
   answer is therefore a model constant, `FenceNmeConflicts`.

3. **cmpxchg loses its scope in the printer (`write_instructions`, line
   2599).** `gen_llvm_cmpxchg` sets SINGLETHREAD, VOLATILE and WEAK on the
   instruction. The I_CMPXCHG case prints only the two orders, so a
   single-thread cmpxchg reads as a system-scope one. The other atomic cases
   print `singlethread`. Spec 4.7 says compare-exchange prints it too.
4. **`cancel_store` drops an atomic store (`make_stmt`, line 3155).**
   `cancel_store` (2881) removes a store whose value is a load of the same
   address. It does not test `IL_HAS_FENCE`, so an atomic store such as
   `!$omp atomic write x = x` disappears with its release or seq_cst
   ordering. Whether the front end produces such a store is outside this
   code.

5. **Entry blocks and the extended basic block (`schedule`, line 1013).**
   An entry block skips `clear_csed_list`. It starts a new extended basic
   block only when the block before it did not merge into it, and that
   merge test (1041-1045) does not look at BIH_EN. The dispatch branches
   straight to the entry's label. Still, with `EntryNoMerge = FALSE`, TLC
   finds a routine whose second entry stores `a1 + a2` again and reuses
   the temporaries of the first entry's store. The violation needs no more
   than Fortran code falling through into an `ENTRY`. The result depends
   on whether the front end sets BIH_NOMERGE on entry blocks, and that
   code is not in the repository. Spec 4.5 and its glossary say an
   extended basic block has no intervening branch target.

6. **A block copy does not keep the store it reads (`make_stmt`, line
   3129).** Only `find_load_cse` takes DELETABLE off a store, and only for
   a load. `llvm.memcpy` reads its source without that bookkeeping, so a
   store to the source with ILT_DELETE is removed by `remove_dead_instrs`
   (5431) and the copy reads the old contents. TLC's trace: `st a1 <- a2`
   (del), then an SMOVE from `a1`. Spec 4.6 ties deletability to the value
   being reloadable via CSE. Whether the optimizer sets ILT_DELETE on such
   a store is outside `cgmain.c`.

### Runtime behaviours recorded as hazards

- **`pg_makenewfile` never returns in a read-only directory
  (`part_000`, 404).** `gentmp` only checks that `TMPDIR` or `TMP` is a
  directory. In a directory the process can search but not write, `access`
  gives ENOENT and `open` gives EACCES for every name, and the loop frees
  the name and draws another for ever. The code's own
  `/* could not create temp file */` branch returns NULL only when
  `access` fails. `CallReturns` exempts this case by name (`Hangs`);
  without the exemption TLC reports the endless loop.
- **`pg_makenewdir` ignores a failed `mkdir` (`part_000`, 443).** It calls
  `perror` and returns the name. If another user creates the name between
  `access` and `mkdir`, two callers use the same directory; in an
  unwritable directory it returns a directory that does not exist.
- **The tempnam build leaks `tempnam`'s string (`part_000`, 180).** Every
  `gentmp` call leaks it, once per iteration of a retrying loop.
- **`TIMEF` races on `start` (`part_002`, 83).** A thread that read
  `times()` before another thread set `start` returns a negative time.
- **`FSYNC` does not flush the unit (`fsync3f.c`, 73).** Records still in
  the stdio buffer are not synced. Nothing in the source or the
  specification says they should be, so the model promises only what had
  reached the kernel.

## Bounds and why they are enough

- **Two variables.** They are enough to tell "same address" from "same NME"
  from "neither".
- **Three statement blocks and an exit block.** A block's own label and the
  label of the next block, together with three blocks, give every pair of
  statements every relation the code tests: the same block, merged blocks in
  one extended basic block, separated by an unreferenced label, and
  separated by a branch target. They also give a third statement that can
  sit between them (a fence, a free or a call).
- **The menu.** It holds stores with and without ILT_DELETE to both
  variables, including the store of an ILI that `cancel_store` drops. It
  also holds the acquire and release fences, a call through a define, a
  free, a conditional jump, a jump and a return.
- **The ILI table.** Loads reach the list through an add, through IL_CSE
  references and directly from stores.

- **The FMA expressions.** They hold every operand shape
  `fused_multiply_add_candidate` tests (multiply left or right, negated
  multiply left or right), both `swap` outcomes of every `get_mac_name`
  row, an FMA whose addend is itself an FMA result, and multiplies with two
  uses. The values 2, 3 and 7 make every wrong table row or argument order
  give a different number.

- **The entry routines.** Up to three entries give a dispatch chain whose
  middle test both falls through and is taken. An unlabelled second block
  lets the first entry block's successor merge. A tail first block and a
  non-tail one decide whether the first entry merges on. The switch is
  followed, within one block, by a fence, which bypasses `make_stmt`, or
  by a store, which gets the dead label.
- **The atomic menu.** It holds every memory order, with consume on the
  load and as a failure order, and both scopes. It holds an atomicrmw
  before and after a plain store of the same variable, and a cmpxchg whose
  two components are both used, so the `tempsMap` reuse happens. Three
  statements let an acquiring instruction sit between a store and a load
  that `find_load_cse` might forward.

- **The block copy and clear in the menu.** A store, the copy or clear,
  and the same store again put a call between a load and an earlier load
  of the same ILI or a store to the same variable. A DELETABLE store before the copy puts a
  dead-looking store in front of its only reader.

- **FSYNC.** Two units and two disk files let `FSYNC` name a unit whose
  file differs from another open unit's, which is what a wrong descriptor
  would confuse. The console and the handle-less stdout give the EINVAL
  and EBADF paths of both builds. Three records let one record be
  promised, one be flushed but not synced, and one stay buffered when a
  crash comes.
- **pgnewfil.** A 6-bit `long` makes the names of a process repeat after
  8 calls of `gentmp`, far more than the names that can exist (two calls
  each and one other user's file), as in the 64-bit build. The other
  user may take the very name a process has just checked, which is the
  race `O_EXCL` closes. All three directory permissions are initial
  states. With these sizes, no two processes draw the same name (the pid
  digits differ), so all collisions come from the other user. Both builds
  are initial states. One `tempnam` name is enough: it is the same prefix
  for every process, and the rest of the name decides collisions. A 1-bit
  `int` lets `next` wrap within two draws of one process. At 6 bits the
  `<< 16` term of `pgrand`'s update is 0 modulo 64, so the run's update is
  `pgrand * 3`: the run checks that the retry loop advances and returns,
  not the signed overflow of the 64-bit shift (H35), which would need a
  `long` of more than 16 bits.

Every action and every branch of the next-state relation fires in the
passing runs.

## Fairness

The back-end models have none. `schedule` is a loop over a finite block
list, with no waiting and no other actor, so it always ends. The final
state stutters in `Finished`.

`PgNewfil` assumes weak fairness of each process's steps inside a call
(`Step(p)`: `gentmp`, `access`, `open` or `mkdir`, and the return). These
steps are ordinary code and system calls that do not block, so a
scheduled process keeps making them. Starting a call and another user
creating a file are not fair: a program need not call, and the other user
need not act. `Fsync3f` checks only safety (an invariant and an action
property), so it has no fairness.

## Not modelled, and why

- **The `TMPDIR`/`TMP`/`P_tmpdir` choice.** One directory is enough for
  the races; its permissions are chosen in the initial state.
- **The memory `tempnam` returns.** The tempnam build never frees it; the
  leak is listed as a hazard.
- **`make = 0` of `pg_makenewfile` and `pg_makenewdir`.** This is the same
  loop as `pg_newfile`.
- **What a caller of `pg_newfile` does with the name.** The callers are not
  in this file.
- **A handle opened without write access on Windows.** `FlushFileBuffers`
  then fails with `ERROR_ACCESS_DENIED` and the shim reports EIO, where
  POSIX `fsync` succeeds. The model's disk handles are all writable.
- **`getcpu`, `TIMEF`, `__fort_second`, `alarm`, `etime` and the timing
  and statistics wrappers.** Each is one system or math call. The only
  state kept across calls is one static per timer (`getcpu`'s `last`,
  `TIMEF`'s `start`, `__fort_second`'s `first`), read and written by a
  test-and-set without a lock. Their hazards are listed: `getcpu`'s
  unsigned `now - last` wraps if the tick count goes back; `TIMEF` called
  by two threads at once can return a negative time (`part_002`, 83);
  and `start == 0` doubles as "not called yet", so a first call made
  before one CPU tick has been used moves the start to the second call.

- **Parallel regions and indirect jumps.** These are planned.
- **An entry block that holds only its entry ILT.** `schedule` skips it
  when the master routine has dummies, so its label is never made. Whether
  the front end builds such blocks is outside this code.
- **The return type of an entry and `store_return_value_for_entry`.**
  These are type and text only.
- **Types and ABI.** Type reconciliation and the ABI change operand types
  only; the model's properties do not tell types apart.
- **`enhanced_conflict`.** It is reduced to NME equality. That matches its
  `SAME` and `NOCONFLICT` answers for scalar variables.
- **`flg.depchk` and `FAST_CALL`.** These are not modelled: every call stops
  the scan.

## Open items

Each of these stays open because the case depends on IL that the front
end or the optimizer builds, or on a promise no file of the repository
states:

1. `undo_recip_div`: `maybe_undo_recip_div` is not in the source.
2. A cmpxchg ILI (line 6610), or a JSR (line 3014), repeated in two
   blocks. `tempsMap` is routine-wide, so the second occurrence would
   reuse the first one's temporary. Whether ILIs are shared across blocks
   is decided outside `cgmain.c`.
3. An abstract specification of the CSE cache, refined by `CgSchedule`.
   One scheduler step lowers a whole statement, so an abstract step
   would have to allow any number of cache updates, and the refinement
   would say little. `InstrListAppendOnly` checks the list's part of the
   contract as an action property instead.
4. An `Opt = 1` run (no enhanced CSE, no block merging).
5. `pg_makenewdir`'s shared or missing directory, and `TIMEF`'s race on
   `start`. Each would be a violation run of its own. Nothing in the
   repository says what these functions promise.
