------------------------------- MODULE MCCgFma -------------------------------
(***************************************************************************)
(* A model of schedule() with fma_rewrite for TLC: three variables loaded *)
(* and a fourth stored, a table of floating expressions over them, and    *)
(* every routine of one block of two stores followed by an exit block,    *)
(* for each of the three targets fma_rewrite knows.  The target is a      *)
(* build-time constant of cgmain.c; a behaviour fixes it in its first     *)
(* state (arch) and lowers one routine for that build.                    *)
(***************************************************************************)
EXTENDS Naturals, Sequences, TLC

CONSTANTS a1, a2, a3, a4, Opt, GenerateFma, Choice, EntryNoMerge, FenceNmeConflicts

VARIABLES arch, prog, cg, bih, ilt, merge, phase, built, out, atext

MCAddr == {a1, a2, a3, a4}

NmeDistinct == [a \in MCAddr |-> a]

\* Distinct primes, so that a sign or operand slip changes a stored value.
MCInitVal == (a1 :> 2) @@ (a2 :> 3) @@ (a3 :> 7) @@ (a4 :> 0)

Ld(a)         == [op |-> "ld", a |-> a, l |-> 0, r |-> 0]
Bin(o, l, r)  == [op |-> o, a |-> 0, l |-> l, r |-> r]
St(v)         == [op |-> "st", a |-> a4, l |-> v, r |-> 0]

(***************************************************************************)
(*  1 LD a1       6 FADD 3 4     11 FADD 3 9     16 FADD 4 4              *)
(*  2 LD a2       7 FSUB 4 3     12 FSUB 9 3     17 FADD 4 9              *)
(*  3 LD a3       8 FSUB 3 4     13 FSUB 3 9     18 EXIT                  *)
(*  4 FMUL 1 2    9 FNEG 4       14 FMUL 5 3     15 + k: ST a4 <- k       *)
(*  5 FADD 4 3   10 FADD 9 3     15 FADD 14 1       (k = 4..17)           *)
(***************************************************************************)
Exprs == 4..17

MCIL ==
  << Ld(a1), Ld(a2), Ld(a3), Bin("fmul", 1, 2),
     Bin("fadd", 4, 3), Bin("fadd", 3, 4), Bin("fsub", 4, 3), Bin("fsub", 3, 4),
     Bin("fneg", 4, 0), Bin("fadd", 9, 3), Bin("fadd", 3, 9), Bin("fsub", 9, 3),
     Bin("fsub", 3, 9), Bin("fmul", 5, 3), Bin("fadd", 14, 1), Bin("fadd", 4, 4),
     Bin("fadd", 4, 9), Bin("exit", 0, 0) >>
  \o [k \in 1..14 |-> St(k + 3)]

S(x) == [ili |-> x, del |-> FALSE]

MCRoutines ==
  { <<[lab |-> "none", tail |-> FALSE, stmts |-> <<S(15 + e1), S(15 + e2)>>],
      [lab |-> "none", tail |-> FALSE, stmts |-> <<S(18)>>]>> :
      e1 \in Exprs, e2 \in Exprs }

Archs == {"x86", "power", "generic"}

T(a) == INSTANCE CgSchedule WITH Arch <- a, Addr <- MCAddr, Nme <- NmeDistinct,
          InitVal <- MCInitVal, IL <- MCIL, Programs <- MCRoutines

fmaVars == <<arch, prog, cg, bih, ilt, merge, phase, built, out, atext>>

Init == \E a \in Archs : arch = a /\ T(a)!Init

Next == \E a \in Archs : arch = a /\ T(a)!Next /\ UNCHANGED arch

TmpDefinedBeforeUseOf(a) == T(a)!TmpDefinedBeforeUse
FmaPreservesValueOf(a) == T(a)!FmaPreservesValue
FmaOnlySoleMulOf(a) == T(a)!FmaOnlySoleMul

\* A property of CgSchedule for the behaviour's target.
ForArch(P(_)) == \A a \in Archs : arch = a => P(a)

Spec == Init /\ [][Next]_fmaVars

\* Every temporary is defined before its use, with no branch target between
\* (CgSchedule's TmpDefinedBeforeUse), for the target of the behaviour: the
\* vector instructions and the call fma_rewrite splices in included.
TmpDefinedBeforeUse == ForArch(TmpDefinedBeforeUseOf)

\* fma_rewrite keeps every stored value (CgSchedule's FmaPreservesValue):
\* get_mac_name's table for the target, the swap, the negation and the
\* argument order of the intrinsic.
FmaPreservesValue == ForArch(FmaPreservesValueOf)

\* Only a multiply with no other use is fused (CgSchedule's FmaOnlySoleMul).
FmaOnlySoleMul == ForArch(FmaOnlySoleMulOf)

=============================================================================
