------------------------------- MODULE PgNewfil -------------------------------
(***************************************************************************)
(* pgnewfil (src/unnamed/part_000): the temporary-name generator gentmp   *)
(* (the Unix build, and the tempnam build of Windows and USETEMPNAM) and *)
(* its three callers pg_newfile, pg_makenewfile and                       *)
(* pg_makenewdir, run by several processes that share one temporary     *)
(* directory, next to other users who create files in it.                *)
(*                                                                         *)
(* Each process has its own statics pgrand and pid.  A name is the        *)
(* character string gentmp builds; the directory, prefix and suffix are   *)
(* the same for every call and left out, and a character of chars[] is   *)
(* its index.  pgrand is a C long: its arithmetic wraps modulo 2^LongBits *)
(* (signed overflow, undefined in C, wraps in the builds flang uses), and *)
(* the int counter next modulo 2^IntBits.  The part of a name tempnam    *)
(* returns is a member of TempNames.                                     *)
(***************************************************************************)
EXTENDS Naturals, Sequences, Bitwise, TLC

CONSTANTS
  Builds,       \* "unix" and "tempnam": the two definitions of gentmp
  TempNames,    \* names tempnam(NULL, pfx) can return
  IntBits,      \* width of int (next) in the model
  Procs,        \* processes calling the generator
  Pid,          \* Pid[p]: getpid() of p
  Seeds,        \* values the seed expression of gentmp can take (never 0)
  AddrBits,     \* AddrBits[p]: ((long)pfx ^ (long)sfx) >> 5 at p's call site
  LongBits,     \* width of long in the model
  MaxCalls,     \* calls each process makes
  MaxForeign,   \* files other users create in the directory
  None          \* a NULL char *

Long == 2^LongBits
Int == 2^IntBits
Ops == {"newfile", "makefile", "makedir"}
Perms == {"writable", "readonly", "nosearch"}

VARIABLES
  build,        \* the gentmp the library was built with
  perm,         \* the temporary directory's permissions for these processes
  fs,           \* name -> the call (<<p, n>>) or other user that created it
  pgrand,       \* p -> p's static pgrand
  next,         \* p -> p's static next (tempnam build)
  pc,           \* p -> where p is in its call
  op,           \* p -> the function p is in
  name,         \* p -> the filename of p's current iteration
  result,       \* p -> what p's last call returned
  calls,        \* p -> calls p has made
  foreign       \* files other users have created

vars == <<build, perm, fs, pgrand, next, pc, op, name, result, calls, foreign>>

TypeOK ==
  /\ build \in Builds
  /\ perm \in Perms
  /\ \A n \in DOMAIN fs : n \in Seq(0..63 \cup TempNames)
  /\ pgrand \in [Procs -> 0..Long - 1]
  /\ next \in [Procs -> 0..Int - 1]
  /\ pc \in [Procs -> {"idle", "gen", "access", "open", "mkdir", "done"}]
  /\ op \in [Procs -> Ops]
  /\ calls \in [Procs -> 0..MaxCalls]
  /\ foreign \in 0..MaxForeign

Init ==
  /\ build \in Builds
  /\ perm \in Perms
  /\ fs = <<>>
  /\ pgrand = [p \in Procs |-> 0]
  /\ next = [p \in Procs |-> 0]
  /\ pc = [p \in Procs |-> "idle"]
  /\ op = [p \in Procs |-> "newfile"]
  /\ name = [p \in Procs |-> None]
  /\ result = [p \in Procs |-> None]
  /\ calls = [p \in Procs |-> 0]
  /\ foreign = 0

\* Leave the loop returning r.
Finish(p, r) ==
  /\ pc' = [pc EXCEPT ![p] = "done"]
  /\ result' = [result EXCEPT ![p] = r]

---------------------------------------------------------------------------
(* gentmp                                                                  *)

\* addn(p, val, n): up to n base-64 digits of val, least significant first,
\* stopping after the digit that leaves val zero.
RECURSIVE AddN(_, _)
AddN(val, n) ==
  IF n = 0 THEN <<>>
  ELSE <<val % 64>> \o (IF val \div 64 = 0 THEN <<>> ELSE AddN(val \div 64, n - 1))

\* Mutant: pgrand is not advanced.
NextRandStuck(g) == g

\* pgrand = (pgrand << 16) + pgrand * 3, in a long.
NextRand(g) == (g * 65536 + g * 3) % Long

\* The name gentmp builds from the pgrand it starts with, after the
\* directory and prefix: chars[pgrand & 0x3f], addn(pid, 8), then addn of
\* each of the next two values of pgrand, the second mixed with the
\* argument addresses.
TmpName(p, g) ==
  <<g % 64>> \o AddN(Pid[p], 8) \o AddN(NextRand(g), 4)
    \o AddN(NextRand(NextRand(g)) ^^ AddrBits[p], 4)

\* The pgrand a gentmp starts from: a seed on the first call.
Seed(p) == IF pgrand[p] = 0 THEN Seeds ELSE {pgrand[p]}

\* The Unix gentmp: seed pgrand on the first call, build the name, advance
\* pgrand.
Gentmp(p) ==
  /\ pc[p] = "gen" /\ build = "unix"
  /\ \E g \in Seed(p) :
       /\ name' = [name EXCEPT ![p] = TmpName(p, g)]
       /\ pgrand' = [pgrand EXCEPT ![p] = NextRand(NextRand(g))]
  /\ pc' = [pc EXCEPT ![p] = "access"]
  /\ UNCHANGED <<build, perm, next, fs, op, result, calls, foreign>>

\* The name the tempnam build makes: tempnam's name t, addn(next, 4), then
\* what the Unix build appends after the prefix.
TempnamName(p, t, g) == <<t>> \o AddN(next[p], 4) \o TmpName(p, g)

\* The tempnam gentmp: NULL when tempnam or malloc fails, before pgrand is
\* seeded (the caller then returns NULL); otherwise the name is built
\* from tempnam's, next is incremented and pgrand advanced as above.
GentmpTempnam(p) ==
  /\ pc[p] = "gen" /\ build = "tempnam"
  /\ \/ /\ Finish(p, None)
        /\ UNCHANGED <<pgrand, next, name>>
     \/ /\ \E g \in Seed(p), t \in TempNames :
             /\ name' = [name EXCEPT ![p] = TempnamName(p, t, g)]
             /\ pgrand' = [pgrand EXCEPT ![p] = NextRand(NextRand(g))]
        /\ next' = [next EXCEPT ![p] = (@ + 1) % Int]
        /\ pc' = [pc EXCEPT ![p] = "access"]
        /\ UNCHANGED result
  /\ UNCHANGED <<build, perm, fs, op, calls, foreign>>

---------------------------------------------------------------------------
(* pg_newfile, pg_makenewfile and pg_makenewdir (make = 1)                 *)

Exists(n) == n \in DOMAIN fs

\* A call of one of the three functions.
Call(p, o) ==
  /\ pc[p] = "idle" /\ calls[p] < MaxCalls
  /\ pc' = [pc EXCEPT ![p] = "gen"]
  /\ op' = [op EXCEPT ![p] = o]
  /\ calls' = [calls EXCEPT ![p] = @ + 1]
  /\ UNCHANGED <<build, perm, next, fs, pgrand, name, result, foreign>>


\* access(filename, 0): ENOENT ends the search (pg_newfile returns the name;
\* the others go on to create it); an existing name is freed and the loop
\* goes on; any other error (a directory that cannot be searched) returns
\* NULL.
Access(p) ==
  /\ pc[p] = "access"
  /\ CASE perm = "nosearch" -> Finish(p, None)
       [] Exists(name[p])   -> pc' = [pc EXCEPT ![p] = "gen"] /\ UNCHANGED result
       [] op[p] = "newfile" -> Finish(p, name[p])
       [] op[p] = "makefile" -> pc' = [pc EXCEPT ![p] = "open"] /\ UNCHANGED result
       [] OTHER             -> pc' = [pc EXCEPT ![p] = "mkdir"] /\ UNCHANGED result
  /\ UNCHANGED <<build, perm, next, fs, pgrand, op, name, calls, foreign>>

\* Mutant: open with O_CREAT but without O_EXCL.
OpenCreatesNoExcl(n) == perm = "writable"

\* open(filename, O_CREAT | O_EXCL | O_RDWR) creates the file: it fails
\* when the name exists or the directory is not writable.
OpenCreates(n) == perm = "writable" /\ ~Exists(n)

\* pg_makenewfile after ENOENT: a successful open writes "pgnf", closes and
\* returns the name; a failed one frees it and loops.
Open(p) ==
  /\ pc[p] = "open"
  /\ IF OpenCreates(name[p])
       THEN /\ fs' = IF Exists(name[p]) THEN fs
                     ELSE fs @@ (name[p] :> <<p, calls[p]>>)
            /\ Finish(p, name[p])
       ELSE /\ pc' = [pc EXCEPT ![p] = "gen"]
            /\ UNCHANGED <<fs, result>>
  /\ UNCHANGED <<build, perm, next, pgrand, op, name, calls, foreign>>

\* pg_makenewdir after ENOENT: mkdir, and on failure only perror; the name
\* is returned either way.
Mkdir(p) ==
  /\ pc[p] = "mkdir"
  /\ fs' = IF perm = "writable" /\ ~Exists(name[p])
             THEN fs @@ (name[p] :> <<p, calls[p]>>) ELSE fs
  /\ Finish(p, name[p])
  /\ UNCHANGED <<build, perm, next, pgrand, op, name, calls, foreign>>

\* The caller gets the result.
Return(p) ==
  /\ pc[p] = "done"
  /\ pc' = [pc EXCEPT ![p] = "idle"]
  /\ UNCHANGED <<build, perm, next, fs, pgrand, op, name, result, calls, foreign>>

---------------------------------------------------------------------------
(* Other users of the directory                                            *)

\* The names p's next gentmp can build.
NextNames(p) ==
  IF build = "unix" THEN {TmpName(p, pgrand[p])}
  ELSE {TempnamName(p, t, pgrand[p]) : t \in TempNames}

\* Another user creates the file p is about to open, or the one p's next
\* gentmp would name (left behind by an earlier process with p's pid, or
\* made by someone who guesses).
ForeignCreate(p) ==
  /\ foreign < MaxForeign /\ pgrand[p] # 0
  /\ \E n \in ({name[p]} \cup NextNames(p)) \ {None} :
       /\ ~Exists(n)
       /\ fs' = fs @@ (n :> <<"other", foreign>>)
  /\ foreign' = foreign + 1
  /\ UNCHANGED <<build, perm, next, pgrand, pc, op, name, result, calls>>

Step(p) == Gentmp(p) \/ GentmpTempnam(p) \/ Access(p) \/ Open(p) \/ Mkdir(p) \/ Return(p)

Next ==
  \/ \E p \in Procs, o \in Ops : Call(p, o)
  \/ \E p \in Procs : Step(p)
  \/ \E p \in Procs : ForeignCreate(p)

\* A process that is in a call keeps running; calling and other users are
\* not obliged to act.
Fairness == \A p \in Procs : WF_vars(Step(p))

Spec == Init /\ [][Next]_vars /\ Fairness

---------------------------------------------------------------------------
(* Properties                                                              *)

\* pg_makenewfile's promise to a caller that may run beside other
\* processes and users: the file whose name it returns was created by
\* that very call (the O_EXCL open after the racy access check), so no
\* two callers, and no other user, ever hold the same new file.
MakeNewFileExclusive ==
  \A p \in Procs :
    pc[p] = "done" /\ op[p] = "makefile" /\ result[p] # None
      => fs[result[p]] = <<p, calls[p]>>

\* The hang: pg_makenewfile in a directory it may search but not write gets
\* ENOENT from access and EACCES from open on every name, for ever.
Hangs(p) == perm = "readonly" /\ op[p] = "makefile"

\* Every call of the generator returns, however the names it draws collide
\* with files of other processes and users, except in the hang above: the
\* loop advances pgrand, so it does not retry a name that exists.
CallReturns ==
  \A p \in Procs : (pc[p] = "gen" /\ ~Hangs(p)) ~> (pc[p] = "idle")

=============================================================================
