------------------------------- MODULE Fsync3f -------------------------------
(***************************************************************************)
(* The LIB3F FSYNC subroutine (src/runtime/flang/fsync3f.c) and the       *)
(* Windows fsync shim it is built with, in a program that writes records *)
(* to Fortran units, flushes them, and may crash and be restarted.        *)
(*                                                                         *)
(* A record written to a unit goes to the stdio buffer of the unit's file *)
(* (buf); FLUSH or CLOSE moves it to the kernel's dirty pages (kern); the *)
(* kernel writes pages back on its own or when fsync(2) is called (disk). *)
(* A crash loses buf and kern.  The runtime's __getfile3f, __io_getfd and *)
(* the OPEN, WRITE, FLUSH and CLOSE statements are not in this file; they *)
(* are the environment of FSYNC here.                                    *)
(***************************************************************************)
EXTENDS Integers

CONSTANTS
  Units,        \* Fortran unit numbers
  Stdout,       \* the preconnected output unit (6)
  Files,        \* files a unit can be connected to
  Kind,         \* Kind[f]: "disk", "tty", or "nohandle" (an fd with no OS handle)
  Platforms,    \* builds: "posix" and "windows" (HOST_WIN, WIN32, ...)
  IoError,      \* whether the device may fail a sync
  MaxRecs,      \* bound on the records written in a behaviour
  NoFile        \* __getfile3f's NULL

DiskFiles == {f \in Files : Kind[f] = "disk"}
StdoutFiles == {f \in Files : Kind[f] # "disk"}
Recs == 1..MaxRecs
Errnos == {"0", "EBADF", "EINVAL", "EIO"}

VARIABLES
  platform,     \* the build
  unit,         \* unit -> FILE* the runtime keeps for it, or NoFile
  buf,          \* file -> records in the stdio buffer
  kern,         \* file -> records in dirty kernel pages
  disk,         \* file -> records on stable storage
  errno,
  ret,          \* the value the last fsync returned to FSYNC, which discards it
  nrec,         \* records written so far
  up,           \* the process is running
  synced        \* ghost: file -> records an FSYNC whose fsync returned 0
                \* promised to be durable

vars == <<platform, unit, buf, kern, disk, errno, ret, nrec, up, synced>>

TypeOK ==
  /\ platform \in Platforms
  /\ unit \in [Units -> Files \cup {NoFile}]
  /\ \A g \in {buf, kern, disk, synced} : g \in [Files -> SUBSET Recs]
  /\ errno \in Errnos
  /\ ret \in {0, -1}
  /\ nrec \in 0..MaxRecs
  /\ up \in BOOLEAN

Init ==
  /\ platform \in Platforms
  /\ \E f \in StdoutFiles :
       unit = [u \in Units |-> IF u = Stdout THEN f ELSE NoFile]
  /\ buf = [f \in Files |-> {}]
  /\ kern = [f \in Files |-> {}]
  /\ disk = [f \in Files |-> {}]
  /\ synced = [f \in Files |-> {}]
  /\ errno = "0"
  /\ ret = 0
  /\ nrec = 0
  /\ up = TRUE

---------------------------------------------------------------------------
(* The operating system.                                                   *)

\* fsync(2) on POSIX: EBADF for a descriptor with no open file, EINVAL for
\* a terminal, EIO when the device fails; on success errno is untouched.
PosixFsyncResults(k) ==
  CASE k = "nohandle" -> {[r |-> -1, e |-> "EBADF"]}
    [] k = "tty"      -> {[r |-> -1, e |-> "EINVAL"]}
    [] OTHER          -> {[r |-> 0, e |-> errno]}
                           \cup (IF IoError THEN {[r |-> -1, e |-> "EIO"]} ELSE {})

\* What FlushFileBuffers leaves in GetLastError: a console handle cannot be
\* flushed; a disk handle is flushed unless the device fails.
FlushFileBuffersResults(k) ==
  IF k = "tty" THEN {"ERROR_INVALID_HANDLE"}
  ELSE {"ok"} \cup (IF IoError THEN {"ERROR_IO_DEVICE"} ELSE {})

---------------------------------------------------------------------------
(* fsync3f.c                                                               *)

\* Mutant: the switch without its ERROR_INVALID_HANDLE case.
ShimErrnoNoInvalid(err) == "EIO"

\* The errno the shim's switch gives a Windows error.
ShimErrno(err) == IF err = "ERROR_INVALID_HANDLE" THEN "EINVAL" ELSE "EIO"

\* Mutant: the failed-FlushFileBuffers branch without its return -1.
ShimFsyncNoReturn(k, err) ==
  IF k = "nohandle" THEN [r |-> -1, e |-> "EBADF"]
  ELSE IF err # "ok" THEN [r |-> 0, e |-> ShimErrno(err)]
  ELSE [r |-> 0, e |-> errno]

\* The Windows fsync: an fd with no OS handle is EBADF; a failed
\* FlushFileBuffers is -1 with its error translated; otherwise 0.
ShimFsync(k, err) ==
  IF k = "nohandle" THEN [r |-> -1, e |-> "EBADF"]
  ELSE IF err # "ok" THEN [r |-> -1, e |-> ShimErrno(err)]
  ELSE [r |-> 0, e |-> errno]

\* The outcomes of fsync(__io_getfd(f)) in the build: whether the device
\* really synced (ok), and what fsync returned and left in errno (res).
FsyncResults(k) ==
  IF platform = "posix"
    THEN {[ok |-> x.r = 0, res |-> x] : x \in PosixFsyncResults(k)}
    ELSE {[ok |-> k # "nohandle" /\ err = "ok", res |-> ShimFsync(k, err)] :
            err \in FlushFileBuffersResults(k)}

\* __getfile3f(*lu): the unit's FILE*, or NULL when it is not connected.
GetFile3f(lu) == unit[lu]

\* The file whose descriptor __io_getfd(f) returns.
IoGetfd(f) == f

\* FSYNC(lu): flush the kernel pages of the unit's file to disk.  The
\* result of fsync is discarded; the ghost records what a successful call
\* promised: what had left the stdio buffer before it.
Fsync3f(lu) ==
  LET f == GetFile3f(lu) IN
  /\ up
  /\ IF f = NoFile
       THEN UNCHANGED <<kern, disk, errno, ret, synced>>
       ELSE LET fd == IoGetfd(f) IN
            \E o \in FsyncResults(Kind[fd]) :
              /\ errno' = o.res.e
              /\ ret' = o.res.r
              /\ IF o.ok
                   THEN /\ disk' = [disk EXCEPT ![fd] = @ \cup kern[fd]]
                        /\ kern' = [kern EXCEPT ![fd] = {}]
                   ELSE UNCHANGED <<kern, disk>>
              /\ synced' = IF o.res.r = 0
                             THEN [synced EXCEPT ![f] = disk[f] \cup kern[f]]
                             ELSE synced
  /\ UNCHANGED <<platform, unit, buf, nrec, up>>

---------------------------------------------------------------------------
(* The program and the runtime's I/O statements.                           *)

\* OPEN(u, FILE=f): connect a free unit to a disk file no unit holds.
Open(u, f) ==
  /\ up /\ unit[u] = NoFile
  /\ \A v \in Units : unit[v] # f
  /\ unit' = [unit EXCEPT ![u] = f]
  /\ UNCHANGED <<platform, buf, kern, disk, errno, ret, nrec, up, synced>>

\* CLOSE(u): fclose writes the stdio buffer to the kernel.
Close(u) ==
  /\ up /\ unit[u] \in DiskFiles
  /\ kern' = [kern EXCEPT ![unit[u]] = @ \cup buf[unit[u]]]
  /\ buf' = [buf EXCEPT ![unit[u]] = {}]
  /\ unit' = [unit EXCEPT ![u] = NoFile]
  /\ UNCHANGED <<platform, disk, errno, ret, nrec, up, synced>>

\* WRITE(u): a new record goes to the stdio buffer of a disk file.
Write(u) ==
  /\ up /\ unit[u] \in DiskFiles /\ nrec < MaxRecs
  /\ buf' = [buf EXCEPT ![unit[u]] = @ \cup {nrec + 1}]
  /\ nrec' = nrec + 1
  /\ UNCHANGED <<platform, unit, kern, disk, errno, ret, up, synced>>

\* FLUSH(u), or a full buffer: fflush moves the buffer to the kernel.
Flush(u) ==
  /\ up /\ unit[u] \in DiskFiles /\ buf[unit[u]] # {}
  /\ kern' = [kern EXCEPT ![unit[u]] = @ \cup buf[unit[u]]]
  /\ buf' = [buf EXCEPT ![unit[u]] = {}]
  /\ UNCHANGED <<platform, unit, disk, errno, ret, nrec, up, synced>>

\* The kernel writes some dirty pages back, in any order.
Writeback(f, S) ==
  /\ S # {} /\ S \subseteq kern[f]
  /\ disk' = [disk EXCEPT ![f] = @ \cup S]
  /\ kern' = [kern EXCEPT ![f] = @ \ S]
  /\ UNCHANGED <<platform, unit, buf, errno, ret, nrec, up, synced>>

\* A crash of the machine: the stdio buffers and dirty pages are lost.
Crash ==
  /\ up
  /\ up' = FALSE
  /\ buf' = [f \in Files |-> {}]
  /\ kern' = [f \in Files |-> {}]
  /\ UNCHANGED <<platform, unit, disk, errno, ret, nrec, synced>>

\* The program starts again with only the preconnected unit.
Restart ==
  /\ ~up
  /\ up' = TRUE
  /\ \E f \in StdoutFiles :
       unit' = [u \in Units |-> IF u = Stdout THEN f ELSE NoFile]
  /\ errno' = "0"
  /\ ret' = 0
  /\ UNCHANGED <<platform, buf, kern, disk, nrec, synced>>

Next ==
  \/ \E lu \in Units : Fsync3f(lu)
  \/ \E u \in Units : Close(u) \/ Write(u) \/ Flush(u)
  \/ \E u \in Units, f \in DiskFiles : Open(u, f)
  \/ \E f \in DiskFiles, S \in SUBSET Recs : Writeback(f, S)
  \/ Crash
  \/ Restart

Spec == Init /\ [][Next]_vars

---------------------------------------------------------------------------
(* Properties.                                                             *)

\* After FSYNC(lu) whose fsync returned 0, every record that had left the
\* unit's stdio buffer before the call is on disk, through later
\* writebacks, crashes and restarts (fsync3f.c:73 and the shim's return
\* paths, 37-63).
DurableAfterFsync == \A f \in Files : synced[f] \subseteq disk[f]

\* Reference for the shim: POSIX fsync(2) sets EBADF for a descriptor with
\* no file, EINVAL for a terminal, EIO for a failed device, and leaves
\* errno alone when it succeeds (which it does only for a disk file).
PosixErrno(k, r) ==
  IF r = 0 THEN errno ELSE CASE k = "nohandle" -> "EBADF"
                             [] k = "tty"      -> "EINVAL"
                             [] OTHER          -> "EIO"

\* Every FSYNC leaves errno as fsync(2) would on POSIX for the file's kind
\* and the outcome, whichever build it is: the shim's translation of
\* _get_osfhandle and GetLastError (fsync3f.c:37-61) agrees with POSIX.
FsyncErrnoAsPosix ==
  [][\A lu \in Units :
       Fsync3f(lu) /\ unit[lu] # NoFile =>
         /\ ret' = 0 => Kind[unit[lu]] = "disk"
         /\ errno' = PosixErrno(Kind[unit[lu]], ret')]_vars

=============================================================================
