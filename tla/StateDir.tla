------------------------------ MODULE StateDir ------------------------------
(***************************************************************************)
(* Several RootlessKit parents that are given the same --state-dir         *)
(* (pkg/parent: InitStateDir, LockStateDir, Parent; the builtin driver     *)
(* creates its FIFO from createParentOpt).  The lock file is a file like   *)
(* any other: flock locks the inode that was opened, and RemoveAll unlinks *)
(* the name, so the lock file of the directory may become a new inode.     *)
(***************************************************************************)
EXTENDS Naturals, FiniteSets

CONSTANTS
  Instances,  \* parent processes, each started at most once
  MaxInodes,  \* bound on the lock files ever created
  Exits       \* may a parent return (and remove the state dir)?

ASSUME StateDirAssumption == MaxInodes \in Nat /\ Exits \in BOOLEAN

Inodes == 1..MaxInodes
None   == 0

VARIABLES
  dir,     \* the state dir exists
  lockIno, \* inode of the file "lock" in it, or None
  nextIno, \* next inode to create
  held,    \* held[n]: the instances that hold the flock of inode n (at most one)
  fd,      \* the inode an instance has open, or None
  files,   \* owners of the other state files: whose child_pid and api.sock
  fifos,   \* owners of the file .bp-ready.pipe
  pc

vars == <<dir, lockIno, nextIno, held, fd, files, fifos, pc>>

Init ==
  /\ dir = FALSE /\ lockIno = None /\ nextIno = 1
  /\ held = [n \in Inodes |-> {}]
  /\ fd = [p \in Instances |-> None]
  /\ files = {} /\ fifos = {}
  /\ pc = [p \in Instances |-> "mkdir"]

Goto(p, from, to) == pc[p] = from /\ pc' = [pc EXCEPT ![p] = to]

\* The kernel drops the flocks of a process, and flock.Unlock drops its own.
Release(p) ==
  /\ held' = [n \in Inodes |-> held[n] \ {p}]
  /\ fd' = [fd EXCEPT ![p] = None]

-----------------------------------------------------------------------------
\* InitStateDir: MkdirAll.
Mkdir(p) ==
  /\ Goto(p, "mkdir", "initOpen")
  /\ dir' = TRUE
  /\ UNCHANGED <<lockIno, nextIno, held, fd, files, fifos>>

(* LockStateDir is two system calls: open with O_CREAT, then flock. *)

OpenLock(p, from, to) ==
  /\ Goto(p, from, to)
  /\ dir
  /\ IF lockIno = None
       THEN /\ nextIno <= MaxInodes
            /\ lockIno' = nextIno /\ nextIno' = nextIno + 1
       ELSE UNCHANGED <<lockIno, nextIno>>
  /\ fd' = [fd EXCEPT ![p] = lockIno']
  /\ UNCHANGED <<dir, held, files, fifos>>

\* Mutant: LOCK_SH instead of LOCK_EX.
TryLock_Shared(p, from, to) ==
  /\ Goto(p, from, to)
  /\ held' = [held EXCEPT ![fd[p]] = @ \cup {p}]
  /\ UNCHANGED <<dir, lockIno, nextIno, fd, files, fifos>>

TryLock(p, from, to) ==
  /\ Goto(p, from, to)
  /\ held[fd[p]] = {}
  /\ held' = [held EXCEPT ![fd[p]] = {p}]
  /\ UNCHANGED <<dir, lockIno, nextIno, fd, files, fifos>>

\* "another RootlessKit is running with the same state directory?"
TryLockFails(p, from) ==
  /\ Goto(p, from, "failed")
  /\ held[fd[p]] # {}
  /\ fd' = [fd EXCEPT ![p] = None]
  /\ UNCHANGED <<dir, lockIno, nextIno, held, files, fifos>>

InitOpen(p) == OpenLock(p, "initOpen", "initLock")
\* Mutant: InitStateDir ignores that it did not get the lock.
InitLock_Ignored(p) ==
  /\ Goto(p, "initLock", "clean")
  /\ UNCHANGED <<dir, lockIno, nextIno, held, fd, files, fifos>>

InitLock(p) == TryLock(p, "initLock", "clean")
InitLockFails(p) == TryLockFails(p, "initLock")

\* Mutant: the leftovers stay.
Clean_Nothing(p) ==
  /\ Goto(p, "clean", "initUnlock")
  /\ UNCHANGED <<dir, lockIno, nextIno, held, fd, files, fifos>>

\* Everything but the lock file is removed, whoever it belongs to.
Clean(p) ==
  /\ Goto(p, "clean", "initUnlock")
  /\ files' = {} /\ fifos' = {}
  /\ UNCHANGED <<dir, lockIno, nextIno, held, fd>>

InitUnlock(p) ==
  /\ Goto(p, "initUnlock", "mkfifo")
  /\ Release(p)
  /\ UNCHANGED <<dir, lockIno, nextIno, files, fifos>>

\* builtin.NewDriver, without the lock: RemoveAll, then Mkfifo.
Mkfifo(p) ==
  /\ Goto(p, "mkfifo", "open")
  /\ dir
  /\ fifos' = {p}
  /\ UNCHANGED <<dir, lockIno, nextIno, held, fd, files>>

\* Parent: createCleanupLock opens the directory, LockStateDir.
ParentOpen(p) == OpenLock(p, "open", "lock")
ParentLock(p) == TryLock(p, "lock", "running")
ParentLockFails(p) == TryLockFails(p, "lock")

\* A system call finds no state dir.
DirMissing(p) ==
  /\ pc[p] \in {"initOpen", "mkfifo", "open"}
  /\ ~dir
  /\ pc' = [pc EXCEPT ![p] = "failed"]
  /\ UNCHANGED <<dir, lockIno, nextIno, held, fd, files, fifos>>

\* The parent has written child_pid and its sockets.
WriteFiles(p) ==
  /\ pc[p] = "running" /\ dir
  /\ files' = {p}
  /\ UNCHANGED <<dir, lockIno, nextIno, held, fd, fifos, pc>>

\* Parent returns: the deferred calls run in reverse order, Unlock before
\* RemoveAll.
Unlock(p) ==
  /\ Exits
  /\ Goto(p, "running", "remove")
  /\ Release(p)
  /\ UNCHANGED <<dir, lockIno, nextIno, files, fifos>>

RemoveAll(p) ==
  /\ Goto(p, "remove", "exited")
  /\ dir' = FALSE /\ lockIno' = None
  /\ files' = {} /\ fifos' = {}
  /\ UNCHANGED <<nextIno, held, fd>>

\* SIGKILL: nothing is cleaned up but the flocks.
Crash(p) ==
  /\ pc[p] \notin {"failed", "exited", "crashed"}
  /\ pc' = [pc EXCEPT ![p] = "crashed"]
  /\ Release(p)
  /\ UNCHANGED <<dir, lockIno, nextIno, files, fifos>>

Next ==
  \E p \in Instances :
    \/ Mkdir(p) \/ InitOpen(p) \/ InitLock(p) \/ InitLockFails(p) \/ Clean(p)
    \/ InitUnlock(p) \/ Mkfifo(p) \/ ParentOpen(p) \/ ParentLock(p)
    \/ ParentLockFails(p) \/ DirMissing(p) \/ WriteFiles(p) \/ Unlock(p)
    \/ RemoveAll(p) \/ Crash(p)

Spec == Init /\ [][Next]_vars

\* Every step of an instance but WriteFiles, Unlock and Crash, which nothing
\* forces.
Proceeds(p) ==
  \/ Mkdir(p) \/ InitOpen(p) \/ InitLock(p) \/ InitLockFails(p) \/ Clean(p)
  \/ InitUnlock(p) \/ Mkfifo(p) \/ ParentOpen(p) \/ ParentLock(p)
  \/ ParentLockFails(p) \/ DirMissing(p) \/ RemoveAll(p)

(* The kernel schedules every instance. *)
FairSpec == Spec /\ \A p \in Instances : WF_vars(Proceeds(p))

-----------------------------------------------------------------------------
(* Properties *)

TypeOK ==
  /\ dir \in BOOLEAN
  /\ lockIno \in Inodes \cup {None}
  /\ nextIno \in 1..(MaxInodes + 1)
  /\ held \in [Inodes -> SUBSET Instances]
  /\ fd \in [Instances -> Inodes \cup {None}]
  /\ files \subseteq Instances /\ fifos \subseteq Instances
  /\ pc \in [Instances -> {"mkdir", "initOpen", "initLock", "clean", "initUnlock",
                           "mkfifo", "open", "lock", "running", "remove",
                           "exited", "failed", "crashed"}]

Running == {p \in Instances : pc[p] = "running"}

(* One RootlessKit at a time runs in a state dir: LockStateDir fails with  *)
(* "another RootlessKit is running with the same state directory?"         *)
(* (parent.go:124).                                                        *)
OneRunning == Cardinality(Running) <= 1

(* The lock excludes: two instances that run at once have locked different *)
(* inodes, so the name of one of the lock files was unlinked in between    *)
(* (parent.go:114-128).                                                    *)
OneRunningPerLock == \A p, q \in Running : fd[p] = fd[q] => p = q

(* While all instances that have a lock file open have the same one, the   *)
(* files of a running instance are removed by nothing but the end of the   *)
(* directory: not by the InitStateDir of an instance that starts meanwhile *)
(* (parent.go:476-503).                                                    *)
SameLockFile == \A p, q \in Instances : None \in {fd[p], fd[q]} \/ fd[p] = fd[q]
FilesStay ==
  [][SameLockFile /\ dir' =>
       \A p \in files : {pc[p], pc'[p]} = {"running"} => p \in files']_vars

Alone(p) == \A q \in Instances \ {p} : pc[q] \in {"exited", "failed", "crashed"}

(* Whatever earlier instances left behind, wherever they crashed, the next *)
(* one starts: the flock of a dead process is gone, its files are removed, *)
(* and the FIFO is there (parent.go:476-503).                              *)
AloneRecovers ==
  \A p \in Instances : (pc[p] = "mkdir" /\ Alone(p)) ~>
    (pc[p] = "crashed" \/ (pc[p] = "running" /\ files \subseteq {p} /\ p \in fifos))

(* The comment at parent.go:476-477: "InitStateDir removes everything in   *)
(* the state dir except the lock file.  This is needed because when the    *)
(* previous execution crashed": what it removes are leftovers, so the FIFO *)
(* of an instance that runs is in place.                                   *)
FifoPresent == \A p \in Running : p \in fifos
=============================================================================
