--------------------------- MODULE StateDirProofs ---------------------------
(***************************************************************************)
(* Proofs about StateDir for any number of instances and lock files: the   *)
(* flock excludes, and the files of a running instance stay.               *)
(***************************************************************************)
EXTENDS StateDir, TLAPS

(* From TryLock to the unlocking an instance is the only holder of the     *)
(* flock of the inode it has open, whether that is still named "lock" or   *)
(* not.                                                                    *)
Holding == {"clean", "initUnlock", "running"}
HolderInv ==
  \A p \in Instances :
    /\ pc[p] \in {"initLock", "lock"} => fd[p] \in Inodes
    /\ pc[p] \in Holding => fd[p] \in Inodes /\ held[fd[p]] = {p}

DirInv == TypeOK /\ HolderInv

-----------------------------------------------------------------------------
(* LockStateDir, first half: the inode that is opened is a lock file       *)
(* (parent.go:115-119).                                                    *)
LEMMA OpenLockPreserves ==
  ASSUME DirInv, NEW p \in Instances, InitOpen(p) \/ ParentOpen(p)
  PROVE  DirInv'
<1> USE StateDirAssumption DEF DirInv, HolderInv, Holding, Inodes, None
<1>1. ASSUME NEW from \in {"initOpen", "open"}, NEW to \in {"initLock", "lock"},
             OpenLock(p, from, to)
      PROVE  DirInv'
  <2>1. /\ pc[p] = from /\ pc' = [pc EXCEPT ![p] = to]
        /\ lockIno' \in Inodes /\ nextIno' \in 1..(MaxInodes + 1)
        /\ fd' = [fd EXCEPT ![p] = lockIno']
        /\ UNCHANGED <<dir, held, files, fifos>>
    BY <1>1 DEF OpenLock, Goto, TypeOK
  <2>2. TypeOK'
    BY <2>1 DEF TypeOK
  <2>3. HolderInv'
    BY <2>1 DEF TypeOK
  <2> QED
    BY <2>2, <2>3
<1> QED
  BY <1>1 DEF InitOpen, ParentOpen

(* LockStateDir, second half: flock succeeds only if nobody holds the      *)
(* inode (parent.go:119-127).                                              *)
LEMMA TryLockPreserves ==
  ASSUME DirInv, NEW p \in Instances, InitLock(p) \/ ParentLock(p)
  PROVE  DirInv'
<1> USE DEF DirInv, Holding
<1>1. ASSUME NEW from \in {"initLock", "lock"}, NEW to \in {"clean", "running"},
             TryLock(p, from, to)
      PROVE  DirInv'
  <2>1. /\ pc[p] = from /\ pc' = [pc EXCEPT ![p] = to]
        /\ fd[p] \in Inodes /\ held[fd[p]] = {}
        /\ held' = [held EXCEPT ![fd[p]] = {p}]
        /\ UNCHANGED <<dir, lockIno, nextIno, fd, files, fifos>>
    BY <1>1 DEF TryLock, Goto, HolderInv
  <2>2. TypeOK'
    BY <2>1 DEF TypeOK
  <2>3. HolderInv'
    BY <2>1 DEF TypeOK, HolderInv
  <2> QED
    BY <2>2, <2>3
<1> QED
  BY <1>1 DEF InitLock, ParentLock

(* An instance that fails to lock closes the file and holds nothing        *)
(* (parent.go:120-125).                                                    *)
LEMMA TryLockFailsPreserves ==
  ASSUME DirInv, NEW p \in Instances, InitLockFails(p) \/ ParentLockFails(p)
  PROVE  DirInv'
  BY DEF DirInv, TypeOK, HolderInv, Holding, InitLockFails, ParentLockFails, TryLockFails, Goto, None

(* Giving up the lock, in order or by SIGKILL, takes it from no other      *)
(* instance (parent.go:166, 488-503).                                      *)
LEMMA ReleasePreserves ==
  ASSUME DirInv, NEW p \in Instances, InitUnlock(p) \/ Unlock(p) \/ Crash(p)
  PROVE  DirInv'
<1> USE DEF DirInv, Holding
<1>1. /\ \E to \in {"mkfifo", "remove", "crashed"} : pc' = [pc EXCEPT ![p] = to]
      /\ Release(p)
      /\ UNCHANGED <<dir, lockIno, nextIno, files, fifos>>
  BY DEF InitUnlock, Unlock, Crash, Goto
<1>2. TypeOK'
  BY <1>1 DEF TypeOK, Release, None
<1>3. HolderInv'
  BY <1>1 DEF TypeOK, HolderInv, Release
<1> QED
  BY <1>2, <1>3

(* The steps that leave the lock alone (parent.go:480-501, 165;            *)
(* builtin/parent/parent.go:27-37).                                        *)
LEMMA OtherPreserves ==
  ASSUME DirInv, NEW p \in Instances,
         Mkdir(p) \/ Clean(p) \/ Mkfifo(p) \/ DirMissing(p) \/ WriteFiles(p) \/ RemoveAll(p)
  PROVE  DirInv'
<1> USE DEF DirInv, TypeOK, HolderInv, Holding, Goto
<1>1. CASE Mkdir(p)
  BY <1>1 DEF Mkdir
<1>2. CASE Clean(p)
  BY <1>2 DEF Clean
<1>3. CASE Mkfifo(p)
  BY <1>3 DEF Mkfifo
<1>4. CASE DirMissing(p)
  BY <1>4 DEF DirMissing
<1>5. CASE WriteFiles(p)
  BY <1>5 DEF WriteFiles
<1>6. CASE RemoveAll(p)
  BY <1>6 DEF RemoveAll, None
<1> QED
  BY <1>1, <1>2, <1>3, <1>4, <1>5, <1>6

-----------------------------------------------------------------------------
(* The inductive invariant of the state directory's lock                   *)
(* (parent.go:114-128, 480-503).                                           *)
THEOREM StateDirInvariant == Spec => []DirInv
<1>1. Init => DirInv
  <2> SUFFICES ASSUME Init PROVE DirInv
    OBVIOUS
  <2>1. dir \in BOOLEAN
    BY Zenon DEF Init
  <2>2. TypeOK
    BY <2>1, StateDirAssumption DEF Init, TypeOK, Inodes
  <2>3. HolderInv
    BY DEF Init, HolderInv, Holding
  <2> QED
    BY <2>2, <2>3 DEF DirInv
<1>2. DirInv /\ [Next]_vars => DirInv'
  <2> SUFFICES ASSUME DirInv, [Next]_vars PROVE DirInv'
    OBVIOUS
  <2>1. CASE Next
    BY <2>1, OpenLockPreserves, TryLockPreserves, TryLockFailsPreserves,
       ReleasePreserves, OtherPreserves DEF Next
  <2>2. CASE UNCHANGED vars
    BY <2>2 DEF vars, DirInv, TypeOK, HolderInv
  <2> QED
    BY <2>1, <2>2
<1> QED
  BY <1>1, <1>2, PTL DEF Spec

(* Type correctness of the directory, its lock and its files.              *)
THEOREM StateDirTypeOK == Spec => []TypeOK
  BY StateDirInvariant, PTL DEF DirInv

(* The lock excludes: instances that run at once have locked different     *)
(* inodes (parent.go:114-128).                                             *)
THEOREM LockExcludes == Spec => []OneRunningPerLock
<1>1. DirInv => OneRunningPerLock
  BY DEF DirInv, HolderInv, Holding, OneRunningPerLock, Running
<1> QED
  BY <1>1, StateDirInvariant, PTL

(* Nobody removes the files of a running instance while the lock file is   *)
(* one and the same (parent.go:476-503).                                   *)
THEOREM FilesOfRunningStay == Spec => FilesStay
<1>1. ASSUME DirInv, [Next]_vars, SameLockFile, dir',
             NEW p \in files, {pc[p], pc'[p]} = {"running"}
      PROVE  p \in files'
  <2>1. p \in Instances /\ pc[p] = "running" /\ pc'[p] = "running"
    BY <1>1 DEF DirInv, TypeOK
  <2>2. fd[p] \in Inodes /\ held[fd[p]] = {p}
    BY <1>1, <2>1 DEF DirInv, HolderInv, Holding
  <2>3. ASSUME NEW q \in Instances, pc[q] \in Holding PROVE q = p
    <3>1. fd[q] \in Inodes /\ held[fd[q]] = {q}
      BY <1>1, <2>3 DEF DirInv, HolderInv
    <3>2. fd[q] = fd[p]
      BY <1>1, <2>1, <2>2, <3>1, StateDirAssumption DEF SameLockFile, Inodes, None
    <3> QED
      BY <2>2, <3>1, <3>2
  <2>4. ASSUME NEW q \in Instances, Clean(q) PROVE FALSE
    BY <2>1, <2>3, <2>4 DEF Clean, Goto, Holding
  <2>5. ASSUME NEW q \in Instances, WriteFiles(q) PROVE p \in files'
    BY <2>3, <2>5 DEF WriteFiles, Holding
  <2>6. ASSUME NEW q \in Instances, RemoveAll(q) PROVE FALSE
    BY <1>1, <2>6 DEF RemoveAll
  <2>7. ASSUME NEW q \in Instances,
               \/ Mkdir(q) \/ InitOpen(q) \/ InitLock(q) \/ InitLockFails(q)
               \/ InitUnlock(q) \/ Mkfifo(q) \/ ParentOpen(q) \/ ParentLock(q)
               \/ ParentLockFails(q) \/ DirMissing(q) \/ Unlock(q) \/ Crash(q)
        PROVE  p \in files'
    BY <2>7 DEF Mkdir, InitOpen, InitLock, InitLockFails, InitUnlock, Mkfifo, ParentOpen,
                ParentLock, ParentLockFails, DirMissing, Unlock, Crash, OpenLock, TryLock,
                TryLockFails
  <2>8. CASE UNCHANGED vars
    BY <2>8 DEF vars
  <2> QED
    BY <1>1, <2>4, <2>5, <2>6, <2>7, <2>8 DEF Next
<1>2. DirInv /\ [Next]_vars =>
        [SameLockFile /\ dir' =>
           \A p \in files : {pc[p], pc'[p]} = {"running"} => p \in files']_vars
  BY <1>1
<1> QED
  BY <1>2, StateDirInvariant, PTL DEF Spec, FilesStay
=============================================================================
