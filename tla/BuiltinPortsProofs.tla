------------------------- MODULE BuiltinPortsProofs -------------------------
(***************************************************************************)
(* Proofs about BuiltinPorts for any number of callers, routines and port  *)
(* specifications: the registry and the routines stay together, no stop    *)
(* channel is closed twice, and the driver implements PortManager until an *)
(* Accept fails.                                                           *)
(***************************************************************************)
EXTENDS BuiltinPorts, FiniteSetTheorems, TLAPS

(* RemovePort, and nobody else, keeps d.mu over a step.                    *)
LockInv == \A t \in Callers : pc[t] = "stopping" <=> mu = t

(* What a call knows: AddPort its specification and, once Run returned,    *)
(* the routine that nobody else refers to; RemovePort the routine that it  *)
(* told to stop and that is still listed.                                  *)
CallerInv ==
  \A t \in Callers :
    /\ pc[t] \in {"validate", "run", "insert"} => arg[t] \in Specs
    /\ pc[t] = "insert" =>
         /\ mine[t] \in Routines /\ mine[t] < nextR
         /\ ~stopCh[mine[t]] /\ spec[mine[t]] = arg[t]
         /\ \A i \in Ids : stoppers[i] # mine[t]
    /\ pc[t] = "stopping" =>
         /\ mine[t] \in Routines /\ stopCh[mine[t]]
         /\ \E i \in Ids : stoppers[i] = mine[t]

(* Two calls of AddPort never insert the same routine.                     *)
OneInserter ==
  \A t, u \in Callers :
    pc[t] = "insert" /\ pc[u] = "insert" /\ mine[t] = mine[u] => t = u

(* d.ports and d.stoppers have the same IDs, all of them given out, and no *)
(* two IDs the same routine.                                               *)
RegistryInv ==
  \A i \in Ids :
    /\ i >= nextID => stoppers[i] = NoRoutine
    /\ ports[i] = NoSpec <=> stoppers[i] = NoRoutine
    /\ stoppers[i] # NoRoutine => stoppers[i] < nextR /\ ports[i] = spec[stoppers[i]]
    /\ \A j \in Ids : stoppers[i] # NoRoutine /\ stoppers[i] = stoppers[j] => i = j

(* A listed routine was told to stop only by a RemovePort that still waits *)
(* for it.                                                                 *)
StopInv ==
  \A i \in Ids : stoppers[i] # NoRoutine /\ stopCh[stoppers[i]] =>
    \E t \in Callers : pc[t] = "stopping" /\ mine[t] = stoppers[i]

(* A routine that was not started does nothing.  The listener of one that  *)
(* was is open as long as its goroutine selects, and that goroutine leaves *)
(* the select only for a stop or, if it serves TCP, for an Accept that     *)
(* failed; the goroutine that accepts or reads ends with an open listener  *)
(* only by a failure of its own.                                           *)
RoutineInv ==
  \A r \in Routines :
    /\ r >= nextR => ln[r] = "none" /\ acc[r] = "off" /\ sel[r] = "off" /\ ~stopCh[r] /\ r \notin failed
    /\ r < nextR =>
         /\ spec[r] \in Specs /\ acc[r] # "off" /\ ln[r] \in {"open", "closed"}
         /\ ln[r] = "open" <=> sel[r] = "select"
         /\ r \in failed => acc[r] = "done"
         /\ acc[r] = "done" => stopCh[r] \/ r \in failed
         /\ ln[r] = "open" \/ stopCh[r] \/ (r \in failed /\ Proto[spec[r]] = "tcp")

(* Every routine was told to stop, is listed, or is about to be.           *)
TrackedInv ==
  \A r \in Routines : r < nextR =>
    \/ stopCh[r]
    \/ \E i \in Ids : stoppers[i] = r
    \/ \E t \in Callers : pc[t] = "insert" /\ mine[t] = r

(* The kernel binds an address once.                                       *)
AddressInv ==
  \A r, q \in Routines :
    ln[r] = "open" /\ ln[q] = "open" /\ Addr[spec[r]] = Addr[spec[q]] => r = q

(* Every routine gets at most one ID: as many IDs are given out as         *)
(* routines were started, but for those about to be inserted.              *)
Inserting == {t \in Callers : pc[t] = "insert"}
CountInv == IsFiniteSet(Inserting) /\ nextID + Cardinality(Inserting) = nextR

(* The inductive invariant.                                                *)
BuiltinInv ==
  /\ TypeOK /\ LockInv /\ CallerInv /\ OneInserter /\ RegistryInv
  /\ StopInv /\ RoutineInv /\ TrackedInv /\ AddressInv /\ CountInv

-----------------------------------------------------------------------------
(* The calls of AddPort between Run and the insertion, counted.            *)

(* A step that brings no call to the insertion and takes none from it      *)
(* keeps the count.                                                        *)
LEMMA CountStays ==
  ASSUME CountInv, Inserting' = Inserting, UNCHANGED <<nextID, nextR>>
  PROVE  CountInv'
  BY DEF CountInv

(* Run gives one more routine to one more call (parent.go:176-189).        *)
LEMMA CountRun ==
  ASSUME TypeOK, CountInv, NEW t \in Callers, AddRun(t)
  PROVE  CountInv'
<1>1. t \notin Inserting /\ Inserting' = Inserting \cup {t}
  BY DEF TypeOK, Inserting, AddRun
<1>2. /\ IsFiniteSet(Inserting \cup {t})
      /\ Cardinality(Inserting \cup {t}) = Cardinality(Inserting) + 1
      /\ Cardinality(Inserting) \in Nat
  BY <1>1, FS_AddElement, FS_CardinalityType DEF CountInv
<1>3. nextID \in Nat /\ nextR \in Nat /\ nextID' = nextID /\ nextR' = nextR + 1
  BY BuiltinAssumption DEF TypeOK, AddRun, driverVars
<1> QED
  BY <1>1, <1>2, <1>3 DEF CountInv

(* The insertion gives one ID to the routine of one call, so there is an   *)
(* ID left for it (parent.go:190-195).                                     *)
LEMMA CountInsert ==
  ASSUME TypeOK, CountInv, NEW t \in Callers, AddInsert(t)
  PROVE  CountInv' /\ nextID < nextR
<1>1. t \in Inserting /\ Inserting' = Inserting \ {t}
  BY DEF TypeOK, Inserting, AddInsert, Returns
<1>2. /\ IsFiniteSet(Inserting \ {t})
      /\ Cardinality(Inserting \ {t}) = Cardinality(Inserting) - 1
      /\ Cardinality(Inserting) \in Nat /\ Cardinality(Inserting \ {t}) \in Nat
  BY <1>1, FS_RemoveElement, FS_CardinalityType DEF CountInv
<1>3. nextID \in Nat /\ nextR \in Nat /\ nextID' = nextID + 1 /\ nextR' = nextR
  BY BuiltinAssumption DEF TypeOK, AddInsert, routineVars
<1> QED
  BY <1>1, <1>2, <1>3 DEF CountInv

-----------------------------------------------------------------------------
(* AddPort                                                                 *)

(* A call that is received, validated or refused changes nothing that the  *)
(* other calls or the routines refer to (parent.go:139-183).               *)
LEMMA AddWithoutEffect ==
  ASSUME BuiltinInv, NEW t \in Callers,
         AddValidate(t) \/ AddRunFails(t) \/ \E s \in Specs : AddCall(t, s)
  PROVE  BuiltinInv'
<1> USE DEF BuiltinInv
<1>1. /\ UNCHANGED <<driverVars, mine, routineVars>>
      /\ pc[t] \in {"idle", "validate", "run"}
      /\ \E l \in {"idle", "validate", "run"} :
           /\ pc' = [pc EXCEPT ![t] = l]
           /\ \E s \in Specs \cup {NoSpec} :
                /\ arg' = [arg EXCEPT ![t] = s]
                /\ l # "idle" => s \in Specs
  <2>1. CASE AddValidate(t)
    <3>1. arg[t] \in Specs /\ arg = [arg EXCEPT ![t] = arg[t]]
      BY <2>1 DEF AddValidate, CallerInv, TypeOK
    <3> QED
      BY <2>1, <3>1 DEF AddValidate, Returns
  <2>2. CASE AddRunFails(t)
    BY <2>2 DEF AddRunFails, Returns
  <2>3. CASE \E s \in Specs : AddCall(t, s)
    BY <2>3 DEF AddCall
  <2> QED
    BY <2>1, <2>2, <2>3
<1> USE <1>1 DEF driverVars, routineVars
<1>2. TypeOK'
  BY DEF TypeOK
<1>3. pc \in [Callers -> {"idle", "validate", "run", "insert", "stopping"}]
  BY DEF TypeOK
<1>4. \A u \in Callers : \A l \in {"insert", "stopping"} : pc'[u] = l <=> pc[u] = l
  BY <1>3
<1>5. LockInv' /\ OneInserter' /\ StopInv'
  BY <1>4 DEF LockInv, OneInserter, StopInv
<1>6. TrackedInv'
  BY <1>4 DEF TrackedInv
<1>7. CallerInv'
  BY <1>4, <1>3 DEF CallerInv, TypeOK
<1>8. RegistryInv' /\ RoutineInv' /\ AddressInv'
  BY DEF RegistryInv, RoutineInv, AddressInv
<1>9. Inserting' = Inserting
  BY <1>4 DEF Inserting
<1> QED
  BY <1>2, <1>5, <1>6, <1>7, <1>8, <1>9, CountStays

(* Run starts a routine with a number and an address of its own, for this  *)
(* call alone (parent.go:176-189).                                         *)
LEMMA AddRunKeeps ==
  ASSUME BuiltinInv, NEW t \in Callers, AddRun(t)
  PROVE  BuiltinInv'
<1> USE DEF BuiltinInv, AddRun, driverVars
<1>1. nextR \in Routines /\ arg[t] \in Specs /\ nextR \in Nat
  BY BuiltinAssumption DEF CallerInv, TypeOK, Routines
<1>2. \A i \in Ids : stoppers[i] # nextR
  BY <1>1, BuiltinAssumption DEF RegistryInv, Routines
<1>3. \A u \in Callers : pc[u] = "insert" => mine[u] # nextR
  BY <1>1 DEF CallerInv
<1>4. TypeOK'
  BY <1>1, BuiltinAssumption DEF TypeOK, Routines
<1>5. LockInv' /\ OneInserter'
  BY <1>1, <1>3 DEF LockInv, OneInserter, TypeOK
<1>6. \A r \in Routines : r \in Nat
  BY DEF Routines
<1>7. \A r \in Routines : r < nextR => r < nextR' /\ spec'[r] = spec[r]
  BY <1>1, <1>6 DEF TypeOK
<1>8. CallerInv'
  <2> SUFFICES ASSUME NEW u \in Callers PROVE CallerInv!(u)'
    BY DEF CallerInv
  <2>1. CASE u = t
    BY <1>1, <1>2, <1>6, <2>1 DEF RoutineInv, TypeOK
  <2>2. CASE u # t
    <3>1. pc'[u] = pc[u] /\ arg'[u] = arg[u] /\ mine'[u] = mine[u]
      BY <2>2 DEF TypeOK
    <3>2. pc[u] = "insert" => spec'[mine[u]] = spec[mine[u]] /\ mine[u] < nextR'
      BY <1>7 DEF CallerInv
    <3> QED
      BY <3>1, <3>2 DEF CallerInv
  <2> QED
    BY <2>1, <2>2
<1>9. RegistryInv'
  <2>1. \A i \in Ids : stoppers[i] # NoRoutine => stoppers[i] \in Routines
    BY DEF TypeOK
  <2>2. \A i \in Ids : stoppers[i] # NoRoutine =>
          stoppers[i] < nextR' /\ spec'[stoppers[i]] = spec[stoppers[i]]
    BY <2>1, <1>7 DEF RegistryInv
  <2> QED
    BY <2>2 DEF RegistryInv
<1>10. StopInv'
  BY DEF StopInv, TypeOK
<1>11. RoutineInv' /\ AddressInv'
  BY <1>1, <1>6 DEF RoutineInv, AddressInv, TypeOK
<1>12. TrackedInv'
  <2> SUFFICES ASSUME NEW r \in Routines, r < nextR', ~stopCh'[r]
               PROVE  \/ \E i \in Ids : stoppers'[i] = r
                      \/ \E u \in Callers : pc'[u] = "insert" /\ mine'[u] = r
    BY DEF TrackedInv
  <2>1. CASE r = nextR
    BY <2>1 DEF TypeOK
  <2>2. CASE r # nextR
    BY <1>1, <1>6, <2>2 DEF TypeOK, TrackedInv
  <2> QED
    BY <2>1, <2>2
<1>13. CountInv'
  BY CountRun
<1> QED
  BY <1>4, <1>5, <1>8, <1>9, <1>10, <1>11, <1>12, <1>13

(* The insertion makes the new routine the only one with its ID, and both  *)
(* maps know it (parent.go:190-195).                                       *)
LEMMA AddInsertKeeps ==
  ASSUME BuiltinInv, NEW t \in Callers, AddInsert(t)
  PROVE  BuiltinInv'
<1> USE DEF BuiltinInv, AddInsert, Returns, routineVars
<1>1. nextID < nextR /\ CountInv'
  BY CountInsert
<1>2. /\ nextID \in Ids /\ nextID \in Nat /\ mine[t] \in Routines /\ arg[t] \in Specs
      /\ mine[t] # NoRoutine
  BY <1>1, BuiltinAssumption DEF CallerInv, TypeOK, Ids, Routines
<1>3. TypeOK'
  BY <1>1, <1>2, BuiltinAssumption DEF TypeOK, Ids, Routines
<1>4. LockInv' /\ OneInserter'
  BY DEF LockInv, OneInserter, TypeOK
<1>5. CallerInv'
  <2> SUFFICES ASSUME NEW u \in Callers PROVE CallerInv!(u)'
    BY DEF CallerInv
  <2>1. CASE u = t
    BY <2>1 DEF TypeOK
  <2>2. CASE u # t
    <3>1. pc'[u] = pc[u] /\ arg'[u] = arg[u] /\ mine'[u] = mine[u]
      BY <2>2 DEF TypeOK
    <3>2. pc[u] # "stopping"
      BY BuiltinAssumption DEF LockInv
    <3>3. pc[u] = "insert" => \A i \in Ids : stoppers'[i] # mine[u]
      BY <1>2, <2>2 DEF CallerInv, OneInserter, TypeOK
    <3> QED
      BY <3>1, <3>2, <3>3 DEF CallerInv
  <2> QED
    BY <2>1, <2>2
<1>6. RegistryInv'
  BY <1>2, BuiltinAssumption DEF RegistryInv, CallerInv, TypeOK, Ids, Routines
<1>7. StopInv'
  BY <1>2 DEF StopInv, CallerInv, TypeOK
<1>8. RoutineInv' /\ AddressInv'
  BY DEF RoutineInv, AddressInv
<1>9. TrackedInv'
  <2> SUFFICES ASSUME NEW r \in Routines, r < nextR, ~stopCh[r]
               PROVE  \/ \E i \in Ids : stoppers'[i] = r
                      \/ \E u \in Callers : pc'[u] = "insert" /\ mine'[u] = r
    BY DEF TrackedInv
  <2>1. CASE r = mine[t]
    BY <1>2, <2>1 DEF TypeOK
  <2>2. CASE \E i \in Ids : stoppers[i] = r
    <3>1. PICK i \in Ids : stoppers[i] = r
      BY <2>2
    <3>2. i # nextID
      BY <3>1, <1>2, BuiltinAssumption DEF RegistryInv, Routines
    <3> QED
      BY <3>1, <3>2, <1>2 DEF TypeOK
  <2>3. CASE r # mine[t] /\ \E u \in Callers : pc[u] = "insert" /\ mine[u] = r
    BY <2>3 DEF TypeOK
  <2> QED
    BY <2>1, <2>2, <2>3 DEF TrackedInv
<1> QED
  BY <1>1, <1>3, <1>4, <1>5, <1>6, <1>7, <1>8, <1>9

-----------------------------------------------------------------------------
(* RemovePort                                                              *)

(* The stop channel that is closed is that of a listed routine, and the    *)
(* lock is held from then on (parent.go:197-207).                          *)
LEMMA RemoveCallKeeps ==
  ASSUME BuiltinInv, NEW t \in Callers, NEW i \in Ids, RemoveCall(t, i)
  PROVE  BuiltinInv'
<1> USE DEF BuiltinInv, RemoveCall
<1>1. CASE stoppers[i] = NoRoutine
  <2> USE <1>1 DEF Returns
  <2>1. TypeOK' /\ LockInv'
    BY DEF LockInv, TypeOK
  <2>2. /\ pc' = pc /\ UNCHANGED <<mu, mine, stopCh>>
        /\ \A u \in Callers : pc[u] # "idle" => arg'[u] = arg[u]
    BY DEF TypeOK
  <2>3. OneInserter' /\ StopInv' /\ TrackedInv'
    BY <2>2 DEF OneInserter, StopInv, TrackedInv
  <2>4. CallerInv'
    BY <2>2 DEF CallerInv
  <2>5. RegistryInv' /\ RoutineInv' /\ AddressInv'
    BY DEF RegistryInv, RoutineInv, AddressInv
  <2>6. Inserting' = Inserting
    BY <2>2 DEF Inserting
  <2> QED
    BY <2>1, <2>3, <2>4, <2>5, <2>6, CountStays
<1>2. CASE stoppers[i] # NoRoutine
  <2> USE <1>2
  <2>1. stoppers[i] \in Routines /\ stoppers[i] < nextR
    BY DEF RegistryInv, TypeOK
  <2>2. TypeOK'
    BY <2>1 DEF TypeOK
  <2>3. LockInv' /\ OneInserter'
    BY <2>1, BuiltinAssumption DEF LockInv, OneInserter, TypeOK
  <2>4. CallerInv'
    BY <2>1, BuiltinAssumption DEF CallerInv, LockInv, TypeOK
  <2>5. RegistryInv' /\ AddressInv'
    BY DEF RegistryInv, AddressInv
  <2>6. RoutineInv'
    <3> SUFFICES ASSUME NEW r \in Routines PROVE RoutineInv!(r)'
      BY DEF RoutineInv
    <3>1. CASE r = stoppers[i]
      <4>1. stopCh'[r] /\ r < nextR /\ ~(r >= nextR)
        BY <2>1, <3>1, BuiltinAssumption DEF TypeOK, Routines
      <4> QED
        BY <4>1 DEF RoutineInv
    <3>2. CASE r # stoppers[i]
      BY <3>2 DEF RoutineInv, TypeOK
    <3> QED
      BY <3>1, <3>2
  <2>7. StopInv'
    BY <2>1, BuiltinAssumption DEF StopInv, LockInv, TypeOK
  <2>8. TrackedInv'
    <3> SUFFICES ASSUME NEW r \in Routines, r < nextR, ~stopCh'[r]
                 PROVE  \/ \E j \in Ids : stoppers[j] = r
                        \/ \E u \in Callers : pc'[u] = "insert" /\ mine'[u] = r
      BY DEF TrackedInv
    <3>1. ~stopCh[r]
      BY <2>1 DEF TypeOK
    <3> QED
      BY <3>1 DEF TrackedInv, TypeOK
  <2>9. Inserting' = Inserting
    BY DEF Inserting, TypeOK
  <2> QED
    BY <2>2, <2>3, <2>4, <2>5, <2>6, <2>7, <2>8, <2>9, CountStays
<1> QED
  BY <1>1, <1>2

(* The call returns and both maps forget the routine, which was told to    *)
(* stop, whether it has answered or not (parent.go:141-161, 208-215).      *)
LEMMA RemoveStepKeeps ==
  ASSUME BuiltinInv, NEW t \in Callers, RemoveStep(t)
  PROVE  BuiltinInv'
<1> USE DEF BuiltinInv
<1>1. /\ pc[t] = "stopping" /\ Forget(t) /\ Returns(t)
      /\ UNCHANGED <<nextID, nextR, spec, ln, acc, stopCh, failed>>
      /\ \/ UNCHANGED sel
         \/ sel[mine[t]] = "sending" /\ sel' = [sel EXCEPT ![mine[t]] = "done"]
  BY DEF RemoveStep, RemoveStopped, RemoveTimesOut, routineVars
<1>2. mine[t] \in Routines /\ stopCh[mine[t]] /\ mu = t
  BY <1>1 DEF CallerInv, LockInv
<1> USE <1>1, <1>2 DEF Forget, Returns
<1>3. TypeOK'
  <2>1. sel' \in [Routines -> {"off", "select", "closing", "sending", "done"}]
    BY DEF TypeOK
  <2>2. /\ ports' \in [Ids -> Specs \cup {NoSpec}]
        /\ stoppers' \in [Ids -> Routines \cup {NoRoutine}]
    BY DEF TypeOK
  <2> QED
    BY <2>1, <2>2 DEF TypeOK
<1>4. LockInv' /\ OneInserter'
  BY BuiltinAssumption DEF LockInv, OneInserter, TypeOK
<1>5. CallerInv'
  BY BuiltinAssumption DEF CallerInv, LockInv, TypeOK, Routines
<1>6. RegistryInv'
  BY DEF RegistryInv, TypeOK
<1>7. StopInv'
  BY DEF StopInv, LockInv, TypeOK
<1>8. RoutineInv' /\ AddressInv'
  BY DEF RoutineInv, AddressInv, TypeOK
<1>9. TrackedInv'
  <2> SUFFICES ASSUME NEW r \in Routines, r < nextR, ~stopCh[r]
               PROVE  \/ \E i \in Ids : stoppers'[i] = r
                      \/ \E u \in Callers : pc'[u] = "insert" /\ mine'[u] = r
    BY DEF TrackedInv
  <2>1. r # mine[t]
    OBVIOUS
  <2> QED
    BY <2>1 DEF TrackedInv, TypeOK
<1>10. Inserting' = Inserting
  BY DEF Inserting, TypeOK
<1> QED
  BY <1>3, <1>4, <1>5, <1>6, <1>7, <1>8, <1>9, <1>10, CountStays

-----------------------------------------------------------------------------
(* The goroutines of tcp.Run and udp.Run                                   *)

(* A goroutine of a routine closes the listener only after a stop or a     *)
(* failed Accept, and touches nothing of another routine (tcp.go:24-57,    *)
(* udp.go:37-58).                                                          *)
LEMMA RoutineKeeps ==
  ASSUME BuiltinInv, NEW r \in Routines,
         RoutineStep(r) \/ AcceptConn(r) \/ AcceptEnds(r) \/ ProxyClosed(r)
  PROVE  BuiltinInv'
<1> USE DEF BuiltinInv
<1>1. UNCHANGED <<driverVars, callerVars, nextR, spec, stopCh>>
  BY DEF RoutineStep, SelectEnds, HandOffConn, AcceptConn, AcceptEnds, ProxyClosed
<1> USE <1>1 DEF driverVars, callerVars
<1>2. TypeOK'
  <2>1. CASE SelectEnds(r)
    BY <2>1 DEF SelectEnds, TypeOK
  <2>2. CASE HandOffConn(r) \/ AcceptConn(r) \/ AcceptEnds(r)
    BY <2>2 DEF HandOffConn, AcceptConn, AcceptEnds, TypeOK
  <2>3. CASE ProxyClosed(r)
    BY <2>3 DEF ProxyClosed, TypeOK
  <2> QED
    BY <2>1, <2>2, <2>3 DEF RoutineStep
<1>3. AddressInv'
  <2>1. \A q \in Routines : ln'[q] = "open" => ln[q] = "open"
    BY DEF RoutineStep, SelectEnds, HandOffConn, AcceptConn, AcceptEnds, ProxyClosed, TypeOK
  <2> QED
    BY <2>1 DEF AddressInv
<1>7. RoutineInv'
  <2> SUFFICES ASSUME NEW q \in Routines PROVE RoutineInv!(q)'
    BY DEF RoutineInv
  <2>1. RoutineInv!(q)
    BY DEF RoutineInv
  <2>2. CASE q # r
    <3>1. ln'[q] = ln[q] /\ acc'[q] = acc[q] /\ sel'[q] = sel[q] /\ (q \in failed' <=> q \in failed)
      BY <2>2 DEF RoutineStep, SelectEnds, HandOffConn, AcceptConn, AcceptEnds, ProxyClosed, TypeOK
    <3> QED
      BY <2>1, <3>1
  <2>3. CASE q = r
    <3> USE <2>1, <2>3 DEF TypeOK, Routines
    <3>1. CASE SelectEnds(r)
      <4>1. /\ sel[r] = "select" /\ sel'[r] \in {"closing", "sending"} /\ ln'[r] = "closed"
            /\ UNCHANGED <<acc, failed>> /\ (stopCh[r] \/ (Proto[spec[r]] = "tcp" /\ acc[r] = "done"))
        BY <3>1 DEF SelectEnds
      <4> QED
        BY <4>1, BuiltinAssumption
    <3>2. CASE HandOffConn(r) \/ AcceptConn(r)
      BY <3>2, BuiltinAssumption DEF HandOffConn, AcceptConn
    <3>3. CASE AcceptEnds(r)
      BY <3>3, BuiltinAssumption DEF AcceptEnds
    <3>4. CASE ProxyClosed(r)
      <4>1. sel[r] = "closing" /\ sel'[r] = "sending" /\ UNCHANGED <<ln, acc, failed>>
        BY <3>4 DEF ProxyClosed
      <4> QED
        BY <4>1, BuiltinAssumption
    <3> QED
      BY <3>1, <3>2, <3>3, <3>4 DEF RoutineStep
  <2> QED
    BY <2>2, <2>3
<1>4. LockInv' /\ CallerInv' /\ OneInserter'
  BY DEF LockInv, CallerInv, OneInserter
<1>5. RegistryInv' /\ StopInv' /\ TrackedInv'
  BY DEF RegistryInv, StopInv, TrackedInv
<1>6. Inserting' = Inserting
  BY DEF Inserting
<1> QED
  BY <1>2, <1>3, <1>4, <1>5, <1>6, <1>7, CountStays

-----------------------------------------------------------------------------
(* The registry, its callers and its routines: every step keeps the        *)
(* inductive invariant (parent.go:120-215).                                *)
LEMMA BuiltinStep == BuiltinInv /\ [Next]_vars => BuiltinInv'
<1> SUFFICES ASSUME BuiltinInv, [Next]_vars PROVE BuiltinInv'
  OBVIOUS
<1>1. CASE UNCHANGED vars
  <2> USE <1>1 DEF vars, BuiltinInv
  <2>1. TypeOK' /\ LockInv' /\ CallerInv' /\ OneInserter'
    BY DEF TypeOK, LockInv, CallerInv, OneInserter
  <2>2. RegistryInv' /\ StopInv' /\ RoutineInv' /\ TrackedInv' /\ AddressInv'
    BY DEF RegistryInv, StopInv, RoutineInv, TrackedInv, AddressInv
  <2>3. Inserting' = Inserting
    BY DEF Inserting
  <2> QED
    BY <2>1, <2>2, <2>3, CountStays
<1>2. CASE Next
  BY <1>2, AddWithoutEffect, AddRunKeeps, AddInsertKeeps, RemoveCallKeeps,
     RemoveStepKeeps, RoutineKeeps DEF Next, AddStep
<1> QED
  BY <1>1, <1>2

(* At the start nothing is listed and nobody calls.                        *)
LEMMA BuiltinStart == Init => BuiltinInv
<1> SUFFICES ASSUME Init PROVE BuiltinInv
  OBVIOUS
<1> USE BuiltinAssumption DEF Init, Ids, Routines
<1>1. TypeOK /\ LockInv /\ CallerInv /\ OneInserter
  BY DEF TypeOK, LockInv, CallerInv, OneInserter
<1>2. RegistryInv /\ StopInv /\ RoutineInv /\ TrackedInv /\ AddressInv
  BY DEF RegistryInv, StopInv, RoutineInv, TrackedInv, AddressInv
<1>3. Inserting = {}
  BY DEF Inserting
<1>4. CountInv
  BY <1>3, FS_EmptySet DEF CountInv
<1> QED
  BY <1>1, <1>2, <1>4 DEF BuiltinInv

(* The inductive invariant of the builtin port driver holds of all its     *)
(* behaviours, types included (parent.go:120-215).                         *)
THEOREM BuiltinInvariant == Spec => []BuiltinInv
  BY BuiltinStart, BuiltinStep, PTL DEF Spec

(* No listener is orphaned, whatever is called concurrently and whichever  *)
(* RemovePort times out (parent.go:139-215).                               *)
THEOREM NoOrphanListener == Spec => []ListenerIsTracked
<1>1. BuiltinInv => ListenerIsTracked
  <2> SUFFICES ASSUME BuiltinInv, NEW r \in Routines, ln[r] = "open", ~stopCh[r]
               PROVE  \/ \E i \in Ids : stoppers[i] = r /\ ports[i] = spec[r]
                      \/ \E t \in Callers : pc[t] = "insert" /\ mine[t] = r
    BY DEF ListenerIsTracked
  <2>1. r < nextR
    BY BuiltinAssumption DEF BuiltinInv, TypeOK, RoutineInv, Routines
  <2>2. r # NoRoutine
    BY BuiltinAssumption DEF Routines
  <2> QED
    BY <2>1, <2>2 DEF BuiltinInv, TrackedInv, RegistryInv
<1> QED
  BY <1>1, BuiltinInvariant, PTL

(* What ListPorts shows is served, being removed, or lost the goroutine    *)
(* that accepts or reads to a failed Accept or ReadFromUDP, and then keeps *)
(* its address if it is UDP (parent.go:120-137, tcp.go:24-33,              *)
(* udp_proxy.go:92-105).                                                   *)
THEOREM ListedPortsAreServed == Spec => []ListedIsServed
<1>1. BuiltinInv => ListedIsServed
  <2> SUFFICES ASSUME BuiltinInv, NEW i \in Ids, ports[i] # NoSpec
               PROVE  /\ stoppers[i] # NoRoutine
                      /\ \/ stopCh[stoppers[i]]
                         \/ /\ ln[stoppers[i]] = "open"
                            /\ acc[stoppers[i]] \in {"accept", "handoff", "read"}
                         \/ /\ stoppers[i] \in failed
                            /\ Proto[spec[stoppers[i]]] = "udp" => ln[stoppers[i]] = "open"
    BY DEF ListedIsServed
  <2>1. stoppers[i] \in Routines /\ stoppers[i] < nextR /\ stoppers[i] # NoRoutine
    BY DEF BuiltinInv, TypeOK, RegistryInv
  <2>2. acc[stoppers[i]] \in {"off", "accept", "handoff", "read", "done"}
    BY <2>1 DEF BuiltinInv, TypeOK
  <2> QED
    BY <2>1, <2>2 DEF BuiltinInv, RoutineInv
<1> QED
  BY <1>1, BuiltinInvariant, PTL

(* No stop channel is closed twice: RemovePort takes the stopper out of    *)
(* the map before anybody else gets the lock (parent.go:151, 197-215).     *)
THEOREM StopChannelsCloseOnce == Spec => []StopsOnce
<1>1. BuiltinInv => StopsOnce
  <2> SUFFICES ASSUME BuiltinInv, mu = "free", NEW i \in Ids, stoppers[i] # NoRoutine,
                      stopCh[stoppers[i]]
               PROVE  FALSE
    BY DEF StopsOnce
  <2>1. PICK t \in Callers : pc[t] = "stopping"
    BY DEF BuiltinInv, StopInv
  <2> QED
    BY <2>1, BuiltinAssumption DEF BuiltinInv, LockInv
<1> QED
  BY <1>1, BuiltinInvariant, PTL

-----------------------------------------------------------------------------
(* The refinement of PortManager.                                          *)

(* As long as no Accept has failed, a listener that is not told to stop is *)
(* open, so the kernel keeps two ports from sharing an address and thereby *)
(* a key: the insertion meets no conflict although the validation was made *)
(* in an earlier critical section (parent.go:168-195).                     *)
LEMMA InsertIsAddPort ==
  ASSUME BuiltinInv, NEW t \in Callers, AddInsert(t), ~AcceptHasFailed
  PROVE  Manager!Next
<1>1. nextID < nextR
  BY CountInsert DEF BuiltinInv
<1>2. /\ nextID \in Ids /\ nextID \in Nat /\ arg[t] \in Specs
      /\ mine[t] \in Routines /\ mine[t] < nextR
      /\ ~stopCh[mine[t]] /\ spec[mine[t]] = arg[t]
  BY <1>1, BuiltinAssumption DEF BuiltinInv, TypeOK, CallerInv, AddInsert, Ids
<1>3. ln[mine[t]] = "open"
  BY <1>2 DEF BuiltinInv, RoutineInv, AcceptHasFailed
<1>4. ASSUME NEW i \in Ids, ports[i] # NoSpec PROVE Key[ports[i]] # Key[arg[t]]
  <2>1. /\ stoppers[i] \in Routines /\ stoppers[i] < nextR /\ stoppers[i] # NoRoutine
        /\ ports[i] = spec[stoppers[i]]
    BY <1>4 DEF BuiltinInv, TypeOK, RegistryInv
  <2>2. ~stopCh[stoppers[i]]
    <3> SUFFICES ASSUME stopCh[stoppers[i]] PROVE FALSE
      OBVIOUS
    <3>1. PICK u \in Callers : pc[u] = "stopping"
      BY <2>1 DEF BuiltinInv, StopInv
    <3> QED
      BY <3>1, BuiltinAssumption DEF BuiltinInv, LockInv, AddInsert
  <2>3. ln[stoppers[i]] = "open" /\ spec[stoppers[i]] \in Specs
    BY <2>1, <2>2 DEF BuiltinInv, RoutineInv, AcceptHasFailed
  <2>4. stoppers[i] # mine[t]
    BY DEF BuiltinInv, CallerInv, AddInsert
  <2>5. Addr[spec[stoppers[i]]] # Addr[arg[t]]
    BY <1>2, <1>3, <2>1, <2>3, <2>4 DEF BuiltinInv, AddressInv
  <2> QED
    BY <1>2, <2>1, <2>3, <2>5, BuiltinAssumption
<1>5. Manager!NoConflict(arg[t])
  BY <1>4 DEF Manager!NoConflict
<1>6. nextID \notin 1..(nextID - 1) /\ 1..(nextID + 1 - 1) = 1..(nextID - 1) \cup {nextID}
  BY <1>2 DEF Ids
<1>7. Manager!AddPort(nextID, arg[t])
  BY <1>5, <1>6 DEF AddInsert, Manager!AddPort
<1> QED
  BY <1>2, <1>7 DEF Manager!Next

(* RemovePort forgets exactly one port (parent.go:197-215).                *)
LEMMA ForgetIsRemovePort ==
  ASSUME BuiltinInv, NEW t \in Callers, RemoveStep(t)
  PROVE  Manager!Next
<1>1. pc[t] = "stopping" /\ Forget(t) /\ UNCHANGED nextID
  BY DEF RemoveStep, RemoveStopped, RemoveTimesOut
<1>2. PICK i \in Ids : stoppers[i] = mine[t] /\ mine[t] \in Routines
  BY <1>1 DEF BuiltinInv, CallerInv
<1>3. mine[t] # NoRoutine
  BY <1>2, BuiltinAssumption DEF Routines
<1>4. ports[i] # NoSpec /\ \A j \in Ids : stoppers[j] = mine[t] <=> j = i
  BY <1>2, <1>3 DEF BuiltinInv, RegistryInv
<1>5. ports' = [ports EXCEPT ![i] = NoSpec]
  BY <1>1, <1>4 DEF Forget, BuiltinInv, TypeOK
<1>6. Manager!RemovePort(i)
  BY <1>1, <1>4, <1>5 DEF Manager!RemovePort
<1> QED
  BY <1>6 DEF Manager!Next

(* Concurrent calls of AddPort and RemovePort on the builtin driver look   *)
(* to the users of the API like operations on a PortManager, until an      *)
(* Accept fails (port.go:31-36, parent.go:139-215).                        *)
THEOREM BuiltinIsPortManager == Spec => IsPortManager
<1>1. Init => Manager!Init
  BY BuiltinAssumption DEF Init, Manager!Init
<1>2. BuiltinInv /\ [Next]_vars =>
        [AcceptHasFailed \/ Manager!Next \/ UNCHANGED Manager!vars]_vars
  <2> SUFFICES ASSUME BuiltinInv, Next, ~AcceptHasFailed
               PROVE  Manager!Next \/ UNCHANGED Manager!vars
    OBVIOUS
  <2> USE DEF Manager!vars, driverVars
  <2>1. ASSUME NEW t \in Callers, AddStep(t) PROVE Manager!Next \/ UNCHANGED Manager!vars
    <3>1. CASE AddValidate(t) \/ AddRun(t) \/ AddRunFails(t)
      BY <3>1 DEF AddValidate, AddRun, AddRunFails
    <3>2. CASE AddInsert(t)
      BY <3>2, InsertIsAddPort
    <3> QED
      BY <2>1, <3>1, <3>2 DEF AddStep
  <2>2. ASSUME NEW t \in Callers, NEW s \in Specs, AddCall(t, s) PROVE UNCHANGED Manager!vars
    BY <2>2 DEF AddCall
  <2>3. ASSUME NEW t \in Callers, NEW i \in Ids, RemoveCall(t, i) PROVE UNCHANGED Manager!vars
    BY <2>3 DEF RemoveCall
  <2>4. ASSUME NEW r \in Routines,
               RoutineStep(r) \/ AcceptConn(r) \/ AcceptEnds(r) \/ ProxyClosed(r)
        PROVE  UNCHANGED Manager!vars
    BY <2>4 DEF RoutineStep, SelectEnds, HandOffConn, AcceptConn, AcceptEnds, ProxyClosed
  <2> QED
    BY <2>1, <2>2, <2>3, <2>4, ForgetIsRemovePort DEF Next
<1> QED
  BY <1>1, <1>2, BuiltinInvariant, PTL DEF Spec, IsPortManager
=============================================================================
