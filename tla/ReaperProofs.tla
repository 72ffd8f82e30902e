---------------------------- MODULE ReaperProofs ----------------------------
(***************************************************************************)
(* Proofs about Reaper for any number of orphans, requests and routing     *)
(* commands and any capacity of the signal channel: no wakeup is lost, the *)
(* result is the status of the target, and transparent dials wait for      *)
(* their rules.                                                            *)
(***************************************************************************)
EXTENDS Reaper, TLAPS

(* Before the target is started there is no child that only the reaper can *)
(* collect, and the handler is installed before there is one.              *)
NotifyFirst ==
  /\ main \in {"init", "notified"} => \A p \in Adopted : proc[p] = "none"
  /\ main = "notified" => reaper /\ notified
  /\ (reaper /\ main \in {"waiting", "reaping"}) => notified
  /\ main = "reaping" => reaper
  /\ notified => reaper
  /\ queued > 0 => notified

(* What reap has found so far is the status of a target that is collected. *)
FoundIsTargets ==
  main = "reaping" /\ found # "none" => proc["target"] = "gone" /\ found = status["target"]

(* The routing command that runs belongs to the state of routingSetup, and *)
(* the exit status of the check tells whether iptables works.              *)
RoutingState ==
  /\ routing \notin {"checking", "commands"} => proc["helper"] = "none"
  /\ routing = "checking" /\ proc["helper"] = "zombie" => (status["helper"] = "ok" <=> iptables)
  /\ routing \in {"commands", "ready"} => iptables
  /\ routing = "ready" => cmd = NumCmds
  /\ \A c \in Conns : conn[c] = "transparent" => routing = "ready"

ReapInv == TypeOK /\ NotifyFirst /\ FoundIsTargets /\ ResultIsTargets /\ NoLostWakeup

(* The children are the target, the routing command and the orphans.       *)
LEMMA ChildrenOfPidOne ==
  /\ "target" \in Procs /\ "helper" \in Procs /\ "target" \in Adopted
  /\ Orphans \subseteq Adopted /\ Adopted \subseteq Procs
  /\ "helper" \notin Adopted /\ "target" # "helper" /\ "target" \notin Orphans
  BY ReaperAssumption DEF Procs, Adopted

(* The variables of the reaper, the signal channel and routingSetup keep   *)
(* their types (child.go:544-616).                                         *)
LEMMA ReaperType == Spec => []TypeOK
<1>1. Init => TypeOK
  <2> SUFFICES ASSUME Init PROVE TypeOK
    OBVIOUS
  <2>1. proc \in [Procs -> {"none", "running", "zombie", "gone"}] /\ status \in [Procs -> Exits \cup {"none"}]
    BY DEF Init
  <2>2. queued \in 0..ChanCap /\ cmd \in 0..NumCmds
    BY ReaperAssumption DEF Init
  <2>3. conn \in [Conns -> {"none", "request", "transparent", "plain"}]
    BY DEF Init
  <2> QED
    BY <2>1, <2>2, <2>3 DEF Init, TypeOK
<1>2. TypeOK /\ [Next]_vars => TypeOK'
  <2> SUFFICES ASSUME TypeOK, [Next]_vars PROVE TypeOK'
    OBVIOUS
  <2> USE ReaperAssumption, ChildrenOfPidOne DEF TypeOK, Exits, sigVars, reapVars, setVars, optVars
  <2>1. CASE Notify BY <2>1 DEF Notify
  <2>2. CASE Start
    <3>1. proc' \in [Procs -> {"none", "running", "zombie", "gone"}]
      BY <2>2 DEF Start
    <3> QED
      BY <2>2, <3>1 DEF Start
  <2>3. CASE Deliver
    <3>1. queued' \in 0..ChanCap
      BY <2>3 DEF Deliver
    <3>2. pending' \in BOOLEAN
      BY <2>3, Zenon DEF Deliver
    <3> QED
      BY <2>3, <3>1, <3>2 DEF Deliver
  <2>4. CASE Receive BY <2>4 DEF Receive
  <2>5. CASE ReapDone BY <2>5 DEF ReapDone
  <2>6. ASSUME NEW p \in Procs, ReapOne(p) PROVE TypeOK' BY <2>6 DEF ReapOne
  <2>7. CASE WaitTarget BY <2>7 DEF WaitTarget
  <2>8. CASE HelperWaited BY <2>8 DEF HelperWaited, NextCommand
  <2>9. CASE HelperStolen BY <2>9 DEF HelperStolen, NextCommand
  <2>10. ASSUME NEW c \in Conns, SetupRouting(c) PROVE TypeOK' BY <2>10 DEF SetupRouting
  <2>11. ASSUME NEW c \in Conns, Dial(c) PROVE TypeOK' BY <2>11 DEF Dial
  <2>12. ASSUME NEW o \in Orphans, Adopt(o) PROVE TypeOK'
    <3>1. proc' \in [Procs -> {"none", "running", "zombie", "gone"}] /\ status' \in [Procs -> Exits \cup {"none"}]
      BY <2>12 DEF Adopt
    <3>2. pending' \in BOOLEAN
      BY <2>12, Zenon DEF Adopt
    <3> QED
      BY <2>12, <3>1, <3>2 DEF Adopt
  <2>13. ASSUME NEW p \in Procs, NEW st \in Exits, Exit(p, st) PROVE TypeOK' BY <2>13 DEF Exit
  <2>14. ASSUME NEW c \in Conns, Request(c) PROVE TypeOK' BY <2>14 DEF Request
  <2>15. CASE UNCHANGED vars BY <2>15 DEF vars
  <2> QED
    BY <2>1, <2>2, <2>3, <2>4, <2>5, <2>6, <2>7, <2>8, <2>9, <2>10, <2>11, <2>12, <2>13, <2>14, <2>15
       DEF Next, Reap, Serve
<1> QED
  BY <1>1, <1>2, PTL DEF Spec

(* The inductive invariant of runAndReap and reap (child.go:553-598).      *)
THEOREM ReaperInvariant == Spec => []ReapInv
<1>1. Init => NotifyFirst /\ FoundIsTargets /\ ResultIsTargets /\ NoLostWakeup
  BY ChildrenOfPidOne DEF Init, NotifyFirst, FoundIsTargets, ResultIsTargets, NoLostWakeup, Exits
<1>2. ReapInv /\ TypeOK' /\ [Next]_vars => ReapInv'
  <2> SUFFICES ASSUME ReapInv, TypeOK', [Next]_vars PROVE ReapInv'
    OBVIOUS
  <2> USE ReaperAssumption, ChildrenOfPidOne
      DEF ReapInv, NotifyFirst, FoundIsTargets, ResultIsTargets, NoLostWakeup, Exits,
          TypeOK, sigVars, reapVars, setVars, optVars
  <2>1. CASE Notify BY <2>1 DEF Notify
  <2>2. CASE Start BY <2>2 DEF Start
  <2>3. CASE Deliver BY <2>3 DEF Deliver
  <2>4. CASE Receive BY <2>4 DEF Receive
  <2>5. CASE ReapDone BY <2>5 DEF ReapDone, Zombies
  <2>6. ASSUME NEW p \in Procs, ReapOne(p) PROVE ReapInv' BY <2>6 DEF ReapOne, Zombies
  <2>7. CASE WaitTarget BY <2>7 DEF WaitTarget
  <2>8. CASE HelperWaited BY <2>8 DEF HelperWaited, NextCommand
  <2>9. CASE HelperStolen BY <2>9 DEF HelperStolen, NextCommand
  <2>10. ASSUME NEW c \in Conns, SetupRouting(c) PROVE ReapInv' BY <2>10 DEF SetupRouting
  <2>11. ASSUME NEW c \in Conns, Dial(c) PROVE ReapInv' BY <2>11 DEF Dial
  <2>12. ASSUME NEW o \in Orphans, Adopt(o) PROVE ReapInv' BY <2>12 DEF Adopt
  <2>13. ASSUME NEW p \in Procs, NEW st \in Exits, Exit(p, st) PROVE ReapInv' BY <2>13 DEF Exit
  <2>14. ASSUME NEW c \in Conns, Request(c) PROVE ReapInv' BY <2>14 DEF Request
  <2>15. CASE UNCHANGED vars BY <2>15 DEF vars
  <2> QED
    BY <2>1, <2>2, <2>3, <2>4, <2>5, <2>6, <2>7, <2>8, <2>9, <2>10, <2>11, <2>12, <2>13, <2>14, <2>15
       DEF Next, Reap, Serve
<1>3. Spec => []TypeOK
  BY ReaperType
<1> QED
  BY <1>1, <1>2, <1>3, PTL DEF Spec, ReapInv

(* While the reaper waits and a child that only it can collect has ended,  *)
(* a SIGCHLD is pending or queued: merged and dropped signals do not       *)
(* matter, for any capacity of the channel (child.go:554-567).             *)
THEOREM WakeupIsNotLost == Spec => []NoLostWakeup
  BY ReaperInvariant, PTL DEF ReapInv

(* runAndReap returns the exit status of the target and no other process's *)
(* (child.go:553-598).                                                     *)
THEOREM ResultIsHonest == Spec => []ResultIsTargets
  BY ReaperInvariant, PTL DEF ReapInv

(* A transparent dial comes after the check of iptables and after all      *)
(* routing commands, whatever the reaper takes from them                   *)
(* (builtin/child/child.go:161-174, 226-260).                              *)
THEOREM RulesBeforeTransparent == Spec => []TransparentNeedsRules
<1>1. Init => RoutingState
  BY ChildrenOfPidOne DEF Init, RoutingState
<1>2. TypeOK /\ RoutingState /\ [Next]_vars => RoutingState'
  <2> SUFFICES ASSUME TypeOK, RoutingState, [Next]_vars PROVE RoutingState'
    OBVIOUS
  <2> USE ReaperAssumption, ChildrenOfPidOne
      DEF RoutingState, Exits, TypeOK, sigVars, reapVars, setVars, optVars
  <2>1. CASE Notify BY <2>1 DEF Notify
  <2>2. CASE Start BY <2>2 DEF Start
  <2>3. CASE Deliver BY <2>3 DEF Deliver
  <2>4. CASE Receive BY <2>4 DEF Receive
  <2>5. CASE ReapDone BY <2>5 DEF ReapDone
  <2>6. ASSUME NEW p \in Procs, ReapOne(p) PROVE RoutingState' BY <2>6 DEF ReapOne, Zombies
  <2>7. CASE WaitTarget BY <2>7 DEF WaitTarget
  <2>8. CASE HelperWaited BY <2>8 DEF HelperWaited, NextCommand
  <2>9. CASE HelperStolen BY <2>9 DEF HelperStolen, NextCommand
  <2>10. ASSUME NEW c \in Conns, SetupRouting(c) PROVE RoutingState' BY <2>10 DEF SetupRouting
  <2>11. ASSUME NEW c \in Conns, Dial(c) PROVE RoutingState' BY <2>11 DEF Dial
  <2>12. ASSUME NEW o \in Orphans, Adopt(o) PROVE RoutingState' BY <2>12 DEF Adopt
  <2>13. ASSUME NEW p \in Procs, NEW st \in Exits, Exit(p, st) PROVE RoutingState' BY <2>13 DEF Exit
  <2>14. ASSUME NEW c \in Conns, Request(c) PROVE RoutingState' BY <2>14 DEF Request
  <2>15. CASE UNCHANGED vars BY <2>15 DEF vars
  <2> QED
    BY <2>1, <2>2, <2>3, <2>4, <2>5, <2>6, <2>7, <2>8, <2>9, <2>10, <2>11, <2>12, <2>13, <2>14, <2>15
       DEF Next, Reap, Serve
<1>3. TypeOK /\ RoutingState => TransparentNeedsRules
  BY DEF RoutingState, TransparentNeedsRules
<1> QED
  BY <1>1, <1>2, <1>3, ReaperType, PTL DEF Spec
=============================================================================
