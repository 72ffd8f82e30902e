------------------------ MODULE NetworkDriverProofs ------------------------
(***************************************************************************)
(* Proofs about NetworkDriver for any choice of drivers: the target starts *)
(* with a complete network, Parent returns with its cleanups done, and no  *)
(* connection meets a virtual network that is not there.                   *)
(***************************************************************************)
EXTENDS NetworkDriver, TLAPS

Collected(c) == \E i \in 1..Len(cleanups) : cleanups[i] = c

(* Where the parent is: ConfigureNetwork is at one of its steps, and past  *)
(* the last one when the message is sent; the child waits for the message. *)
ProgressInv ==
  /\ pst = "configuring" => step <= Len(Steps)
  /\ step <= Len(Steps) + 1
  /\ pst \in {"send", "serving"} \/ sent => step = Len(Steps) + 1
  /\ cpc \notin {"wait", "dead"} => sent
  /\ pst = "returned" => cleanups = <<>>

(* What the parent has configured in the namespace by each of its steps.   *)
ConfiguredInv ==
  /\ drv \in {"slirp4netns", "gvisor-tap-vsock"} /\ step > 1 => {"exists", "up"} \subseteq iface
  /\ drv = "pasta" /\ step > 1 => Device \subseteq iface
  /\ drv = "none" /\ step > Len(Steps) => "lo" \in iface

(* The helper by each of the steps: started, then ready, and its cleanup   *)
(* is there until the helper is reaped.                                    *)
HelperInv ==
  /\ ready => drv = "slirp4netns" /\ helper \in {"ready", "dead"}
  /\ drv = "slirp4netns" => (step > 2 <=> helper # "none") /\ (step > 3 => ready)
  /\ drv = "vpnkit" => (step > 1 <=> helper # "none") /\ (step > 2 => helper \in {"ready", "dead"})
  /\ drv = "pasta" /\ step > 1 => helper \in {"ready", "dead"}
  /\ drv \in {"slirp4netns", "vpnkit"} /\ helper # "none" =>
       Collected("kill") \/ (helper = "dead" /\ waited)

(* The virtual network is there after its step, tap.sock is closed or will *)
(* be, and the child connects only after the message that follows.         *)
SwitchInv ==
  /\ vn <=> (drv = "gvisor-tap-vsock" /\ step > 3)
  /\ listener = "open" => drv = "gvisor-tap-vsock" /\ step > 2
  /\ vn => Collected("socket") \/ listener = "closed"
  /\ conn # "none" => vn
  /\ conn # "refused"

(* What the child has found or added by each of the steps of setupNet.     *)
ChildInv ==
  /\ cpc \in {"loopback", "driver", "dev"} => drv # "none"
  /\ cpc = "dev" => drv # "pasta"
  /\ cpc \in {"driver", "dev", "target"} => "lo" \in iface
  /\ cpc = "target" /\ drv # "none" => Device \subseteq iface
  /\ cpc \in {"dev", "target"} /\ drv = "gvisor-tap-vsock" => conn # "none"

(* The inductive invariant.                                                *)
NetworkInv == TypeOK /\ ProgressInv /\ ConfiguredInv /\ HelperInv /\ SwitchInv /\ ChildInv

-----------------------------------------------------------------------------
(* The steps of ConfigureNetwork.                                          *)

(* The calls of every driver, in their order (ConfigureNetwork in the      *)
(* directories of pkg/network).                                            *)
LEMMA StepTable ==
  ASSUME drv \in Drivers, detached \in BOOLEAN
  PROVE  /\ drv = "none" /\ detached => Steps = <<"sleep", "lo">>
         /\ drv = "none" /\ ~detached => Steps = <<"lo">>
         /\ drv = "pasta" => Steps = <<"pasta">>
         /\ drv = "slirp4netns" => Steps = <<"tap", "start", "ready", "msg">>
         /\ drv = "vpnkit" => Steps = <<"start", "connect", "vif">>
         /\ drv = "lxc-user-nic" /\ detached => Steps = <<"sleep", "create">>
         /\ drv = "lxc-user-nic" /\ ~detached => Steps = <<"create">>
         /\ drv = "gvisor-tap-vsock" => Steps = <<"tap", "socket", "vn", "msg">>
  BY DEF Steps

(* The number of steps of every driver.                                    *)
LEMMA StepCount ==
  ASSUME drv \in Drivers, detached \in BOOLEAN
  PROVE  /\ drv = "none" => Len(Steps) = IF detached THEN 2 ELSE 1
         /\ drv = "pasta" => Len(Steps) = 1
         /\ drv = "slirp4netns" => Len(Steps) = 4
         /\ drv = "vpnkit" => Len(Steps) = 3
         /\ drv = "lxc-user-nic" => Len(Steps) = IF detached THEN 2 ELSE 1
         /\ drv = "gvisor-tap-vsock" => Len(Steps) = 4
         /\ Len(Steps) \in 1..4
  BY StepTable, DriversAssumption

(* ConfigureNetwork is at one of its calls.                                *)
LEMMA AtAStep ==
  ASSUME TypeOK, ProgressInv, pst = "configuring"
  PROVE  step \in 1..4 /\ step <= Len(Steps) /\ Len(Steps) \in 1..4
<1>1. PICK n : n = Len(Steps)
  OBVIOUS
<1>2. n \in 1..4
  BY <1>1, StepCount DEF TypeOK
<1>3. step \in 1..5 /\ step <= n
  BY <1>1 DEF TypeOK, ProgressInv
<1>4. step \in 1..4
  BY <1>2, <1>3
<1> QED
  BY <1>1, <1>2, <1>3, <1>4

(* Which driver is where when ConfigureNetwork is at a call.               *)
LEMMA Whereabouts ==
  ASSUME TypeOK, ProgressInv, pst = "configuring"
  PROVE  /\ At("tap") => drv \in {"slirp4netns", "gvisor-tap-vsock"} /\ step = 1
         /\ At("start") => (drv = "slirp4netns" /\ step = 2) \/ (drv = "vpnkit" /\ step = 1)
         /\ At("ready") => drv = "slirp4netns" /\ step = 3
         /\ At("connect") => drv = "vpnkit" /\ step = 2
         /\ At("vif") => drv = "vpnkit" /\ step = 3
         /\ At("socket") => drv = "gvisor-tap-vsock" /\ step = 2
         /\ At("vn") => drv = "gvisor-tap-vsock" /\ step = 3
         /\ At("msg") => drv \in {"slirp4netns", "gvisor-tap-vsock"} /\ step = 4
         /\ At("sleep") => drv \in {"none", "lxc-user-nic"} /\ step = 1 /\ Len(Steps) = 2
         /\ At("create") => drv = "lxc-user-nic" /\ step = Len(Steps)
         /\ At("lo") => drv = "none" /\ step = Len(Steps)
         /\ At("pasta") => drv = "pasta" /\ step = 1
<1>1. drv \in Drivers /\ detached \in BOOLEAN /\ step \in Nat /\ step >= 1 /\ step <= Len(Steps)
  BY AtAStep DEF TypeOK
<1>2. CASE drv = "none" /\ detached
  <2>1. Steps = <<"sleep", "lo">> /\ Len(Steps) = 2
    BY <1>1, <1>2, StepTable, StepCount
  <2>2. step = 1 \/ step = 2
    BY <1>1, <2>1
  <2> QED
    BY <1>2, <2>1, <2>2 DEF At
<1>3. CASE drv = "none" /\ ~detached
  <2>1. Steps = <<"lo">> /\ Len(Steps) = 1
    BY <1>1, <1>3, StepTable, StepCount
  <2>2. step = 1
    BY <1>1, <2>1
  <2> QED
    BY <1>3, <2>1, <2>2 DEF At
<1>4. CASE drv = "pasta"
  <2>1. Steps = <<"pasta">> /\ Len(Steps) = 1
    BY <1>1, <1>4, StepTable, StepCount
  <2>2. step = 1
    BY <1>1, <2>1
  <2> QED
    BY <1>4, <2>1, <2>2 DEF At
<1>5. CASE drv = "slirp4netns"
  <2>1. Steps = <<"tap", "start", "ready", "msg">> /\ Len(Steps) = 4
    BY <1>1, <1>5, StepTable, StepCount
  <2>2. step = 1 \/ step = 2 \/ step = 3 \/ step = 4
    BY <1>1, <2>1
  <2> QED
    BY <1>5, <2>1, <2>2 DEF At
<1>6. CASE drv = "vpnkit"
  <2>1. Steps = <<"start", "connect", "vif">> /\ Len(Steps) = 3
    BY <1>1, <1>6, StepTable, StepCount
  <2>2. step = 1 \/ step = 2 \/ step = 3
    BY <1>1, <2>1
  <2> QED
    BY <1>6, <2>1, <2>2 DEF At
<1>7. CASE drv = "lxc-user-nic" /\ detached
  <2>1. Steps = <<"sleep", "create">> /\ Len(Steps) = 2
    BY <1>1, <1>7, StepTable, StepCount
  <2>2. step = 1 \/ step = 2
    BY <1>1, <2>1
  <2> QED
    BY <1>7, <2>1, <2>2 DEF At
<1>8. CASE drv = "lxc-user-nic" /\ ~detached
  <2>1. Steps = <<"create">> /\ Len(Steps) = 1
    BY <1>1, <1>8, StepTable, StepCount
  <2>2. step = 1
    BY <1>1, <2>1
  <2> QED
    BY <1>8, <2>1, <2>2 DEF At
<1>9. CASE drv = "gvisor-tap-vsock"
  <2>1. Steps = <<"tap", "socket", "vn", "msg">> /\ Len(Steps) = 4
    BY <1>1, <1>9, StepTable, StepCount
  <2>2. step = 1 \/ step = 2 \/ step = 3 \/ step = 4
    BY <1>1, <2>1
  <2> QED
    BY <1>9, <2>1, <2>2 DEF At
<1> QED
  BY <1>1, <1>2, <1>3, <1>4, <1>5, <1>6, <1>7, <1>8, <1>9, DriversAssumption

(* The cleanups that common.Seq has called are gone, the others stay       *)
(* (common.go:3-12).                                                       *)
LEMMA CleanupsKept ==
  ASSUME NEW cl \in Seq({"kill", "cancel", "vmnet", "socket"}), cl # <<>>,
         NEW c, NEW i \in 1..Len(cl), cl[i] = c, Head(cl) # c
  PROVE  \E j \in 1..Len(Tail(cl)) : Tail(cl)[j] = c
<1>1. i # 1 /\ i - 1 \in 1..Len(Tail(cl)) /\ Tail(cl)[i - 1] = c
  OBVIOUS
<1> QED
  BY <1>1

-----------------------------------------------------------------------------
(* The options never change, and with them the calls to make.              *)
LEMMA SameSteps ==
  ASSUME UNCHANGED <<drv, detached>>
  PROVE  Steps' = Steps
  BY DEF Steps

(* A step that succeeds leads to the next one or to the message, and the   *)
(* child has not begun.                                                    *)
LEMMA DoneAdvances ==
  ASSUME NetworkInv, pst = "configuring", Done, UNCHANGED <<drv, detached, sent, cpc>>
  PROVE  /\ Steps' = Steps /\ Len(Steps) \in 1..4 /\ step \in 1..4 /\ step' = step + 1
         /\ step' \in 1..(Len(Steps) + 1)
         /\ pst' \in {"configuring", "send"}
         /\ cpc \in {"wait", "dead"} /\ ~sent
         /\ ProgressInv'
<1>1. Steps' = Steps /\ Len(Steps) \in 1..4
  BY SameSteps, StepCount DEF NetworkInv, TypeOK
<1>2. step \in 1..4 /\ step <= Len(Steps)
  BY AtAStep DEF NetworkInv
<1>3. ~sent
  BY <1>1, <1>2 DEF NetworkInv, ProgressInv
<1>4. cpc \in {"wait", "dead"}
  BY <1>3 DEF NetworkInv, ProgressInv
<1>5. step' = step + 1 /\ pst' = (IF step = Len(Steps) THEN "send" ELSE "configuring")
  BY DEF Done
<1> QED
  BY <1>1, <1>2, <1>3, <1>4, <1>5 DEF ProgressInv

(* The calls that succeed (ConfigureNetwork in pkg/network): each adds its *)
(* part to what the invariant says of the next step.                       *)
LEMMA DoneKeeps ==
  ASSUME NetworkInv, pst = "configuring", Done, UNCHANGED <<drv, detached, sent, cpc, conn>>,
         \/ PrepareTap \/ StartHelper \/ WaitForReadyFD \/ WaitForVPNKit \/ ConnectVif
         \/ SetupSocket \/ SetupVirtualNetwork \/ PrepareMessage \/ StartSleep
         \/ CreateVeth \/ ConfigureLo \/ RunPasta
  PROVE  NetworkInv'
<1> USE DEF NetworkInv
<1>1. /\ Steps' = Steps /\ Len(Steps) \in 1..4 /\ step \in 1..4 /\ step' = step + 1
      /\ step' \in 1..(Len(Steps) + 1)
      /\ pst' \in {"configuring", "send"}
      /\ cpc \in {"wait", "dead"} /\ ~sent
      /\ ProgressInv'
  BY DoneAdvances
<1>2. ChildInv'
  BY <1>1 DEF ChildInv
<1> USE <1>1, StepCount, Whereabouts DEF helperVars, switchVars
<1>3. CASE PrepareTap
  <2> USE <1>3 DEF PrepareTap
  <2>1. TypeOK' /\ ConfiguredInv'
    BY DEF TypeOK, ConfiguredInv, Device
  <2>2. HelperInv' /\ SwitchInv'
    BY DEF HelperInv, SwitchInv, Collected
  <2> QED
    BY <1>2, <2>1, <2>2
<1>4. CASE StartHelper
  <2> USE <1>4 DEF StartHelper
  <2>1. (drv = "slirp4netns" /\ step = 2) \/ (drv = "vpnkit" /\ step = 1)
    BY Whereabouts
  <2>2. cleanups' \in Seq({"kill", "cancel", "vmnet", "socket"}) /\ Collected("kill")'
    <3>1. cleanups \in Seq({"kill", "cancel", "vmnet", "socket"})
      BY DEF TypeOK
    <3>2. PICK tail \in {<<"kill", "cancel">>, <<"kill">>} : cleanups' = cleanups \o tail
      OBVIOUS
    <3>3. /\ tail \in Seq({"kill", "cancel", "vmnet", "socket"})
          /\ Len(tail) >= 1 /\ tail[1] = "kill"
      BY <3>2
    <3>4. /\ cleanups \o tail \in Seq({"kill", "cancel", "vmnet", "socket"})
          /\ Len(cleanups) + 1 \in 1..Len(cleanups \o tail)
          /\ (cleanups \o tail)[Len(cleanups) + 1] = "kill"
      BY <3>1, <3>3
    <3> QED
      BY <3>2, <3>4 DEF Collected
  <2>3. TypeOK' /\ ConfiguredInv' /\ SwitchInv'
    BY <2>1, <2>2 DEF TypeOK, ConfiguredInv, SwitchInv, Alive
  <2>4. HelperInv'
    BY <2>1, <2>2 DEF HelperInv, Alive
  <2> QED
    BY <1>2, <2>3, <2>4
<1>5. CASE WaitForReadyFD
  <2> USE <1>5 DEF WaitForReadyFD
  <2>1. TypeOK' /\ ConfiguredInv'
    BY DEF TypeOK, ConfiguredInv
  <2>2. HelperInv' /\ SwitchInv'
    BY DEF HelperInv, SwitchInv, Collected
  <2> QED
    BY <1>2, <2>1, <2>2
<1>6. CASE WaitForVPNKit
  <2> USE <1>6 DEF WaitForVPNKit
  <2>1. /\ cleanups' \in Seq({"kill", "cancel", "vmnet", "socket"})
        /\ \A c : Collected(c) => Collected(c)'
    BY DEF TypeOK, Collected
  <2>2. TypeOK' /\ ConfiguredInv'
    BY <2>1 DEF TypeOK, ConfiguredInv
  <2>3. HelperInv' /\ SwitchInv'
    BY <2>1 DEF HelperInv, SwitchInv
  <2> QED
    BY <1>2, <2>2, <2>3
<1>7. CASE ConnectVif
  <2> USE <1>7 DEF ConnectVif
  <2>1. TypeOK' /\ ConfiguredInv'
    BY DEF TypeOK, ConfiguredInv
  <2>2. HelperInv' /\ SwitchInv'
    BY DEF HelperInv, SwitchInv, Collected
  <2> QED
    BY <1>2, <2>1, <2>2
<1>8. CASE SetupSocket
  <2> USE <1>8 DEF SetupSocket
  <2>1. TypeOK' /\ ConfiguredInv'
    BY DEF TypeOK, ConfiguredInv
  <2>2. HelperInv' /\ SwitchInv'
    BY DEF HelperInv, SwitchInv, Collected
  <2> QED
    BY <1>2, <2>1, <2>2
<1>9. CASE SetupVirtualNetwork
  <2> USE <1>9 DEF SetupVirtualNetwork
  <2>1. /\ cleanups' \in Seq({"kill", "cancel", "vmnet", "socket"})
        /\ Collected("socket")'
    BY DEF TypeOK, Collected
  <2>2. TypeOK' /\ ConfiguredInv'
    BY <2>1 DEF TypeOK, ConfiguredInv
  <2>3. HelperInv' /\ SwitchInv'
    BY <2>1 DEF HelperInv, SwitchInv
  <2> QED
    BY <1>2, <2>2, <2>3
<1>10. CASE PrepareMessage
  <2> USE <1>10 DEF PrepareMessage
  <2>1. TypeOK' /\ ConfiguredInv'
    BY DEF TypeOK, ConfiguredInv
  <2>2. HelperInv' /\ SwitchInv'
    BY DEF HelperInv, SwitchInv, Collected
  <2> QED
    BY <1>2, <2>1, <2>2
<1>11. CASE StartSleep
  <2> USE <1>11 DEF StartSleep
  <2>1. TypeOK' /\ ConfiguredInv'
    BY SMTT(30) DEF TypeOK, ConfiguredInv, Alive
  <2>2. HelperInv' /\ SwitchInv'
    BY DEF HelperInv, SwitchInv, Collected
  <2> QED
    BY <1>2, <2>1, <2>2
<1>12. CASE CreateVeth
  <2> USE <1>12 DEF CreateVeth
  <2>1. TypeOK' /\ ConfiguredInv'
    BY DEF TypeOK, ConfiguredInv, Device
  <2>2. HelperInv' /\ SwitchInv'
    BY DEF HelperInv, SwitchInv, Collected
  <2> QED
    BY <1>2, <2>1, <2>2
<1>13. CASE ConfigureLo
  <2> USE <1>13 DEF ConfigureLo
  <2>1. TypeOK' /\ ConfiguredInv'
    BY DEF TypeOK, ConfiguredInv
  <2>2. HelperInv' /\ SwitchInv'
    BY DEF HelperInv, SwitchInv, Collected
  <2> QED
    BY <1>2, <2>1, <2>2
<1>14. CASE RunPasta
  <2> USE <1>14 DEF RunPasta
  <2>1. TypeOK' /\ ConfiguredInv'
    BY DEF TypeOK, ConfiguredInv, Alive
  <2>2. HelperInv' /\ SwitchInv'
    BY DEF HelperInv, SwitchInv, Collected
  <2> QED
    BY <1>2, <2>1, <2>2
<1> QED
  BY <1>3, <1>4, <1>5, <1>6, <1>7, <1>8, <1>9, <1>10, <1>11, <1>12, <1>13, <1>14

(* ConfigureNetwork fails at a call: it returns the cleanups that it has   *)
(* collected, and nothing that runs is without one.                        *)
LEMMA FailKeeps ==
  ASSUME NetworkInv, pst = "configuring", Fails,
         UNCHANGED <<drv, detached, helper, ready, iface, switchVars, sent, cpc, conn>>,
         UNCHANGED waited \/ (helper = "dead" /\ waited' = TRUE),
         UNCHANGED cleanups \/ cleanups' = Append(cleanups, "kill")
  PROVE  NetworkInv'
<1> USE DEF NetworkInv, Fails, switchVars
<1>1. Steps' = Steps
  BY SameSteps
<1>2. /\ cleanups' \in Seq({"kill", "cancel", "vmnet", "socket"})
      /\ \A c : Collected(c) => Collected(c)'
  BY DEF TypeOK, Collected
<1>3. TypeOK'
  <2>1. waited' \in BOOLEAN
    BY DEF TypeOK
  <2> QED
    BY <1>2, <2>1 DEF TypeOK
<1>4. ProgressInv' /\ ConfiguredInv'
  BY <1>1 DEF ProgressInv, ConfiguredInv
<1>5. HelperInv' /\ SwitchInv' /\ ChildInv'
  BY <1>2 DEF HelperInv, SwitchInv, ChildInv
<1> QED
  BY <1>3, <1>4, <1>5

(* A step of ConfigureNetwork, successful or not.                          *)
LEMMA ConfigureKeeps ==
  ASSUME NetworkInv, ConfigureStep \/ StepFails
  PROVE  NetworkInv'
<1>1. CASE StepFails
  BY <1>1, FailKeeps DEF StepFails, helperVars
<1>2. CASE WaitForReadyFDFails
  BY <1>2, FailKeeps DEF WaitForReadyFDFails, At
<1>3. CASE WaitForVPNKitTimesOut
  BY <1>3, FailKeeps DEF WaitForVPNKitTimesOut, At, helperVars
<1>4. CASE ConnectVif /\ Fails
  BY <1>4, FailKeeps DEF ConnectVif, At, helperVars
<1>5. CASE PrepareTap \/ StartHelper \/ WaitForReadyFD \/ WaitForVPNKit
  BY <1>5, DoneKeeps DEF PrepareTap, StartHelper, WaitForReadyFD, WaitForVPNKit, At
<1>6. CASE (ConnectVif /\ Done) \/ SetupSocket \/ SetupVirtualNetwork \/ PrepareMessage
  BY <1>6, DoneKeeps DEF ConnectVif, SetupSocket, SetupVirtualNetwork, PrepareMessage, At
<1>7. CASE StartSleep \/ CreateVeth \/ ConfigureLo \/ RunPasta
  BY <1>7, DoneKeeps DEF StartSleep, CreateVeth, ConfigureLo, RunPasta, At
<1>8. ConnectVif => Fails \/ Done
  BY DEF ConnectVif
<1> QED
  BY <1>1, <1>2, <1>3, <1>4, <1>5, <1>6, <1>7, <1>8 DEF ConfigureStep

-----------------------------------------------------------------------------
(* The helper becomes ready or dies at any moment.                         *)
LEMMA HelperKeeps ==
  ASSUME NetworkInv, HelperStep
  PROVE  NetworkInv'
<1> USE DEF NetworkInv, HelperStep, HelperReady, HelperDies, parentVars, switchVars
<1>1. Steps' = Steps
  BY SameSteps
<1>2. TypeOK'
  <2>1. helper' \in Alive \cup {"none", "dead"} /\ ready' \in BOOLEAN
    BY DEF TypeOK, Alive
  <2> QED
    BY <2>1 DEF TypeOK
<1>3. ProgressInv' /\ ConfiguredInv' /\ SwitchInv' /\ ChildInv'
  BY <1>1 DEF ProgressInv, ConfiguredInv, SwitchInv, ChildInv, Collected
<1>4. HelperInv'
  <2>1. CASE HelperReady
    <3>1. ready' <=> drv = "slirp4netns"
      BY <2>1
    <3> QED
      BY <2>1, <3>1 DEF HelperInv, Collected
  <2>2. CASE HelperDies
    BY <2>2 DEF HelperInv, Alive, Collected
  <2> QED
    BY <2>1, <2>2
<1> QED
  BY <1>2, <1>3, <1>4

(* The parent sends the message, returns or ends; each cleanup is called   *)
(* once, and takes what it was collected for (parent.go:267-271,           *)
(* common.go:3-12).                                                        *)
LEMMA ParentKeeps ==
  ASSUME NetworkInv, ParentStep
  PROVE  NetworkInv'
<1> USE DEF NetworkInv, helperVars, switchVars
<1>1. CASE SendMessage
  <2> USE <1>1 DEF SendMessage
  <2>1. Steps' = Steps
    BY SameSteps
  <2>2. TypeOK' /\ ProgressInv'
    BY <2>1 DEF TypeOK, ProgressInv
  <2>3. ConfiguredInv' /\ HelperInv' /\ SwitchInv' /\ ChildInv'
    BY <2>1 DEF ConfiguredInv, HelperInv, SwitchInv, ChildInv, Collected
  <2> QED
    BY <2>2, <2>3
<1>2. CASE ParentReturns \/ CleanupsDone
  <2> USE <1>2 DEF ParentReturns, CleanupsDone
  <2>1. Steps' = Steps
    BY SameSteps
  <2>2. TypeOK' /\ ProgressInv'
    BY <2>1 DEF TypeOK, ProgressInv
  <2>3. ConfiguredInv' /\ HelperInv' /\ SwitchInv' /\ ChildInv'
    BY <2>1 DEF ConfiguredInv, HelperInv, SwitchInv, ChildInv, Collected
  <2> QED
    BY <2>2, <2>3
<1>3. CASE RunCleanup
  <2> USE <1>3 DEF RunCleanup
  <2>1. Steps' = Steps
    BY SameSteps
  <2>2. cleanups \in Seq({"kill", "cancel", "vmnet", "socket"}) /\ cleanups # <<>>
    BY DEF TypeOK
  <2>3. \A c : Collected(c) /\ Head(cleanups) # c => Collected(c)'
    BY <2>2, CleanupsKept DEF Collected
  <2>4. TypeOK'
    <3>1. cleanups' \in Seq({"kill", "cancel", "vmnet", "socket"})
      BY <2>2
    <3>2. helper' \in Alive \cup {"none", "dead"} /\ waited' \in BOOLEAN
      BY DEF TypeOK
    <3>3. /\ listener' \in {"none", "open", "closed"}
          /\ conn' \in {"none", "pending", "served", "refused", "closed"}
      BY DEF TypeOK
    <3> QED
      BY <3>1, <3>2, <3>3 DEF TypeOK
  <2>5. ProgressInv' /\ ConfiguredInv' /\ ChildInv'
    BY <2>1 DEF ProgressInv, ConfiguredInv, ChildInv
  <2>6. HelperInv'
    BY <2>3 DEF HelperInv, Alive
  <2>7. SwitchInv'
    BY <2>3 DEF SwitchInv
  <2> QED
    BY <2>4, <2>5, <2>6, <2>7
<1>4. CASE ParentEnds
  <2> USE <1>4 DEF ParentEnds
  <2>1. Steps' = Steps
    BY SameSteps
  <2>2. TypeOK' /\ ProgressInv'
    BY <2>1 DEF TypeOK, ProgressInv, Alive, ClosedConn
  <2>3. ConfiguredInv' /\ ChildInv'
    BY <2>1 DEF ConfiguredInv, ChildInv, ClosedConn
  <2>4. HelperInv'
    BY DEF HelperInv, Alive, Collected
  <2>5. SwitchInv'
    BY DEF SwitchInv, Collected, ClosedConn
  <2> QED
    BY <2>2, <2>3, <2>4, <2>5
<1> QED
  BY <1>1, <1>2, <1>3, <1>4 DEF ParentStep

(* acceptConnections serves a connection only when it finds the virtual    *)
(* network, and it always does (gvisortapvsock.go:237-277).                *)
LEMMA AcceptKeeps ==
  ASSUME NetworkInv, AcceptConnections
  PROVE  NetworkInv'
<1> USE DEF NetworkInv, AcceptConnections, parentVars, helperVars, switchVars
<1>1. Steps' = Steps
  BY SameSteps
<1>2. TypeOK' /\ ProgressInv' /\ ConfiguredInv'
  BY <1>1 DEF TypeOK, ProgressInv, ConfiguredInv
<1>3. HelperInv' /\ SwitchInv' /\ ChildInv'
  BY DEF HelperInv, SwitchInv, ChildInv, Collected
<1> QED
  BY <1>2, <1>3

(* setupNet: what the child adds completes what parent and helper have     *)
(* done for the same driver (child.go:189-270).                            *)
LEMMA ChildKeeps ==
  ASSUME NetworkInv, ChildStep
  PROVE  NetworkInv'
<1> USE DEF NetworkInv
<1>1. /\ ChildUnchanged
      /\ \/ iface' = iface \/ iface' = iface \cup {"lo"} \/ iface' = iface \cup {"up"}
         \/ iface' = iface \cup {"exists"} \/ iface' = iface \cup Device
  BY DEF ChildStep, SetupNet, ActivateLoopback, PreparedByParent, ExchangeDHCP,
         StartVPNKitRoutines, DialTapSocket, ActivateDev, ChildEnds
<1> USE <1>1 DEF ChildUnchanged, parentVars, helperVars, switchVars
<1>2. Steps' = Steps
  BY SameSteps
<1>3. iface' \subseteq (Device \cup {"lo"}) /\ iface \subseteq iface'
  BY DEF TypeOK, Device
<1>4. ConfiguredInv' /\ HelperInv'
  BY <1>2, <1>3 DEF ConfiguredInv, HelperInv, Collected
<1>5. cpc' \in {"wait", "loopback", "driver", "dev", "target", "dead"}
      /\ (cpc' \notin {"wait", "dead"} => sent)
  BY DEF ChildStep, SetupNet, ActivateLoopback, PreparedByParent, ExchangeDHCP, AfterDriver,
         StartVPNKitRoutines, DialTapSocket, ActivateDev, ChildEnds, ProgressInv, TypeOK
<1>6. /\ conn' \in {"none", "pending", "served", "refused", "closed"}
      /\ conn' = conn \/ (conn' = "pending" /\ vn) \/ (conn' = "closed" /\ conn # "none")
  <2>1. CASE DialTapSocket
    <3>1. sent /\ drv = "gvisor-tap-vsock" /\ drv \in Drivers /\ detached \in BOOLEAN
      BY <2>1 DEF DialTapSocket, ProgressInv, TypeOK
    <3>2. Len(Steps) = 4
      BY <3>1, StepCount
    <3>3. step = Len(Steps) + 1
      BY <3>1 DEF ProgressInv
    <3>4. vn
      BY <3>1, <3>2, <3>3 DEF SwitchInv
    <3> QED
      BY <2>1, <3>4 DEF DialTapSocket
  <2>2. CASE ChildEnds
    BY <2>2 DEF ChildEnds, ClosedConn, TypeOK
  <2>3. CASE ~DialTapSocket /\ ~ChildEnds
    BY <2>3 DEF ChildStep, SetupNet, ActivateLoopback, PreparedByParent, ExchangeDHCP,
                StartVPNKitRoutines, ActivateDev, TypeOK
  <2> QED
    BY <2>1, <2>2, <2>3
<1>7. TypeOK' /\ ProgressInv'
  BY <1>2, <1>3, <1>5, <1>6 DEF TypeOK, ProgressInv
<1>8. SwitchInv'
  BY <1>6 DEF SwitchInv, Collected
<1>9. ChildInv'
  <2>1. CASE SetupNet
    <3>1. sent /\ drv \in Drivers /\ detached \in BOOLEAN
      BY <2>1 DEF SetupNet, TypeOK
    <3>2. step > Len(Steps)
      BY <3>1, StepCount DEF ProgressInv
    <3> QED
      BY <2>1, <3>2 DEF SetupNet, ChildInv, ConfiguredInv
  <2>2. CASE ActivateLoopback
    BY <2>2 DEF ActivateLoopback, ChildInv
  <2>3. CASE PreparedByParent
    <3>1. sent /\ drv \in Drivers /\ detached \in BOOLEAN
      BY <2>3 DEF PreparedByParent, ProgressInv, TypeOK
    <3>2. step > 1
      BY <3>1, StepCount DEF ProgressInv
    <3> QED
      BY <2>3, <3>2 DEF PreparedByParent, AfterDriver, ChildInv, ConfiguredInv
  <2>4. CASE ExchangeDHCP \/ StartVPNKitRoutines
    BY <2>4 DEF ExchangeDHCP, StartVPNKitRoutines, AfterDriver, ChildInv
  <2>5. CASE DialTapSocket
    BY <2>5 DEF DialTapSocket, AfterDriver, ChildInv
  <2>6. CASE ActivateDev
    BY <2>6 DEF ActivateDev, ChildInv
  <2>7. CASE ChildEnds
    BY <2>7 DEF ChildEnds, ChildInv
  <2> QED
    BY <2>1, <2>2, <2>3, <2>4, <2>5, <2>6, <2>7 DEF ChildStep
<1> QED
  BY <1>4, <1>7, <1>8, <1>9

-----------------------------------------------------------------------------
(* At the start nothing is configured.                                     *)
LEMMA NetworkStart == Init => NetworkInv
<1> SUFFICES ASSUME Init PROVE NetworkInv
  OBVIOUS
<1> USE DEF Init
<1>1. PICK n : n = Len(Steps)
  OBVIOUS
<1>2. n \in 1..4
  BY <1>1, StepCount
<1>3. TypeOK
  <2>1. cleanups \in Seq({"kill", "cancel", "vmnet", "socket"})
    OBVIOUS
  <2>2. iface \subseteq (Device \cup {"lo"}) /\ step \in 1..5
    OBVIOUS
  <2> QED
    BY <2>1, <2>2 DEF TypeOK, Alive
<1>4. ProgressInv
  BY <1>1, <1>2 DEF ProgressInv
<1>5. ConfiguredInv
  BY <1>1, <1>2 DEF ConfiguredInv
<1>6. HelperInv /\ SwitchInv /\ ChildInv
  BY DEF HelperInv, SwitchInv, ChildInv, Alive
<1> QED
  BY <1>3, <1>4, <1>5, <1>6 DEF NetworkInv

(* Every step of parent, helper and child keeps the inductive invariant.   *)
LEMMA NetworkStep == NetworkInv /\ [Next]_vars => NetworkInv'
<1> SUFFICES ASSUME NetworkInv, [Next]_vars PROVE NetworkInv'
  OBVIOUS
<1>1. CASE UNCHANGED vars
  <2> USE <1>1 DEF vars
  <2>1. Steps' = Steps
    BY SameSteps
  <2> QED
    BY <2>1 DEF NetworkInv, TypeOK, ProgressInv, ConfiguredInv, HelperInv, SwitchInv,
                ChildInv, Collected
<1>2. CASE Next
  BY <1>2, ConfigureKeeps, HelperKeeps, ParentKeeps, AcceptKeeps, ChildKeeps DEF Next
<1> QED
  BY <1>1, <1>2

(* The network drivers: the inductive invariant holds of all behaviours of *)
(* every driver, types included.                                           *)
THEOREM NetworkInvariant == Spec => []NetworkInv
  BY NetworkStart, NetworkStep, PTL DEF Spec

(* The target starts with loopback and a device with link, address and     *)
(* route, whichever of parent, helper and child sets them up, with the     *)
(* helper or the virtual network behind it (child.go:189-270).             *)
THEOREM TargetStartsWithNetwork == Spec => []TargetHasNetwork
<1>1. NetworkInv => TargetHasNetwork
  <2> SUFFICES ASSUME NetworkInv, cpc = "target" PROVE TargetHasNetwork!2
    BY DEF TargetHasNetwork
  <2> USE DEF NetworkInv
  <2>1. PICK n : n = Len(Steps)
    OBVIOUS
  <2>2. step = n + 1
    BY <2>1 DEF ProgressInv
  <2>3. /\ drv = "slirp4netns" => n = 4
        /\ drv = "vpnkit" => n = 3
        /\ drv = "pasta" => n = 1
    BY <2>1, StepCount DEF TypeOK
  <2>4. drv \in {"slirp4netns", "vpnkit", "pasta"} => helper \in {"ready", "dead"}
    BY <2>2, <2>3 DEF HelperInv
  <2>5. drv = "gvisor-tap-vsock" => conn # "none" /\ vn
    BY DEF ChildInv, SwitchInv
  <2> QED
    BY <2>4, <2>5 DEF ChildInv
<1> QED
  BY <1>1, NetworkInvariant, PTL

(* When Parent returns, slirp4netns and vpnkit are dead and reaped at      *)
(* whatever step ConfigureNetwork failed, and tap.sock is closed unless    *)
(* setupVirtualNetwork failed (parent.go:267-271, common.go:3-12,          *)
(* gvisortapvsock.go:337-355).  pasta and the sleep of a detached          *)
(* namespace have no cleanup.                                              *)
THEOREM CleanupsAreComplete == Spec => []CleanedUp
<1>1. NetworkInv => CleanedUp
  <2> SUFFICES ASSUME NetworkInv, pst = "returned" PROVE CleanedUp!2
    BY DEF CleanedUp
  <2> USE DEF NetworkInv
  <2>1. \A c : ~Collected(c)
    BY DEF ProgressInv, Collected
  <2>2. drv \in {"slirp4netns", "vpnkit"} => helper = "none" \/ (helper = "dead" /\ waited)
    BY <2>1 DEF HelperInv
  <2>3. ASSUME listener = "open" PROVE drv = "gvisor-tap-vsock" /\ Steps[step] = "vn"
    <3>1. drv = "gvisor-tap-vsock" /\ step > 2 /\ ~vn
      BY <2>1, <2>3 DEF SwitchInv
    <3>2. step = 3
      BY <3>1 DEF SwitchInv, TypeOK
    <3>3. Steps = <<"tap", "socket", "vn", "msg">>
      BY <3>1, StepTable DEF TypeOK
    <3> QED
      BY <3>1, <3>2, <3>3
  <2> QED
    BY <2>2, <2>3
<1> QED
  BY <1>1, NetworkInvariant, PTL

(* handleConnection never meets a virtual network that is missing,         *)
(* although tap.sock accepts before there is one (gvisortapvsock.go:237,   *)
(* 267-277).                                                               *)
THEOREM ConnectionsFindNetwork == Spec => []ConnFindsNetwork
  BY NetworkInvariant, PTL DEF NetworkInv, SwitchInv, ConnFindsNetwork
=============================================================================
