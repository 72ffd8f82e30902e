-------------------------- MODULE LifecycleProofs --------------------------
(* Proofs about Lifecycle, for any port drivers, number of published ports *)
(* and set of faults.                                                      *)
EXTENDS Lifecycle, SequenceTheorems, TLAPS

(* How far the parent came. *)
BeforeIdmap == {"start", "sendHello", "waitHello", "idmap"}
BeforeNet   == BeforeIdmap \cup {"sendIdmap", "waitUserNS", "cgroup", "net"}
BeforePort  == BeforeNet \cup {"sendNet", "startPort", "sendPort"}
AfterReady  == {"api", "wait", "closeApi", "quit", "portErr"}

(* How far the child came. *)
BeforeCaps  == {"waitHello", "sendHello", "waitIdmap", "gainCaps"}
AfterSetup  == {"startPort", "run", "waitTgt", "quit", "portErr"}
Late        == {"mounts", "setupNet"} \cup AfterSetup

(* The program counters of the parent and the child, and what is in the    *)
(* pipes between them, agree.  One disjunct per leg of the handshake.      *)
Paired ==
  \/ /\ ppc \in {"start", "sendHello"} /\ cpc \in {"hasCaps", "waitHello"}
     /\ toChild = <<>> /\ toParent = <<>>
  \/ /\ ppc = "waitHello" /\ cpc \in {"hasCaps", "waitHello"}
     /\ toChild = <<"ParentHello">> /\ toParent = <<>>
  \/ /\ ppc = "waitHello" /\ cpc = "sendHello"
     /\ toChild = <<>> /\ toParent = <<>>
  \/ /\ ppc = "waitHello" /\ cpc = "waitIdmap"
     /\ toChild = <<>> /\ toParent = <<"ChildHello">>
  \/ /\ ppc \in {"idmap", "sendIdmap"} /\ cpc = "waitIdmap"
     /\ toChild = <<>> /\ toParent = <<>>
  \/ /\ ppc = "waitUserNS" /\ cpc = "waitIdmap"
     /\ toChild = <<"ParentInitIdmapCompleted">> /\ toParent = <<>>
  \/ /\ ppc = "waitUserNS" /\ cpc \in {"gainCaps", "hasCaps", "userns", "sendUserNS"}
     /\ cpc # "gainCaps" => caps
     /\ toChild = <<>> /\ toParent = <<>>
  \/ /\ ppc = "waitUserNS" /\ cpc = "waitNet"
     /\ toChild = <<>> /\ toParent = <<"ChildInitUserNSCompleted">>
  \/ /\ ppc \in {"cgroup", "net", "sendNet"} /\ cpc = "waitNet"
     /\ toChild = <<>> /\ toParent = <<>>
  \/ /\ ppc \in {"startPort", "sendPort"} /\ cpc = "waitNet"
     /\ toChild = <<"ParentInitNetworkDriverCompleted">> /\ toParent = <<>>
  \/ /\ ppc \in {"startPort", "sendPort"} /\ cpc = "waitPort"
     /\ toChild = <<>> /\ toParent = <<>>
  \/ /\ ppc \notin BeforePort /\ cpc = "waitNet"
     /\ toChild = <<"ParentInitNetworkDriverCompleted", "ParentInitPortDriverCompleted">>
     /\ toParent = <<>>
  \/ /\ ppc \notin BeforePort /\ cpc = "waitPort"
     /\ toChild = <<"ParentInitPortDriverCompleted">> /\ toParent = <<>>
  \/ /\ ppc \notin BeforePort /\ cpc \in Late
     /\ toChild = <<>> /\ toParent = <<>>

(* The child exists once the parent started it, the ID maps are written    *)
(* before they are confirmed, and the one re-execution of the child        *)
(* separates the steps without capabilities from those with them.          *)
CapsInv ==
  /\ ppc = "start" <=> cst = "absent"
  /\ cst = "absent" => cpc = "hasCaps"
  /\ ppc \in BeforeIdmap => ~caps
  /\ idmap <=> ppc \notin BeforeIdmap
  /\ caps => reexecs = 1 /\ cpc \notin BeforeCaps
  /\ ~caps => reexecs = 0 /\ cpc \in BeforeCaps \cup {"hasCaps"}

(* What is set up on each side of the network. *)
NetInv ==
  /\ cst # "absent" /\ opt.net /\ ~opt.detach => netns
  /\ opt.detach /\ cpc \notin BeforeCaps \cup {"hasCaps", "userns"} => netns
  /\ netHelper => opt.net /\ ppc \notin BeforeNet \ {"net"}
  /\ pst = "running" /\ opt.net /\ ppc \notin BeforeNet => netHelper
  /\ cpc \in AfterSetup => childNet

(* The goroutines of the port driver follow the two processes. *)
DriverInv ==
  /\ cpc \notin AfterSetup \ {"startPort"} => d = "off"
  /\ g \in {"fifo", "readFifo", "dial", "initiate"} => opt.port = "builtin"
  /\ opt.port = "builtin" /\ g \in {"initComplete", "serve", "retNil"} => childNet
  /\ ppc \in {"publish", "childPid"} \cup AfterReady /\ opt.port # "none" =>
       /\ g \in {"serve", "retNil", "retErr", "done"}
       /\ opt.port = "builtin" => childNet
  /\ ppc \in {"childPid"} \cup AfterReady /\ opt.port # "none" => published = NPublish
  /\ childPid => ppc \in AfterReady
  /\ api => ppc \in AfterReady

(* What the processes report of the target. *)
ExitInv ==
  /\ tgt # "none" => cpc \in {"waitTgt", "quit", "portErr"}
  /\ cpc \in {"quit", "portErr"} => tgt = "ok"
  /\ cst = "ok" => tgt = "ok"
  /\ ppc \in {"closeApi", "quit", "portErr"} => cst = "ok"
  /\ presult = "nil" => cst = "ok"
  /\ tgt = "running" => cst = "running" /\ (ParentGone \/ pdeath)

(* The Boolean part of TypeOK. *)
FlagsOK ==
  /\ idmap \in BOOLEAN /\ netHelper \in BOOLEAN /\ childPid \in BOOLEAN
  /\ api \in BOOLEAN /\ caps \in BOOLEAN /\ netns \in BOOLEAN
  /\ childNet \in BOOLEAN /\ pdeath \in BOOLEAN /\ quitCh \in BOOLEAN
  /\ sock \in BOOLEAN

LifecycleInv == TypeOK /\ Paired /\ CapsInv /\ NetInv /\ DriverInv /\ ExitInv

(* The two messages that the parent may send without an answer between. *)
LEMMA TwoMessages ==
  \A m, n : /\ Append(<<m>>, n) = <<m, n>> /\ Tail(<<m, n>>) = <<n>>
           /\ Head(<<m, n>>) = m /\ <<m, n>> # <<>>
<1>1. TAKE m, n
<1>2. <<m, n>> \in Seq({m, n}) /\ Append(<<m>>, n) \in Seq({m, n})
  OBVIOUS
<1>3. /\ Len(Append(<<m>>, n)) = 2
      /\ Append(<<m>>, n)[1] = m /\ Append(<<m>>, n)[2] = n
  OBVIOUS
<1>4. Len(<<m, n>>) = 2 /\ <<m, n>>[1] = m /\ <<m, n>>[2] = n
  OBVIOUS
<1>5. \A i \in 1..2 : i = 1 \/ i = 2
  OBVIOUS
<1>6. Append(<<m>>, n) = <<m, n>>
  BY <1>2, <1>3, <1>4, <1>5, SeqEqual
<1> QED BY <1>6

(* A call of Parent(), and the end of the parent. *)
LEMMA ParentKeeps ==
  ASSUME LifecycleInv,
         \/ Start \/ SendParentHello \/ WaitForChildHello \/ SetupUIDGIDMap
         \/ SendIdmapCompleted \/ WaitForUserNS \/ EvacuateCgroup2
         \/ ConfigureNetwork \/ SendNetworkCompleted \/ StartParentDriver
         \/ SendPortCompleted \/ ClosePipe \/ SelectDriver \/ PublishPort
         \/ WriteChildPid \/ ListenServeAPI \/ WaitForChild \/ CloseAPI
         \/ QuitParentDriver \/ ReceiveDriverErr \/ ParentFails
         \/ ParentReturn \/ ParentKilled
  PROVE  LifecycleInv'
<1> USE LifecycleAssumption
    DEF LifecycleInv, TypeOK, Paired, CapsInv, NetInv, DriverInv, ExitInv,
        BeforeIdmap, BeforeNet, BeforePort, AfterReady, BeforeCaps, AfterSetup, Late,
        ParentPCs, ChildPCs, GPCs, DPCs, ParentMsgs, ChildMsgs, Options,
        AllPortKinds, ParentGone, ChildGone, parentVars, childVars, driverVars, pipeVars,
        PAt, PGoto, PReturns, PSend, PWaitFor, CAt, CGoto, CEnds, CReturnsErr,
        CSend, CWaitFor, KillsChild, GAt, DAt
<1>1. CASE Start
  BY <1>1 DEF Start
<1>2. CASE SendParentHello
  BY <1>2 DEF SendParentHello
<1>3. CASE WaitForChildHello
  BY <1>3 DEF WaitForChildHello
<1>4. CASE SetupUIDGIDMap
  BY <1>4 DEF SetupUIDGIDMap
<1>5. CASE SendIdmapCompleted
  BY <1>5 DEF SendIdmapCompleted
<1>6. CASE WaitForUserNS
  BY <1>6, SMTT(30) DEF WaitForUserNS
<1>7. CASE EvacuateCgroup2
  BY <1>7 DEF EvacuateCgroup2
<1>8. CASE ConfigureNetwork
  BY <1>8 DEF ConfigureNetwork
<1>9. CASE SendNetworkCompleted
  BY <1>9 DEF SendNetworkCompleted
<1>10. CASE StartParentDriver
  BY <1>10 DEF StartParentDriver
<1>11. CASE SendPortCompleted
  <2>1. FlagsOK'
    BY <1>11, Zenon DEF SendPortCompleted, FlagsOK
  <2>2. TypeOK'
    BY <1>11, <2>1 DEF SendPortCompleted, FlagsOK
  <2>3. Paired'
    <3>1. CASE cpc = "waitNet"
      <4>1. toChild = <<"ParentInitNetworkDriverCompleted">> /\ toParent = <<>>
        BY <1>11, <3>1 DEF SendPortCompleted
      <4>2. toChild' = <<"ParentInitNetworkDriverCompleted", "ParentInitPortDriverCompleted">>
        BY <1>11, <4>1, TwoMessages, Zenon DEF SendPortCompleted
      <4> QED BY <1>11, <3>1, <4>1, <4>2 DEF SendPortCompleted
    <3>2. CASE cpc = "waitPort"
      BY <1>11, <3>2 DEF SendPortCompleted
    <3> QED BY <1>11, <3>1, <3>2 DEF SendPortCompleted
  <2>4. CapsInv' /\ NetInv' /\ DriverInv' /\ ExitInv'
    BY <1>11 DEF SendPortCompleted
  <2> QED BY <2>2, <2>3, <2>4
<1>12. CASE ClosePipe
  BY <1>12 DEF ClosePipe
<1>13. CASE SelectDriver
  BY <1>13 DEF SelectDriver
<1>14. CASE PublishPort
  BY <1>14 DEF PublishPort
<1>15. CASE WriteChildPid
  BY <1>15 DEF WriteChildPid
<1>16. CASE ListenServeAPI
  BY <1>16 DEF ListenServeAPI
<1>17. CASE WaitForChild
  BY <1>17 DEF WaitForChild
<1>18. CASE CloseAPI
  <2>1. FlagsOK'
    BY <1>18, Zenon DEF CloseAPI, FlagsOK
  <2>2. TypeOK'
    BY <1>18, <2>1 DEF CloseAPI, FlagsOK
  <2>3. Paired'
    BY <1>18 DEF CloseAPI
  <2>4. CapsInv' /\ NetInv' /\ DriverInv' /\ ExitInv'
    BY <1>18 DEF CloseAPI
  <2> QED BY <2>2, <2>3, <2>4
<1>19. CASE QuitParentDriver
  BY <1>19 DEF QuitParentDriver
<1>20. CASE ReceiveDriverErr
  BY <1>20 DEF ReceiveDriverErr
<1>21. CASE ParentFails
  BY <1>21 DEF ParentFails
<1>22. CASE ParentReturn
  <2>1. FlagsOK'
    BY <1>22, Zenon DEF ParentReturn, FlagsOK
  <2>2. TypeOK'
    BY <1>22, <2>1 DEF ParentReturn, FlagsOK
  <2>3. Paired'
    BY <1>22 DEF ParentReturn
  <2>4. CapsInv' /\ NetInv' /\ DriverInv' /\ ExitInv'
    BY <1>22 DEF ParentReturn
  <2> QED BY <2>2, <2>3, <2>4
<1>23. CASE ParentKilled
  <2>1. FlagsOK'
    BY <1>23, Zenon DEF ParentKilled, FlagsOK
  <2>2. TypeOK'
    BY <1>23, <2>1 DEF ParentKilled, FlagsOK
  <2>3. Paired'
    BY <1>23 DEF ParentKilled
  <2>4. CapsInv' /\ NetInv' /\ DriverInv' /\ ExitInv'
    BY <1>23 DEF ParentKilled
  <2> QED BY <2>2, <2>3, <2>4
<1> QED
  BY <1>1, <1>2, <1>3, <1>4, <1>5, <1>6, <1>7, <1>8, <1>9, <1>10, <1>11,
     <1>12, <1>13, <1>14, <1>15, <1>16, <1>17, <1>18, <1>19, <1>20, <1>21,
     <1>22, <1>23

(* The goroutines of the port driver. *)
LEMMA DriverKeeps ==
  ASSUME LifecycleInv,
         \/ ReadReadyPipe \/ DialChild \/ Initiate \/ ParentFifoFails
         \/ ChildFifoFails \/ AcceptFails \/ FinalizeReadyPipe
         \/ OpenReadyPipe \/ ListenUnix \/ CloseReadyPipe
  PROVE  LifecycleInv'
<1> USE LifecycleAssumption
    DEF LifecycleInv, TypeOK, Paired, CapsInv, NetInv, DriverInv, ExitInv,
        BeforeIdmap, BeforeNet, BeforePort, AfterReady, BeforeCaps, AfterSetup, Late,
        ParentPCs, ChildPCs, GPCs, DPCs, ParentMsgs, ChildMsgs, Options,
        AllPortKinds, ParentGone, ChildGone, parentVars, childVars, driverVars, pipeVars,
        PAt, PGoto, PReturns, PSend, PWaitFor, CAt, CGoto, CEnds, CReturnsErr,
        CSend, CWaitFor, KillsChild, GAt, DAt
<1>1. CASE ReadReadyPipe
  BY <1>1 DEF ReadReadyPipe
<1>2. CASE DialChild
  BY <1>2 DEF DialChild
<1>3. CASE Initiate
  BY <1>3 DEF Initiate
<1>4. CASE ParentFifoFails
  BY <1>4 DEF ParentFifoFails
<1>5. CASE ChildFifoFails
  BY <1>5 DEF ChildFifoFails
<1>6. CASE AcceptFails
  BY <1>6 DEF AcceptFails
<1>7. CASE FinalizeReadyPipe
  BY <1>7 DEF FinalizeReadyPipe
<1>8. CASE OpenReadyPipe
  BY <1>8 DEF OpenReadyPipe
<1>9. CASE ListenUnix
  <2>1. FlagsOK'
    BY <1>9, Zenon DEF ListenUnix, FlagsOK
  <2>2. TypeOK'
    BY <1>9, <2>1 DEF ListenUnix, FlagsOK
  <2>3. Paired'
    BY <1>9 DEF ListenUnix
  <2>4. CapsInv' /\ NetInv' /\ DriverInv' /\ ExitInv'
    BY <1>9 DEF ListenUnix
  <2> QED BY <2>2, <2>3, <2>4
<1>10. CASE CloseReadyPipe
  BY <1>10 DEF CloseReadyPipe
<1> QED
  BY <1>1, <1>2, <1>3, <1>4, <1>5, <1>6, <1>7, <1>8, <1>9, <1>10

(* A call of Child(), the end of the child, and the target. *)
LEMMA ChildKeeps ==
  ASSUME LifecycleInv,
         \/ HasCaps \/ WaitForParentHello \/ SendChildHello \/ WaitForIdmap
         \/ GainCaps \/ SetupUserNS \/ SendUserNSCompleted \/ WaitForNetwork
         \/ WaitForPort \/ SetupMounts \/ SetupNet \/ StartChildDriver
         \/ RunTarget \/ WaitTarget \/ QuitChildDriver \/ ChildReturn
         \/ ChildFails \/ ChildKilled \/ TargetExits
  PROVE  LifecycleInv'
<1> USE LifecycleAssumption
    DEF LifecycleInv, TypeOK, Paired, CapsInv, NetInv, DriverInv, ExitInv,
        BeforeIdmap, BeforeNet, BeforePort, AfterReady, BeforeCaps, AfterSetup, Late,
        ParentPCs, ChildPCs, GPCs, DPCs, ParentMsgs, ChildMsgs, Options,
        AllPortKinds, ParentGone, ChildGone, parentVars, childVars, driverVars, pipeVars,
        PAt, PGoto, PReturns, PSend, PWaitFor, CAt, CGoto, CEnds, CReturnsErr,
        CSend, CWaitFor, KillsChild, GAt, DAt
<1>1. CASE HasCaps
  <2>1. FlagsOK'
    BY <1>1, Zenon DEF HasCaps, FlagsOK
  <2>2. TypeOK'
    BY <1>1, <2>1 DEF HasCaps, FlagsOK
  <2>3. Paired'
    BY <1>1 DEF HasCaps
  <2>4. CapsInv' /\ NetInv' /\ DriverInv' /\ ExitInv'
    BY <1>1 DEF HasCaps
  <2> QED BY <2>2, <2>3, <2>4
<1>2. CASE WaitForParentHello
  <2>1. FlagsOK'
    BY <1>2, Zenon DEF WaitForParentHello, FlagsOK
  <2>2. TypeOK'
    BY <1>2, <2>1 DEF WaitForParentHello, FlagsOK
  <2>3. Paired'
    BY <1>2 DEF WaitForParentHello
  <2>4. CapsInv' /\ NetInv' /\ DriverInv' /\ ExitInv'
    BY <1>2 DEF WaitForParentHello
  <2> QED BY <2>2, <2>3, <2>4
<1>3. CASE SendChildHello
  <2>1. FlagsOK'
    BY <1>3, Zenon DEF SendChildHello, FlagsOK
  <2>2. TypeOK'
    <3>1. Append(toParent, "ChildHello") \in Seq(ChildMsgs)
      OBVIOUS
    <3>2. toParent' \in Seq(ChildMsgs)
      BY <1>3, <3>1, Zenon DEF SendChildHello
    <3> QED BY <1>3, <2>1, <3>2 DEF SendChildHello, FlagsOK
  <2>3. Paired'
    BY <1>3 DEF SendChildHello
  <2>4. CapsInv' /\ NetInv' /\ DriverInv' /\ ExitInv'
    BY <1>3 DEF SendChildHello
  <2> QED BY <2>2, <2>3, <2>4
<1>4. CASE WaitForIdmap
  <2>1. FlagsOK'
    BY <1>4, Zenon DEF WaitForIdmap, FlagsOK
  <2>2. TypeOK'
    BY <1>4, <2>1 DEF WaitForIdmap, FlagsOK
  <2>3. Paired'
    BY <1>4 DEF WaitForIdmap
  <2>4. CapsInv' /\ NetInv' /\ DriverInv' /\ ExitInv'
    BY <1>4 DEF WaitForIdmap
  <2> QED BY <2>2, <2>3, <2>4
<1>5. CASE GainCaps
  BY <1>5 DEF GainCaps
<1>6. CASE SetupUserNS
  BY <1>6 DEF SetupUserNS
<1>7. CASE SendUserNSCompleted
  <2>1. FlagsOK'
    BY <1>7, Zenon DEF SendUserNSCompleted, FlagsOK
  <2>2. TypeOK'
    <3>1. Append(toParent, "ChildInitUserNSCompleted") \in Seq(ChildMsgs)
      OBVIOUS
    <3>2. toParent' \in Seq(ChildMsgs)
      BY <1>7, <3>1, Zenon DEF SendUserNSCompleted
    <3> QED BY <1>7, <2>1, <3>2 DEF SendUserNSCompleted, FlagsOK
  <2>3. Paired'
    BY <1>7 DEF SendUserNSCompleted
  <2>4. CapsInv' /\ NetInv' /\ DriverInv' /\ ExitInv'
    BY <1>7 DEF SendUserNSCompleted
  <2> QED BY <2>2, <2>3, <2>4
<1>8. CASE WaitForNetwork
  <2>1. FlagsOK'
    BY <1>8, Zenon DEF WaitForNetwork, FlagsOK
  <2>2. TypeOK'
    BY <1>8, <2>1 DEF WaitForNetwork, FlagsOK
  <2>3. Paired'
    <3>1. CASE toChild = <<"ParentInitNetworkDriverCompleted", "ParentInitPortDriverCompleted">>
      <4>1. /\ Head(toChild) = "ParentInitNetworkDriverCompleted"
            /\ Tail(toChild) = <<"ParentInitPortDriverCompleted">> /\ toChild # <<>>
        BY <3>1, TwoMessages, Zenon
      <4> QED BY <1>8, <3>1, <4>1 DEF WaitForNetwork
    <3>2. CASE toChild # <<"ParentInitNetworkDriverCompleted", "ParentInitPortDriverCompleted">>
      BY <1>8, <3>2 DEF WaitForNetwork
    <3> QED BY <3>1, <3>2
  <2>4. CapsInv' /\ NetInv' /\ DriverInv' /\ ExitInv'
    BY <1>8 DEF WaitForNetwork
  <2> QED BY <2>2, <2>3, <2>4
<1>9. CASE WaitForPort
  <2>1. FlagsOK'
    BY <1>9, Zenon DEF WaitForPort, FlagsOK
  <2>2. TypeOK'
    BY <1>9, <2>1 DEF WaitForPort, FlagsOK
  <2>3. Paired'
    BY <1>9 DEF WaitForPort
  <2>4. CapsInv' /\ NetInv' /\ DriverInv' /\ ExitInv'
    BY <1>9 DEF WaitForPort
  <2> QED BY <2>2, <2>3, <2>4
<1>10. CASE SetupMounts
  BY <1>10 DEF SetupMounts
<1>11. CASE SetupNet
  BY <1>11 DEF SetupNet
<1>12. CASE StartChildDriver
  BY <1>12 DEF StartChildDriver
<1>13. CASE RunTarget
  BY <1>13 DEF RunTarget
<1>14. CASE WaitTarget
  <2>1. FlagsOK'
    BY <1>14, Zenon DEF WaitTarget, FlagsOK
  <2>2. TypeOK'
    BY <1>14, <2>1 DEF WaitTarget, FlagsOK
  <2>3. Paired'
    BY <1>14 DEF WaitTarget
  <2>4. CapsInv' /\ NetInv' /\ DriverInv' /\ ExitInv'
    BY <1>14 DEF WaitTarget
  <2> QED BY <2>2, <2>3, <2>4
<1>15. CASE QuitChildDriver
  <2>1. FlagsOK'
    BY <1>15, Zenon DEF QuitChildDriver, FlagsOK
  <2>2. TypeOK'
    BY <1>15, <2>1 DEF QuitChildDriver, FlagsOK
  <2>3. Paired'
    BY <1>15 DEF QuitChildDriver
  <2>4. CapsInv' /\ NetInv' /\ DriverInv' /\ ExitInv'
    BY <1>15 DEF QuitChildDriver
  <2> QED BY <2>2, <2>3, <2>4
<1>16. CASE ChildReturn
  <2>1. FlagsOK'
    BY <1>16, Zenon DEF ChildReturn, FlagsOK
  <2>2. TypeOK'
    BY <1>16, <2>1 DEF ChildReturn, FlagsOK
  <2>3. Paired'
    BY <1>16 DEF ChildReturn
  <2>4. CapsInv' /\ NetInv' /\ DriverInv' /\ ExitInv'
    BY <1>16 DEF ChildReturn
  <2> QED BY <2>2, <2>3, <2>4
<1>17. CASE ChildFails
  <2>1. FlagsOK'
    BY <1>17, Zenon DEF ChildFails, FlagsOK
  <2>2. TypeOK'
    BY <1>17, <2>1 DEF ChildFails, FlagsOK
  <2>3. Paired'
    BY <1>17 DEF ChildFails
  <2>4. CapsInv' /\ NetInv' /\ DriverInv' /\ ExitInv'
    BY <1>17 DEF ChildFails
  <2> QED BY <2>2, <2>3, <2>4
<1>18. CASE ChildKilled
  <2>1. FlagsOK'
    BY <1>18, Zenon DEF ChildKilled, FlagsOK
  <2>2. TypeOK'
    BY <1>18, <2>1 DEF ChildKilled, FlagsOK
  <2>3. Paired'
    BY <1>18 DEF ChildKilled
  <2>4. CapsInv' /\ NetInv' /\ DriverInv' /\ ExitInv'
    BY <1>18 DEF ChildKilled
  <2> QED BY <2>2, <2>3, <2>4
<1>19. CASE TargetExits
  BY <1>19 DEF TargetExits
<1> QED
  BY <1>1, <1>2, <1>3, <1>4, <1>5, <1>6, <1>7, <1>8, <1>9, <1>10, <1>11,
     <1>12, <1>13, <1>14, <1>15, <1>16, <1>17, <1>18, <1>19

(* Only its return and a signal end the parent. *)
LEMMA ParentStatus ==
  ASSUME Next, ~(ParentReturn \/ ParentKilled)
  PROVE  pst' = pst \/ pst' = "returning"
<1> USE DEF parentVars, PGoto, PReturns, PSend, PWaitFor, CSend, CWaitFor
<1>1. CASE ParentStep
  BY <1>1 DEF ParentStep, Start, SendParentHello, WaitForChildHello, SetupUIDGIDMap,
       SendIdmapCompleted, WaitForUserNS, EvacuateCgroup2, ConfigureNetwork,
       SendNetworkCompleted, StartParentDriver, SendPortCompleted, ClosePipe,
       SelectDriver, PublishPort, WriteChildPid, ListenServeAPI, WaitForChild,
       CloseAPI, QuitParentDriver, ReceiveDriverErr, ParentFails
<1>2. CASE ParentDriverStep \/ ChildDriverStep \/ DriverFault
  BY <1>2 DEF ParentDriverStep, ReadReadyPipe, DialChild, Initiate, ChildDriverStep,
       OpenReadyPipe, ListenUnix, CloseReadyPipe, DriverFault, ParentFifoFails,
       ChildFifoFails, AcceptFails, FinalizeReadyPipe
<1>3. CASE ChildStep \/ TargetExits \/ ChildKilled
  BY <1>3 DEF ChildStep, HasCaps, WaitForParentHello, SendChildHello, WaitForIdmap,
       GainCaps, SetupUserNS, SendUserNSCompleted, WaitForNetwork, WaitForPort,
       SetupMounts, SetupNet, StartChildDriver, RunTarget, WaitTarget,
       QuitChildDriver, ChildReturn, ChildFails, ChildKilled, TargetExits
<1> QED BY <1>1, <1>2, <1>3 DEF Next, Terminated, vars

(* The inductive invariant holds throughout a run of RootlessKit. *)
THEOREM LifecycleInvariant == Spec => []LifecycleInv
<1>1. Init => LifecycleInv
  <2> SUFFICES ASSUME Init PROVE LifecycleInv
    OBVIOUS
  <2> USE LifecycleAssumption DEF Init
  <2>1. FlagsOK
    BY Zenon DEF FlagsOK
  <2>2. TypeOK
    BY <2>1 DEF TypeOK, FlagsOK, Options, AllPortKinds, ParentPCs, ChildPCs, GPCs, DPCs
  <2>3. Paired /\ CapsInv
    BY DEF Paired, CapsInv, BeforeIdmap, BeforeCaps
  <2>4. NetInv /\ DriverInv /\ ExitInv
    BY DEF NetInv, DriverInv, ExitInv, BeforeIdmap, BeforeNet, AfterReady, AfterSetup
  <2> QED BY <2>2, <2>3, <2>4 DEF LifecycleInv
<1>2. LifecycleInv /\ [Next]_vars => LifecycleInv'
  <2> SUFFICES ASSUME LifecycleInv, [Next]_vars PROVE LifecycleInv'
    OBVIOUS
  <2>1. CASE ParentStep \/ ParentKilled
    BY <2>1, ParentKeeps DEF ParentStep
  <2>2. CASE ParentDriverStep \/ ChildDriverStep \/ DriverFault
    BY <2>2, DriverKeeps DEF ParentDriverStep, ChildDriverStep, DriverFault
  <2>3. CASE ChildStep \/ TargetExits \/ ChildKilled
    BY <2>3, ChildKeeps DEF ChildStep
  <2>4. CASE UNCHANGED vars
    BY <2>4 DEF vars, LifecycleInv, TypeOK, Paired, CapsInv, NetInv, DriverInv,
                ExitInv, ParentGone
  <2> QED BY <2>1, <2>2, <2>3, <2>4 DEF Next, Terminated
<1> QED BY <1>1, <1>2, PTL DEF Spec

(* Every variable keeps its type: the number of re-executions and of       *)
(* published ports included.                                               *)
THEOREM LifecycleTypeOK == Spec => []TypeOK
<1>1. LifecycleInv => TypeOK
  BY DEF LifecycleInv
<1> QED BY <1>1, LifecycleInvariant, PTL

(* Neither WaitFor of the parent nor WaitFor of the child ever meets a     *)
(* message it does not expect, whatever fails (messages.go:99).            *)
THEOREM HandshakeIsInOrder == Spec => []HandshakeInOrder
<1>1. LifecycleInv => HandshakeInOrder
  <2> SUFFICES ASSUME LifecycleInv PROVE HandshakeInOrder
    OBVIOUS
  <2> USE DEF LifecycleInv, Paired, BeforeIdmap, BeforeNet, BeforePort, AfterSetup, Late
  <2>1. ASSUME NEW pc \in DOMAIN ChildExpects, cpc = pc, toChild # <<>>
        PROVE  Head(toChild) = ChildExpects[pc]
    <3>1. CASE toChild = <<"ParentInitNetworkDriverCompleted", "ParentInitPortDriverCompleted">>
      <4>1. Head(toChild) = "ParentInitNetworkDriverCompleted"
        BY <3>1, TwoMessages, Zenon
      <4>2. cpc = "waitNet"
        BY <3>1
      <4> QED BY <2>1, <4>1, <4>2 DEF ChildExpects
    <3>2. CASE toChild # <<"ParentInitNetworkDriverCompleted", "ParentInitPortDriverCompleted">>
      BY <2>1, <3>2 DEF ChildExpects
    <3> QED BY <3>1, <3>2
  <2>2. ASSUME NEW pc \in DOMAIN ParentExpects, ppc = pc, toParent # <<>>
        PROVE  Head(toParent) = ParentExpects[pc]
    BY <2>2 DEF ParentExpects
  <2> QED BY <2>1, <2>2 DEF HandshakeInOrder
<1> QED BY <1>1, LifecycleInvariant, PTL

(* gainCaps re-executes the child once: the retry of child.go:319 is never *)
(* taken.                                                                  *)
THEOREM ReexecutesOnce == Spec => []ReexecOnce
<1>1. LifecycleInv => ReexecOnce
  BY DEF LifecycleInv, TypeOK, CapsInv, ReexecOnce
<1> QED BY <1>1, LifecycleInvariant, PTL

(* The network driver of the parent never works on a child without ID      *)
(* maps, capabilities or network namespace (parent.go:262).                *)
THEOREM NamespaceBeforeNetwork == Spec => []NetworkNeedsNamespace
<1>1. LifecycleInv => NetworkNeedsNamespace
  BY DEF LifecycleInv, TypeOK, Options, Paired, CapsInv, NetInv, NetworkNeedsNamespace,
         ParentPCs, ChildPCs, BeforeIdmap, BeforeNet, BeforePort, BeforeCaps, AfterSetup, Late
<1> QED BY <1>1, LifecycleInvariant, PTL

(* The target runs with its capabilities and a configured network          *)
(* (child.go:461-526).                                                     *)
THEOREM NetworkBeforeTarget == Spec => []TargetSeesNetwork
<1>1. LifecycleInv => TargetSeesNetwork
  BY DEF LifecycleInv, TypeOK, Paired, CapsInv, NetInv, ExitInv, TargetSeesNetwork,
         ParentPCs, BeforeIdmap, BeforeNet, BeforePort, BeforeCaps, AfterSetup, Late
<1> QED BY <1>1, LifecycleInvariant, PTL

(* child_pid and the API socket announce a port driver that serves and     *)
(* published ports (parent.go:312-345).                                    *)
THEOREM ReadyIsReady == Spec => []ReadyMeansReady
<1>1. LifecycleInv => ReadyMeansReady
  BY DEF LifecycleInv, DriverInv, ReadyMeansReady, AfterReady
<1> QED BY <1>1, LifecycleInvariant, PTL

(* Parent() returns nil only if the target succeeded (parent.go:348-360).  *)
THEOREM SuccessIsHonest == Spec => []ExitStatusHonest
<1>1. LifecycleInv => ExitStatusHonest
  BY DEF LifecycleInv, ExitInv, ExitStatusHonest
<1> QED BY <1>1, LifecycleInvariant, PTL

(* The step that ends the parent ends a running target (child.go:491, 512). *)
THEOREM ParentTakesTarget == Spec => TargetDiesWithParent
<1>1. LifecycleInv /\ [Next]_vars =>
        [tgt = "running" /\ ~ParentGone /\ ParentGone' => tgt' # "running"]_vars
  <2> SUFFICES ASSUME LifecycleInv, Next, tgt = "running", ~ParentGone, ParentGone'
               PROVE  tgt' # "running"
    OBVIOUS
  <2>1. cst = "running" /\ pdeath
    BY DEF LifecycleInv, ExitInv
  <2>2. CASE ParentReturn \/ ParentKilled
    BY <2>1, <2>2 DEF ParentReturn, ParentKilled, KillsChild, CEnds
  <2>3. CASE ~(ParentReturn \/ ParentKilled)
    <3>1. pst' = pst \/ pst' = "returning"
      BY <2>3, ParentStatus
    <3> QED BY <3>1 DEF ParentGone
  <2> QED BY <2>2, <2>3
<1> QED BY <1>1, LifecycleInvariant, PTL DEF Spec, TargetDiesWithParent
=============================================================================
