---------------------------- MODULE NetworkDriver ----------------------------
(***************************************************************************)
(* ConfigureNetwork of the parent's network drivers, step by step, with    *)
(* the cleanups it hands back and Parent defers, and setupNet with         *)
(* ConfigureNetworkChild in the child.  The handshake around them is in    *)
(* Lifecycle; here the child starts when the network message is sent.      *)
(* A driver has at most one helper process: slirp4netns, vpnkit, pasta,    *)
(* or the "sleep infinity" that holds a detached network namespace.        *)
(***************************************************************************)
EXTENDS Naturals, Sequences

CONSTANT Drivers  \* the network drivers to choose from

ASSUME DriversAssumption ==
  Drivers \subseteq {"none", "pasta", "slirp4netns", "vpnkit", "lxc-user-nic", "gvisor-tap-vsock"}

VARIABLES
  drv, detached,  \* --net, --detach-netns
  pst,            \* the parent: in ConfigureNetwork, about to send, ...
  step,           \* index of the step ConfigureNetwork is at
  cleanups,       \* the cleanups it has collected
  helper,         \* the helper process
  ready,          \* the helper has written to its ready descriptor
  waited,         \* the parent has waited for (reaped) the helper
  iface,          \* what is configured in the child's network namespace
  listener, vn,   \* tap.sock and the virtual network of gvisor-tap-vsock
  sent,           \* ParentInitNetworkDriverCompleted is in the pipe
  cpc,            \* the child: where setupNet is
  conn            \* the child's connection to tap.sock

parentVars == <<pst, step, cleanups>>
helperVars == <<helper, ready, waited>>
switchVars == <<listener, vn>>
vars == <<drv, detached, pst, step, cleanups, helper, ready, waited, iface,
          listener, vn, sent, cpc, conn>>

Alive  == {"starting", "ready"}
Device == {"exists", "up", "addr", "route"}

Init ==
  /\ drv \in Drivers /\ detached \in BOOLEAN
  /\ pst = "configuring" /\ step = 1 /\ cleanups = <<>>
  /\ helper = "none" /\ ready = FALSE /\ waited = FALSE
  /\ iface = {} /\ listener = "none" /\ vn = FALSE /\ sent = FALSE
  /\ cpc = "wait" /\ conn = "none"

-----------------------------------------------------------------------------
(* ConfigureNetwork *)

\* The calls of a driver that change something or may fail, in their order.
Steps ==
  CASE drv = "none"             -> IF detached THEN <<"sleep", "lo">> ELSE <<"lo">>
    [] drv = "pasta"            -> <<"pasta">>
    [] drv = "slirp4netns"      -> <<"tap", "start", "ready", "msg">>
    [] drv = "vpnkit"           -> <<"start", "connect", "vif">>
    [] drv = "lxc-user-nic"     -> IF detached THEN <<"sleep", "create">> ELSE <<"create">>
    [] drv = "gvisor-tap-vsock" -> <<"tap", "socket", "vn", "msg">>

At(s) == pst = "configuring" /\ Steps[step] = s

\* The step succeeds; the last one makes ConfigureNetwork return.
Done ==
  /\ step' = step + 1
  /\ pst' = IF step = Len(Steps) THEN "send" ELSE pst

\* ConfigureNetwork returns an error with the cleanups so far; Parent returns.
Fails == pst' = "returning" /\ UNCHANGED step

\* Mutant: errors are returned with nil instead of common.Seq(cleanups).
StepFails_DropsCleanups ==
  /\ pst = "configuring"
  /\ Fails
  /\ cleanups' = <<>>
  /\ UNCHANGED <<drv, detached, helperVars, iface, switchVars, sent, cpc, conn>>

\* A call fails.  The helper's cleanup is collected before it is started, so
\* it is there already when Start fails, and not yet when Pipe does.
StepFails ==
  /\ pst = "configuring"
  /\ Fails
  /\ \/ UNCHANGED cleanups
     \/ At("start") /\ cleanups' = Append(cleanups, "kill")
  /\ UNCHANGED <<drv, detached, helperVars, iface, switchVars, sent, cpc, conn>>

\* PrepareTap: ip tuntap add, ip link set up.
PrepareTap ==
  /\ At("tap") /\ Done
  /\ iface' = iface \cup {"exists", "up"}
  /\ UNCHANGED <<drv, detached, cleanups, helperVars, switchVars, sent, cpc, conn>>

\* cmd.Start of slirp4netns or vpnkit, with Pdeathsig.
StartHelper ==
  /\ At("start") /\ Done
  /\ helper' = "starting"
  /\ cleanups' = cleanups \o IF drv = "vpnkit" THEN <<"kill", "cancel">> ELSE <<"kill">>
  /\ UNCHANGED <<drv, detached, ready, waited, iface, switchVars, sent, cpc, conn>>

\* waitForReadyFD: the parent has the write end too and never reads EOF.
WaitForReadyFD ==
  /\ At("ready") /\ ready /\ Done
  /\ UNCHANGED <<drv, detached, cleanups, helperVars, iface, switchVars, sent, cpc, conn>>

\* Mutant: the process is not polled while the pipe is read.
WaitForReadyFDFails_NoPoll == FALSE /\ UNCHANGED vars

\* The read times out and Wait4 finds (and reaps) a process that has ended.
WaitForReadyFDFails ==
  /\ At("ready") /\ ~ready /\ helper = "dead"
  /\ Fails
  /\ waited' = TRUE
  /\ UNCHANGED <<drv, detached, cleanups, helper, ready, iface, switchVars, sent, cpc, conn>>

\* waitForVPNKit: a connection is made, or ten seconds have passed.
WaitForVPNKit ==
  /\ At("connect") /\ helper = "ready" /\ Done
  /\ cleanups' = Append(cleanups, "vmnet")
  /\ UNCHANGED <<drv, detached, helperVars, iface, switchVars, sent, cpc, conn>>

WaitForVPNKitTimesOut ==
  /\ At("connect") /\ Fails
  /\ UNCHANGED <<drv, detached, cleanups, helperVars, iface, switchVars, sent, cpc, conn>>

\* ConnectVif has no timeout: vpnkit answers, or its end closes the socket.
ConnectVif ==
  /\ At("vif")
  /\ \/ helper = "ready" /\ Done
     \/ helper = "dead" /\ Fails
  /\ UNCHANGED <<drv, detached, cleanups, helperVars, iface, switchVars, sent, cpc, conn>>

\* setupSocket: listen, and start acceptConnections.
SetupSocket ==
  /\ At("socket") /\ Done
  /\ listener' = "open"
  /\ UNCHANGED <<drv, detached, cleanups, helperVars, iface, vn, sent, cpc, conn>>

\* Mutant: the virtual network is not stored in d.vn.
SetupVirtualNetwork_NotStored ==
  /\ At("vn") /\ Done
  /\ cleanups' = Append(cleanups, "socket")
  /\ UNCHANGED <<drv, detached, helperVars, iface, switchVars, sent, cpc, conn>>

SetupVirtualNetwork ==
  /\ At("vn") /\ Done
  /\ vn' = TRUE
  /\ cleanups' = Append(cleanups, "socket")
  /\ UNCHANGED <<drv, detached, helperVars, iface, listener, sent, cpc, conn>>

\* The addresses of the message, computed from the CIDR.
PrepareMessage ==
  /\ At("msg") /\ Done
  /\ UNCHANGED <<drv, detached, cleanups, helperVars, iface, switchVars, sent, cpc, conn>>

\* nsenter ... sleep infinity, with Pdeathsig and without a cleanup.  Nobody
\* waits until it has entered the namespaces.
StartSleep ==
  /\ At("sleep") /\ Done
  /\ helper' = "starting"
  /\ UNCHANGED <<drv, detached, cleanups, ready, waited, iface, switchVars, sent, cpc, conn>>

\* lxc-user-nic create, in the namespace of the sleep if it is detached: when
\* the sleep has not entered it yet, the device is not made there.
CreateVeth ==
  /\ At("create") /\ (detached => helper \in Alive) /\ Done
  /\ iface' = IF detached /\ helper = "starting" THEN iface ELSE iface \cup {"exists"}
  /\ UNCHANGED <<drv, detached, cleanups, helperVars, switchVars, sent, cpc, conn>>

\* The "none" driver sets up the loopback interface itself.  If the sleep has
\* not entered its namespaces, nsenter -U fails: setns(2) does not re-enter
\* the caller's own user namespace.
ConfigureLo ==
  /\ At("lo") /\ (detached => helper = "ready") /\ Done
  /\ iface' = iface \cup {"lo"}
  /\ UNCHANGED <<drv, detached, cleanups, helperVars, switchVars, sent, cpc, conn>>

\* pasta configures the interface and goes to the background.
RunPasta ==
  /\ At("pasta") /\ Done
  /\ helper' = "ready"
  /\ iface' = iface \cup Device
  /\ UNCHANGED <<drv, detached, cleanups, ready, waited, switchVars, sent, cpc, conn>>

(* The helper process *)

\* Only slirp4netns has a ready descriptor; the sleep has entered the namespaces.
HelperReady ==
  /\ helper = "starting"
  /\ helper' = "ready" /\ ready' = (drv = "slirp4netns")
  /\ UNCHANGED <<drv, detached, parentVars, waited, iface, switchVars, sent, cpc, conn>>

HelperDies ==
  /\ helper \in Alive
  /\ helper' = "dead"
  /\ UNCHANGED <<drv, detached, parentVars, ready, waited, iface, switchVars, sent, cpc, conn>>

(* The rest of Parent *)

SendMessage ==
  /\ pst = "send"
  /\ pst' = "serving" /\ sent' = TRUE
  /\ UNCHANGED <<drv, detached, step, cleanups, helperVars, iface, switchVars, cpc, conn>>

\* The child has ended, or a call of Parent fails.
ParentReturns ==
  /\ pst \in {"send", "serving"}
  /\ pst' = "returning"
  /\ UNCHANGED <<drv, detached, step, cleanups, helperVars, iface, switchVars, sent, cpc, conn>>

ClosedConn == IF conn \in {"pending", "served"} THEN "closed" ELSE conn

\* common.Seq calls the cleanups in the order in which they were collected.
\* Killing is followed by Wait, which fails when there is no process.  Only
\* the last cleanup may return an error, so none is skipped.
RunCleanup ==
  /\ pst = "returning" /\ cleanups # <<>>
  /\ cleanups' = Tail(cleanups)
  /\ IF Head(cleanups) = "kill" /\ helper # "none"
       THEN helper' = "dead" /\ waited' = TRUE
       ELSE UNCHANGED <<helper, waited>>
  /\ IF Head(cleanups) = "socket"
       THEN listener' = "closed" /\ conn' = IF conn = "pending" THEN "closed" ELSE conn
       ELSE UNCHANGED <<listener, conn>>
  /\ UNCHANGED <<drv, detached, pst, step, ready, iface, vn, sent, cpc>>

CleanupsDone ==
  /\ pst = "returning" /\ cleanups = <<>>
  /\ pst' = "returned"
  /\ UNCHANGED <<drv, detached, step, cleanups, helperVars, iface, switchVars, sent, cpc, conn>>

\* The parent process ends, killed or not: Pdeathsig takes the helper, but for
\* pasta, which ends when its namespace is gone, and the child once it has set
\* Pdeathsig again to run the target; setupNet runs without.
ParentEnds ==
  /\ pst # "exited"
  /\ pst' = "exited"
  /\ cpc' = IF cpc = "target" THEN "dead" ELSE cpc
  /\ helper' = IF helper \in Alive /\ drv # "pasta" THEN "dead" ELSE helper
  /\ listener' = IF listener = "open" THEN "closed" ELSE listener
  /\ conn' = ClosedConn
  /\ UNCHANGED <<drv, detached, step, cleanups, ready, waited, iface, vn, sent>>

\* acceptConnections and handleConnection, which needs the virtual network.
AcceptConnections ==
  /\ listener = "open" /\ conn = "pending"
  /\ conn' = IF vn THEN "served" ELSE "refused"
  /\ UNCHANGED <<drv, detached, parentVars, helperVars, iface, switchVars, sent, cpc>>

-----------------------------------------------------------------------------
(* setupNet in the child *)

ChildUnchanged == UNCHANGED <<drv, detached, parentVars, helperVars, switchVars, sent>>

\* The message is received; "none" and "host" have no child driver.
SetupNet ==
  /\ cpc = "wait" /\ sent
  /\ cpc' = IF drv = "none" THEN "target" ELSE "loopback"
  /\ ChildUnchanged /\ UNCHANGED <<iface, conn>>

ActivateLoopback ==
  /\ cpc = "loopback"
  /\ cpc' = "driver"
  /\ iface' = iface \cup {"lo"}
  /\ ChildUnchanged /\ UNCHANGED conn

\* Mutant: ChildDriverInfo of every driver has ConfiguresInterface.
AfterDriver_Configured == "target"

\* pasta configures the interface, the other drivers leave it to the child.
AfterDriver == IF drv = "pasta" THEN "target" ELSE "dev"

\* ConfigureNetworkChild.  slirp4netns and pasta: nothing to do.
PreparedByParent ==
  /\ cpc = "driver" /\ drv \in {"slirp4netns", "pasta"}
  /\ cpc' = AfterDriver
  /\ ChildUnchanged /\ UNCHANGED <<iface, conn>>

\* lxc-user-nic: the link is set up and DHCP gives an address.
ExchangeDHCP ==
  /\ cpc = "driver" /\ drv = "lxc-user-nic" /\ "exists" \in iface
  /\ cpc' = AfterDriver
  /\ iface' = iface \cup {"up"}
  /\ ChildUnchanged /\ UNCHANGED conn

\* vpnkit: the child creates the tap and connects to vpnkit as well.
StartVPNKitRoutines ==
  /\ cpc = "driver" /\ drv = "vpnkit" /\ "exists" \notin iface
  /\ helper = "ready"
  /\ cpc' = AfterDriver
  /\ iface' = iface \cup {"exists"}
  /\ ChildUnchanged /\ UNCHANGED conn

\* gvisor-tap-vsock: the child opens the tap and dials tap.sock.
DialTapSocket ==
  /\ cpc = "driver" /\ drv = "gvisor-tap-vsock" /\ "exists" \in iface
  /\ listener = "open"
  /\ conn' = "pending"
  /\ cpc' = AfterDriver
  /\ ChildUnchanged /\ UNCHANGED iface

\* ip addr add fails if the address is there already.
ActivateDev ==
  /\ cpc = "dev" /\ "exists" \in iface /\ "addr" \notin iface
  /\ cpc' = "target"
  /\ iface' = iface \cup Device
  /\ ChildUnchanged /\ UNCHANGED conn

\* A call of the child fails, its target ends, or a goroutine of the driver
\* panics (tap2vif, vif2tap, dhcpRenewRoutine).
ChildEnds ==
  /\ cpc # "dead"
  /\ cpc' = "dead"
  /\ conn' = ClosedConn
  /\ ChildUnchanged /\ UNCHANGED iface

-----------------------------------------------------------------------------
ConfigureStep ==
  \/ PrepareTap \/ StartHelper \/ WaitForReadyFD \/ WaitForReadyFDFails
  \/ WaitForVPNKit \/ WaitForVPNKitTimesOut \/ ConnectVif \/ SetupSocket
  \/ SetupVirtualNetwork \/ PrepareMessage \/ StartSleep \/ CreateVeth
  \/ ConfigureLo \/ RunPasta

HelperStep == HelperReady \/ HelperDies

ParentStep == SendMessage \/ ParentReturns \/ RunCleanup \/ CleanupsDone \/ ParentEnds

ChildStep ==
  \/ SetupNet \/ ActivateLoopback \/ PreparedByParent \/ ExchangeDHCP
  \/ StartVPNKitRoutines \/ DialTapSocket \/ ActivateDev \/ ChildEnds

Next == ConfigureStep \/ StepFails \/ HelperStep \/ ParentStep \/ AcceptConnections \/ ChildStep

Spec == Init /\ [][Next]_vars

(* The parent's code runs, the commands it waits for end, well or not, and *)
(* a helper that was started becomes ready or dies.                        *)
FairSpec ==
  /\ Spec
  /\ WF_vars(ConfigureStep \/ (StepFails /\ ~At("ready")))
  /\ WF_vars(helper = "starting" /\ HelperStep)

-----------------------------------------------------------------------------
(* Properties *)

TypeOK ==
  /\ drv \in Drivers /\ detached \in BOOLEAN
  /\ pst \in {"configuring", "send", "serving", "returning", "returned", "exited"}
  /\ step \in 1..5
  /\ cleanups \in Seq({"kill", "cancel", "vmnet", "socket"})
  /\ helper \in Alive \cup {"none", "dead"}
  /\ ready \in BOOLEAN /\ waited \in BOOLEAN
  /\ iface \subseteq (Device \cup {"lo"})
  /\ listener \in {"none", "open", "closed"} /\ vn \in BOOLEAN
  /\ sent \in BOOLEAN
  /\ cpc \in {"wait", "loopback", "driver", "dev", "target", "dead"}
  /\ conn \in {"none", "pending", "served", "refused", "closed"}

(* The target starts with a working network: loopback, and a device with   *)
(* link, address and default route, whichever of parent, helper and child  *)
(* is in charge of each; the helper or the virtual network behind it came  *)
(* up before (child.go:189-270).                                           *)
TargetHasNetwork ==
  cpc = "target" =>
    /\ "lo" \in iface
    /\ drv # "none" => Device \subseteq iface
    /\ drv \in {"slirp4netns", "vpnkit", "pasta"} => helper \in {"ready", "dead"}
    /\ drv = "gvisor-tap-vsock" => vn /\ conn # "none"

(* When Parent returns, at whatever step ConfigureNetwork failed, the      *)
(* cleanups have ended slirp4netns and vpnkit, and reaped them, and have   *)
(* closed tap.sock (parent.go:267-271, common.go:3-12), with the one       *)
(* exception in the code: a setupVirtualNetwork that fails leaves the      *)
(* socket open, its cleanup not being collected yet                        *)
(* (gvisortapvsock.go:337-355).  pasta and the sleep have no cleanup, and  *)
(* nothing is said of them.                                                *)
CleanedUp ==
  pst = "returned" =>
    /\ drv \in {"slirp4netns", "vpnkit"} => helper = "none" \/ (helper = "dead" /\ waited)
    /\ listener = "open" => drv = "gvisor-tap-vsock" /\ Steps[step] = "vn"

(* handleConnection never finds the virtual network missing, although      *)
(* acceptConnections is started before it is set up                        *)
(* (gvisortapvsock.go:267-277).                                            *)
ConnFindsNetwork == conn # "refused"

(* ConfigureNetwork returns: waitForReadyFD notices a slirp4netns that     *)
(* dies although the pipe stays open, waitForVPNKit gives up.              *)
ConfigureReturns == (pst = "configuring") ~> (pst # "configuring")
=============================================================================
