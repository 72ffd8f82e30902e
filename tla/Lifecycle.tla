------------------------------ MODULE Lifecycle ------------------------------
(***************************************************************************)
(* One run of RootlessKit: the parent process (pkg/parent.Parent), the     *)
(* child it clones into new namespaces (pkg/child.Child), the two pipes    *)
(* between them (pkg/messages), the goroutine of each side that runs the   *)
(* port driver, and the target command.                                    *)
(*                                                                         *)
(* Each process has a status and a program counter.  The program counter   *)
(* names the call the process is about to make and keeps its value when    *)
(* the process ends, so it also tells how far the process came.            *)
(***************************************************************************)
EXTENDS Naturals, Sequences

CONSTANTS
  PortKinds,  \* the --port-driver values considered
  NPublish,   \* how many --publish ports the parent adds before it is ready
  Faults      \* the operations that may fail, and the processes that may be killed

AllPortKinds == {"none", "builtin", "slirp4netns", "gvisor-tap-vsock"}

\* A fault is named after the program counter of the call that fails.
AllFaults ==
  {"start", "idmap", "cgroup", "net", "publish", "childPid", "api", "closeApi",
   "fifo", "gainCaps", "userns", "mounts", "setupNet", "run", "listen",
   "accept", "parentKill", "childKill"}

ASSUME LifecycleAssumption ==
  /\ PortKinds \subseteq AllPortKinds
  /\ NPublish \in Nat
  /\ Faults \subseteq AllFaults

VARIABLES
  opt,        \* options: a network driver?, --detach-netns?, the port driver
  \* the parent process
  pst,        \* status
  ppc,        \* next call of Parent()
  presult,    \* what Parent() returned
  published,  \* number of --publish ports added
  idmap,      \* uid_map and gid_map of the child are written
  netHelper,  \* the network driver is configured; its cleanup is deferred
  childPid,   \* the child_pid file exists
  api,        \* the API socket is served
  g,          \* the goroutine that runs RunParentDriver
  \* the child process
  cst,        \* status
  cpc,        \* next call of Child()
  caps,       \* effective capabilities in the user namespace
  reexecs,    \* how often gainCaps re-executed the child
  netns,      \* the network namespace to configure exists
  childNet,   \* setupNet is done
  pdeath,     \* SIGKILL is armed for the death of the parent
  tgt,        \* the target command
  d,          \* the goroutine that runs RunChildDriver
  quitCh,     \* a goroutine of the child driver receives from portQuitCh
  fifo,       \* the child's end of .bp-ready.pipe
  sock,       \* .bp.sock is bound and listening
  \* the pipes
  toChild, toParent

optVars    == <<opt>>
parentVars == <<pst, ppc, presult, published, idmap, netHelper, childPid, api>>
childVars  == <<cst, cpc, caps, reexecs, netns, childNet, pdeath, tgt>>
driverVars == <<d, quitCh, fifo, sock>>
pipeVars   == <<toChild, toParent>>
vars       == <<opt, pst, ppc, presult, published, idmap, netHelper, childPid,
                api, g, cst, cpc, caps, reexecs, netns, childNet, pdeath, tgt,
                d, quitCh, fifo, sock, toChild, toParent>>

ParentMsgs == {"ParentHello", "ParentInitIdmapCompleted",
               "ParentInitNetworkDriverCompleted", "ParentInitPortDriverCompleted"}
ChildMsgs  == {"ChildHello", "ChildInitUserNSCompleted"}

ParentPCs == {"start", "sendHello", "waitHello", "idmap", "sendIdmap",
              "waitUserNS", "cgroup", "net", "sendNet", "startPort", "sendPort",
              "closePipe", "select", "publish", "childPid", "api", "wait",
              "closeApi", "quit", "portErr"}
ChildPCs  == {"hasCaps", "waitHello", "sendHello", "waitIdmap", "gainCaps",
              "userns", "sendUserNS", "waitNet", "waitPort", "mounts",
              "setupNet", "startPort", "run", "waitTgt", "quit", "portErr"}
GPCs == {"off", "fifo", "readFifo", "dial", "initiate", "initComplete",
         "serve", "retNil", "retErr", "done"}
DPCs == {"off", "fifo", "listen", "closeFifo", "serve", "retNil", "retErr", "done"}

(* The options createParentOpt and createChildOpt accept: the builtin and  *)
(* gvisor-tap-vsock port drivers need a network driver, slirp4netns needs  *)
(* the slirp4netns one.                                                    *)
Options == {o \in [net : BOOLEAN, detach : BOOLEAN, port : PortKinds] :
              o.port # "none" => o.net}

Init ==
  /\ opt \in Options
  /\ pst = "running" /\ ppc = "start" /\ presult = "none"
  /\ published = 0
  /\ idmap = FALSE /\ netHelper = FALSE /\ childPid = FALSE /\ api = FALSE
  /\ g = "off"
  /\ cst = "absent" /\ cpc = "hasCaps"
  /\ caps = FALSE /\ reexecs = 0 /\ netns = FALSE /\ childNet = FALSE
  /\ pdeath = FALSE /\ tgt = "none"
  /\ d = "off" /\ quitCh = FALSE /\ fifo = "unopened" /\ sock = FALSE
  /\ toChild = <<>> /\ toParent = <<>>

ParentGone == pst \in {"exited", "killed"}
ChildGone  == cst \in {"ok", "err", "killed"}

-----------------------------------------------------------------------------
(* Control of the parent *)

PAt(pc) == pst = "running" /\ ppc = pc

PGoto(pc) == ppc' = pc /\ UNCHANGED <<pst, presult>>

\* Parent() returns; its deferred calls are the next step, ParentReturn.
PReturns(result) == pst' = "returning" /\ presult' = result /\ UNCHANGED ppc

\* messages.Send on pipeW.  The parent keeps its own copy of pipeR open, so
\* the write succeeds even when the child is gone.
PSend(pc, m, next) ==
  /\ PAt(pc)
  /\ toChild' = Append(toChild, m)
  /\ PGoto(next)
  /\ UNCHANGED <<opt, published, idmap, netHelper, childPid, api, g, toParent>>
  /\ UNCHANGED <<childVars, driverVars>>

\* messages.WaitFor on pipe2R: another message than the expected one is an
\* error.  The parent holds pipe2W too: there is no end of file to read.
PWaitFor(pc, m, next) ==
  /\ PAt(pc)
  /\ toParent # <<>>
  /\ toParent' = Tail(toParent)
  /\ IF Head(toParent) = m THEN PGoto(next) ELSE PReturns("err")
  /\ UNCHANGED <<opt, published, idmap, netHelper, childPid, api, g, toChild>>
  /\ UNCHANGED <<childVars, driverVars>>

(* Control of the child *)

CAt(pc) == cst = "running" /\ cpc = pc

\* The child process ends: what it had open is closed, and its Pdeathsig
\* takes the target with it.
CEnds(status) ==
  /\ cst' = status
  /\ tgt' = IF tgt = "running" THEN "killed" ELSE tgt
  /\ fifo' = IF fifo = "open" THEN "closed" ELSE fifo
  /\ sock' = FALSE
  /\ pdeath' = FALSE

CReturnsErr == CEnds("err") /\ UNCHANGED cpc

CGoto(pc) == cpc' = pc /\ UNCHANGED <<cst, tgt, fifo, sock, pdeath>>

\* Mutant: the child holds the write end of its own pipe.
CWaitFor_NoEOF(pc, m, next) ==
  /\ CAt(pc)
  /\ toChild # <<>>
  /\ toChild' = Tail(toChild)
  /\ IF Head(toChild) = m THEN CGoto(next) ELSE CReturnsErr
  /\ UNCHANGED <<opt, parentVars, g, caps, reexecs, netns, childNet, d, quitCh, toParent>>

\* messages.WaitFor on pipeR: end of file once the parent closed pipeW.
CWaitFor(pc, m, next) ==
  /\ CAt(pc)
  /\ \/ /\ toChild # <<>>
        /\ toChild' = Tail(toChild)
        /\ IF Head(toChild) = m THEN CGoto(next) ELSE CReturnsErr
     \/ /\ toChild = <<>> /\ ParentGone
        /\ CReturnsErr
        /\ UNCHANGED toChild
  /\ UNCHANGED <<opt, parentVars, g, caps, reexecs, netns, childNet, d, quitCh, toParent>>

\* messages.Send on pipe2W: EPIPE once the parent is gone.
CSend(pc, m, next) ==
  /\ CAt(pc)
  /\ IF ParentGone
       THEN CReturnsErr /\ UNCHANGED toParent
       ELSE CGoto(next) /\ toParent' = Append(toParent, m)
  /\ UNCHANGED <<opt, parentVars, g, caps, reexecs, netns, childNet, d, quitCh, toChild>>

-----------------------------------------------------------------------------
(* The parent: one action per call of Parent() *)

\* cmd.Start: the child is cloned with Pdeathsig set, in a new network
\* namespace unless that namespace is to be detached.
Start ==
  /\ PAt("start")
  /\ PGoto("sendHello")
  /\ cst' = "running" /\ pdeath' = TRUE
  /\ netns' = (opt.net /\ ~opt.detach)
  /\ UNCHANGED <<opt, published, idmap, netHelper, childPid, api, g, cpc, caps,
                 reexecs, childNet, tgt, driverVars, pipeVars>>

SendParentHello == PSend("sendHello", "ParentHello", "waitHello")

WaitForChildHello == PWaitFor("waitHello", "ChildHello", "idmap")

\* newuidmap and newgidmap work on the pid of a child that is still there.
SetupUIDGIDMap ==
  /\ PAt("idmap")
  /\ cst = "running"
  /\ idmap' = TRUE
  /\ PGoto("sendIdmap")
  /\ UNCHANGED <<opt, published, netHelper, childPid, api, g, childVars, driverVars, pipeVars>>

SendIdmapCompleted == PSend("sendIdmap", "ParentInitIdmapCompleted", "waitUserNS")

\* Mutant: the parent does not wait for the namespaces of the child.
WaitForUserNS_NoWait ==
  /\ PAt("waitUserNS")
  /\ PGoto("cgroup")
  /\ UNCHANGED <<opt, published, idmap, netHelper, childPid, api, g, childVars, driverVars, pipeVars>>

WaitForUserNS == PWaitFor("waitUserNS", "ChildInitUserNSCompleted", "cgroup")

\* ForwardAllSignals, then EvacuateCgroup2.
EvacuateCgroup2 ==
  /\ PAt("cgroup")
  /\ PGoto("net")
  /\ UNCHANGED <<opt, published, idmap, netHelper, childPid, api, g, childVars, driverVars, pipeVars>>

ConfigureNetwork ==
  /\ PAt("net")
  /\ netHelper' = opt.net
  /\ PGoto("sendNet")
  /\ UNCHANGED <<opt, published, idmap, childPid, api, g, childVars, driverVars, pipeVars>>

\* Mutant: the wrong one of the last two messages.
SendNetworkCompleted_Swapped == PSend("sendNet", "ParentInitPortDriverCompleted", "startPort")

SendNetworkCompleted == PSend("sendNet", "ParentInitNetworkDriverCompleted", "startPort")

\* The goroutine of the port driver.  slirp4netns signals initComplete at
\* once; so does gvisor-tap-vsock, unless the network driver gave it no IP
\* address or no mux.
StartParentDriver ==
  /\ PAt("startPort")
  /\ g' \in CASE opt.port = "none"             -> {"off"}
              [] opt.port = "builtin"          -> {"fifo"}
              [] opt.port = "slirp4netns"      -> {"initComplete"}
              [] opt.port = "gvisor-tap-vsock" -> {"initComplete", "retErr"}
  /\ PGoto("sendPort")
  /\ UNCHANGED <<opt, published, idmap, netHelper, childPid, api, childVars, driverVars, pipeVars>>

SendPortCompleted == PSend("sendPort", "ParentInitPortDriverCompleted", "closePipe")

\* Mutant: the parent does not wait for initComplete.
ClosePipe_NoSelect ==
  /\ PAt("closePipe")
  /\ PGoto(IF opt.port = "none" THEN "childPid" ELSE "publish")
  /\ UNCHANGED <<opt, published, idmap, netHelper, childPid, api, g, childVars, driverVars, pipeVars>>

ClosePipe ==
  /\ PAt("closePipe")
  /\ PGoto(IF opt.port = "none" THEN "childPid" ELSE "select")
  /\ UNCHANGED <<opt, published, idmap, netHelper, childPid, api, g, childVars, driverVars, pipeVars>>

\* select { case <-portDriverInitComplete: case err = <-portDriverErr: }
SelectDriver ==
  /\ PAt("select")
  /\ \/ g = "initComplete" /\ g' = "serve" /\ PGoto("publish")
     \/ g = "retErr" /\ g' = "done" /\ PReturns("err")
  /\ UNCHANGED <<opt, published, idmap, netHelper, childPid, api, childVars, driverVars, pipeVars>>

PublishPort ==
  /\ PAt("publish")
  /\ IF published < NPublish
       THEN published' = published + 1 /\ PGoto("publish")
       ELSE published' = published /\ PGoto("childPid")
  /\ UNCHANGED <<opt, idmap, netHelper, childPid, api, g, childVars, driverVars, pipeVars>>

WriteChildPid ==
  /\ PAt("childPid")
  /\ childPid' = TRUE
  /\ PGoto("api")
  /\ UNCHANGED <<opt, published, idmap, netHelper, api, g, childVars, driverVars, pipeVars>>

ListenServeAPI ==
  /\ PAt("api")
  /\ api' = TRUE
  /\ PGoto("wait")
  /\ UNCHANGED <<opt, published, idmap, netHelper, childPid, g, childVars, driverVars, pipeVars>>

\* Mutant: a child that was killed is not noticed.
WaitForChild_NotKilled ==
  /\ PAt("wait")
  /\ cst \in {"ok", "err"}
  /\ IF cst = "ok" THEN PGoto("closeApi") ELSE PReturns("err")
  /\ UNCHANGED <<opt, published, idmap, netHelper, childPid, api, g, childVars, driverVars, pipeVars>>

\* cmd.Wait: a child that failed or was killed is an error, and Parent()
\* returns without shutting down the port driver.
WaitForChild ==
  /\ PAt("wait")
  /\ ChildGone
  /\ IF cst = "ok" THEN PGoto("closeApi") ELSE PReturns("err")
  /\ UNCHANGED <<opt, published, idmap, netHelper, childPid, api, g, childVars, driverVars, pipeVars>>

CloseAPI ==
  /\ PAt("closeApi")
  /\ api' = FALSE
  /\ IF opt.port = "none" THEN PReturns("nil") ELSE PGoto("quit")
  /\ UNCHANGED <<opt, published, idmap, netHelper, childPid, g, childVars, driverVars, pipeVars>>

\* portDriverQuit <- struct{}{}
QuitParentDriver ==
  /\ PAt("quit")
  /\ g = "serve" /\ g' = "retNil"
  /\ PGoto("portErr")
  /\ UNCHANGED <<opt, published, idmap, netHelper, childPid, api, childVars, driverVars, pipeVars>>

\* return <-portDriverErr
ReceiveDriverErr ==
  /\ PAt("portErr")
  /\ g \in {"retNil", "retErr"} /\ g' = "done"
  /\ PReturns(IF g = "retNil" THEN "nil" ELSE "err")
  /\ UNCHANGED <<opt, published, idmap, netHelper, childPid, api, childVars, driverVars, pipeVars>>

\* A call of Parent() fails: it returns the error.  A network driver that
\* fails half way hands back the cleanup of what it started.
ParentFails ==
  /\ pst = "running"
  /\ \/ /\ ppc \in Faults
        /\ ppc = "net" => opt.net
        /\ ppc = "publish" => published < NPublish
     \/ ppc = "idmap" /\ cst # "running"
  /\ PReturns("err")
  /\ netHelper' \in IF ppc = "net" THEN BOOLEAN ELSE {netHelper}
  /\ UNCHANGED <<opt, published, idmap, childPid, api, g, childVars, driverVars, pipeVars>>

\* The parent process is gone: the kernel sends the child its Pdeathsig.
KillsChild ==
  IF pdeath /\ cst = "running"
    THEN CEnds("killed") /\ UNCHANGED cpc
    ELSE UNCHANGED <<cst, cpc, tgt, fifo, sock, pdeath>>

\* The deferred calls (cleanupNetwork, StopCatch, Unlock, RemoveAll of the
\* state dir) and the exit of the process.
ParentReturn ==
  /\ pst = "returning"
  /\ pst' = "exited"
  /\ netHelper' = FALSE /\ childPid' = FALSE /\ api' = FALSE
  /\ KillsChild
  /\ UNCHANGED <<opt, ppc, presult, published, idmap, g, caps, reexecs, netns,
                 childNet, d, quitCh, pipeVars>>

\* SIGKILL, or a signal that sigproxy does not catch yet: no deferred call
\* runs, and the child_pid file stays.
ParentKilled ==
  /\ "parentKill" \in Faults
  /\ pst \in {"running", "returning"}
  /\ pst' = "killed"
  /\ netHelper' = FALSE /\ api' = FALSE
  /\ KillsChild
  /\ UNCHANGED <<opt, ppc, presult, published, idmap, childPid, g, caps, reexecs,
                 netns, childNet, d, quitCh, pipeVars>>

(* The goroutine of the parent that runs RunParentDriver (builtin driver) *)

GAt(pc) == ~ParentGone /\ g = pc

\* The child closed its end of the FIFO: io.ReadAll returns.
ReadReadyPipe ==
  /\ GAt("readFifo")
  /\ fifo = "closed"
  /\ g' = "dial"
  /\ UNCHANGED <<opt, parentVars, childVars, driverVars, pipeVars>>

DialChild ==
  /\ GAt("dial")
  /\ g' = IF sock THEN "initiate" ELSE "retErr"
  /\ UNCHANGED <<opt, parentVars, childVars, driverVars, pipeVars>>

\* msg.Initiate: the accept loop of the child answers, or the connection
\* ends with the child.
Initiate ==
  /\ GAt("initiate")
  /\ \/ cst = "running" /\ d = "serve" /\ g' = "initComplete"
     \/ ~sock /\ g' = "retErr"
  /\ UNCHANGED <<opt, parentVars, childVars, driverVars, pipeVars>>

\* Opening the FIFO fails (it was removed from the state dir).
ParentFifoFails ==
  /\ GAt("fifo")
  /\ "fifo" \in Faults
  /\ g' = "retErr"
  /\ UNCHANGED <<opt, parentVars, childVars, driverVars, pipeVars>>

-----------------------------------------------------------------------------
(* The child: one action per call of Child() *)

\* A child that has the capabilities was re-executed: it skips the first
\* half of the handshake.
HasCaps ==
  /\ CAt("hasCaps")
  /\ CGoto(IF caps THEN "userns" ELSE "waitHello")
  /\ UNCHANGED <<opt, parentVars, g, caps, reexecs, netns, childNet, d, quitCh, pipeVars>>

WaitForParentHello == CWaitFor("waitHello", "ParentHello", "sendHello")

SendChildHello == CSend("sendHello", "ChildHello", "waitIdmap")

WaitForIdmap == CWaitFor("waitIdmap", "ParentInitIdmapCompleted", "gainCaps")

\* Re-execution gives the capabilities once the ID maps are written; the
\* kernel clears Pdeathsig when it does.
GainCaps ==
  /\ CAt("gainCaps")
  /\ reexecs' = reexecs + 1
  /\ caps' = idmap
  /\ cpc' = "hasCaps"
  /\ pdeath' = (pdeath /\ ~idmap)
  /\ UNCHANGED <<opt, parentVars, g, cst, netns, childNet, tgt, driverVars, pipeVars>>

\* mountProcfs, and the bind-mounted netns of --detach-netns.
SetupUserNS ==
  /\ CAt("userns")
  /\ netns' = (netns \/ opt.detach)
  /\ CGoto("sendUserNS")
  /\ UNCHANGED <<opt, parentVars, g, caps, reexecs, childNet, d, quitCh, pipeVars>>

SendUserNSCompleted == CSend("sendUserNS", "ChildInitUserNSCompleted", "waitNet")

WaitForNetwork == CWaitFor("waitNet", "ParentInitNetworkDriverCompleted", "waitPort")

WaitForPort == CWaitFor("waitPort", "ParentInitPortDriverCompleted", "mounts")

\* setMountPropagation, setupCopyDir, mountSysfs.
SetupMounts ==
  /\ CAt("mounts")
  /\ CGoto("setupNet")
  /\ UNCHANGED <<opt, parentVars, g, caps, reexecs, netns, childNet, d, quitCh, pipeVars>>

SetupNet ==
  /\ CAt("setupNet")
  /\ childNet' = TRUE
  /\ CGoto("startPort")
  /\ UNCHANGED <<opt, parentVars, g, caps, reexecs, netns, d, quitCh, pipeVars>>

\* The goroutine of the port driver: only the builtin driver does more than
\* wait for quit.
StartChildDriver ==
  /\ CAt("startPort")
  /\ d' = CASE opt.port = "none"    -> "off"
            [] opt.port = "builtin" -> "fifo"
            [] OTHER                -> "serve"
  /\ quitCh' = (opt.port \notin {"none", "builtin"})
  /\ CGoto("run")
  /\ UNCHANGED <<opt, parentVars, g, caps, reexecs, netns, childNet, pipeVars>>

\* Mutant: no PR_SET_PDEATHSIG.
RunTarget_NoPdeathsig ==
  /\ CAt("run")
  /\ tgt' = "running"
  /\ cpc' = "waitTgt"
  /\ UNCHANGED <<opt, parentVars, g, cst, caps, reexecs, netns, childNet, pdeath, driverVars, pipeVars>>

\* PR_SET_PDEATHSIG, which no longer has a parent to watch when the parent is
\* gone, and the start of the target.
RunTarget ==
  /\ CAt("run")
  /\ pdeath' = ~ParentGone
  /\ tgt' = "running"
  /\ cpc' = "waitTgt"
  /\ UNCHANGED <<opt, parentVars, g, cst, caps, reexecs, netns, childNet, driverVars, pipeVars>>

TargetExits ==
  /\ tgt = "running"
  /\ tgt' \in {"ok", "fail"}
  /\ UNCHANGED <<opt, parentVars, g, cst, cpc, caps, reexecs, netns, childNet,
                 pdeath, driverVars, pipeVars>>

\* Mutant: the error of the target is dropped.
WaitTarget_DropsError ==
  /\ CAt("waitTgt")
  /\ tgt \in {"ok", "fail"}
  /\ IF opt.port = "none" THEN CEnds("ok") /\ UNCHANGED cpc ELSE CGoto("quit")
  /\ UNCHANGED <<opt, parentVars, g, caps, reexecs, netns, childNet, d, quitCh, pipeVars>>

\* runAndReap or runWithoutReap returned.
WaitTarget ==
  /\ CAt("waitTgt")
  /\ \/ tgt = "fail" /\ CReturnsErr
     \/ tgt = "ok" /\ opt.port = "none" /\ CEnds("ok") /\ UNCHANGED cpc
     \/ tgt = "ok" /\ opt.port # "none" /\ CGoto("quit")
  /\ UNCHANGED <<opt, parentVars, g, caps, reexecs, netns, childNet, d, quitCh, pipeVars>>

\* portQuitCh <- struct{}{}: blocks unless a goroutine of the driver
\* receives.  The builtin one then closes the listener.
QuitChildDriver ==
  /\ CAt("quit")
  /\ quitCh /\ quitCh' = FALSE
  /\ d' = IF d = "serve" THEN "retNil" ELSE d
  /\ cpc' = "portErr" /\ sock' = FALSE
  /\ UNCHANGED <<opt, parentVars, g, cst, caps, reexecs, netns, childNet, pdeath,
                 tgt, fifo, pipeVars>>

\* return <-portErrCh
ChildReturn ==
  /\ CAt("portErr")
  /\ d \in {"retNil", "retErr"} /\ d' = "done"
  /\ CEnds(IF d = "retNil" THEN "ok" ELSE "err")
  /\ UNCHANGED <<opt, parentVars, g, cpc, caps, reexecs, netns, childNet, quitCh, pipeVars>>

\* A call of Child() fails: it returns the error and the process exits.
ChildFails ==
  /\ cst = "running"
  /\ cpc \in Faults
  /\ cpc = "setupNet" => opt.net
  /\ CReturnsErr
  /\ UNCHANGED <<opt, parentVars, g, caps, reexecs, netns, childNet, d, quitCh, pipeVars>>

ChildKilled ==
  /\ "childKill" \in Faults
  /\ cst = "running"
  /\ CEnds("killed")
  /\ UNCHANGED <<opt, parentVars, g, cpc, caps, reexecs, netns, childNet, d, quitCh, pipeVars>>

(* The goroutine of the child that runs RunChildDriver (builtin driver) *)

DAt(pc) == cst = "running" /\ d = pc

\* Opening a FIFO blocks until both ends are open.
OpenReadyPipe ==
  /\ GAt("fifo") /\ DAt("fifo")
  /\ g' = "readFifo" /\ d' = "listen" /\ fifo' = "open"
  /\ UNCHANGED <<opt, parentVars, childVars, quitCh, sock, pipeVars>>

\* The state dir is gone, and the FIFO with it.
ChildFifoFails ==
  /\ DAt("fifo")
  /\ pst = "exited"
  /\ d' = "retErr"
  /\ UNCHANGED <<opt, parentVars, g, childVars, quitCh, fifo, sock, pipeVars>>

ListenUnix ==
  /\ DAt("listen")
  /\ \/ d' = "closeFifo" /\ sock' = TRUE
     \/ "listen" \in Faults /\ d' = "retErr" /\ UNCHANGED sock
  /\ UNCHANGED <<opt, parentVars, g, childVars, quitCh, fifo, pipeVars>>

\* Mutant: no goroutine receives quit.
CloseReadyPipe_NoQuit ==
  /\ DAt("closeFifo")
  /\ fifo' = "closed" /\ d' = "serve"
  /\ UNCHANGED <<opt, parentVars, g, childVars, quitCh, sock, pipeVars>>

\* Closing the FIFO tells the parent the child is ready; the goroutine that
\* receives quit starts, and the accept loop.
CloseReadyPipe ==
  /\ DAt("closeFifo")
  /\ fifo' = "closed" /\ d' = "serve" /\ quitCh' = TRUE
  /\ UNCHANGED <<opt, parentVars, g, childVars, sock, pipeVars>>

\* AcceptUnix fails although nobody asked to stop.
AcceptFails ==
  /\ DAt("serve") /\ opt.port = "builtin"
  /\ "accept" \in Faults
  /\ d' = "retErr"
  /\ UNCHANGED <<opt, parentVars, g, childVars, quitCh, fifo, sock, pipeVars>>

\* RunChildDriver failed before it closed the FIFO; the garbage collector
\* may close it later.
FinalizeReadyPipe ==
  /\ cst = "running" /\ fifo = "open" /\ d \in {"retErr", "done"}
  /\ fifo' = "closed"
  /\ UNCHANGED <<opt, parentVars, g, childVars, d, quitCh, sock, pipeVars>>

-----------------------------------------------------------------------------
ParentStep ==
  \/ Start \/ SendParentHello \/ WaitForChildHello \/ SetupUIDGIDMap
  \/ SendIdmapCompleted \/ WaitForUserNS \/ EvacuateCgroup2 \/ ConfigureNetwork
  \/ SendNetworkCompleted \/ StartParentDriver \/ SendPortCompleted \/ ClosePipe
  \/ SelectDriver \/ PublishPort \/ WriteChildPid \/ ListenServeAPI
  \/ WaitForChild \/ CloseAPI \/ QuitParentDriver \/ ReceiveDriverErr
  \/ ParentFails \/ ParentReturn

ParentDriverStep ==
  ReadReadyPipe \/ DialChild \/ Initiate

ChildStep ==
  \/ HasCaps \/ WaitForParentHello \/ SendChildHello \/ WaitForIdmap \/ GainCaps
  \/ SetupUserNS \/ SendUserNSCompleted \/ WaitForNetwork \/ WaitForPort
  \/ SetupMounts \/ SetupNet \/ StartChildDriver \/ RunTarget \/ WaitTarget
  \/ QuitChildDriver \/ ChildReturn \/ ChildFails

ChildDriverStep ==
  OpenReadyPipe \/ ListenUnix \/ CloseReadyPipe

\* What may happen to a driver but is not bound to.
DriverFault ==
  ParentFifoFails \/ ChildFifoFails \/ AcceptFails \/ FinalizeReadyPipe

\* Both processes have ended.
Terminated == ParentGone /\ (ChildGone \/ cst = "absent") /\ UNCHANGED vars

Next ==
  \/ ParentStep \/ ParentDriverStep \/ ChildStep \/ ChildDriverStep
  \/ DriverFault \/ TargetExits \/ ParentKilled \/ ChildKilled \/ Terminated

Spec == Init /\ [][Next]_vars

(* The kernel and the Go scheduler run every process and goroutine that    *)
(* can run.  Nothing makes the target exit, a signal arrive or the garbage *)
(* collector run.                                                          *)
FairSpec ==
  /\ Spec
  /\ WF_vars(ParentStep) /\ WF_vars(ParentDriverStep)
  /\ WF_vars(ChildStep) /\ WF_vars(ChildDriverStep)
-----------------------------------------------------------------------------
(* Properties *)

TypeOK ==
  /\ opt \in Options
  /\ pst \in {"running", "returning", "exited", "killed"}
  /\ ppc \in ParentPCs
  /\ presult \in {"none", "nil", "err"}
  /\ published \in 0..NPublish
  /\ idmap \in BOOLEAN /\ netHelper \in BOOLEAN
  /\ childPid \in BOOLEAN /\ api \in BOOLEAN
  /\ g \in GPCs
  /\ cst \in {"absent", "running", "ok", "err", "killed"}
  /\ cpc \in ChildPCs
  /\ caps \in BOOLEAN /\ netns \in BOOLEAN
  /\ childNet \in BOOLEAN /\ pdeath \in BOOLEAN
  /\ reexecs \in Nat
  /\ tgt \in {"none", "running", "ok", "fail", "killed"}
  /\ d \in DPCs
  /\ quitCh \in BOOLEAN /\ sock \in BOOLEAN
  /\ fifo \in {"unopened", "open", "closed"}
  /\ toChild \in Seq(ParentMsgs)
  /\ toParent \in Seq(ChildMsgs)

(* The message each WaitFor expects. *)
ChildExpects == [waitHello |-> "ParentHello",
                 waitIdmap |-> "ParentInitIdmapCompleted",
                 waitNet   |-> "ParentInitNetworkDriverCompleted",
                 waitPort  |-> "ParentInitPortDriverCompleted"]
ParentExpects == [waitHello  |-> "ChildHello",
                  waitUserNS |-> "ChildInitUserNSCompleted"]

(* The handshake never goes wrong: whoever fails or is killed, and         *)
(* although the child runs its side of it in two executions of the binary, *)
(* WaitFor never meets another message than the one it waits for           *)
(* (messages.go:99).                                                       *)
HandshakeInOrder ==
  /\ \A pc \in DOMAIN ChildExpects :
       cpc = pc /\ toChild # <<>> => Head(toChild) = ChildExpects[pc]
  /\ \A pc \in DOMAIN ParentExpects :
       ppc = pc /\ toParent # <<>> => Head(toParent) = ParentExpects[pc]

(* The child re-executes itself at most once (gainCaps, child.go:319): the *)
(* parent confirms the ID maps only after it wrote them, so the first      *)
(* re-execution gains the capabilities.  A second one would wait for a     *)
(* ParentHello that never comes.                                           *)
ReexecOnce == reexecs <= 1 /\ (reexecs = 1 => caps)

(* The network driver of the parent only works on a child whose ID maps    *)
(* are written, that has its capabilities and whose network namespace,     *)
(* detached or not, exists (parent.go:262).                                *)
NetworkNeedsNamespace == netHelper => idmap /\ caps /\ netns

(* The target starts only after both halves of the network are configured, *)
(* and with the capabilities of the user namespace (child.go:461-526).     *)
TargetSeesNetwork ==
  tgt # "none" => /\ caps /\ childNet
                  /\ pst = "running" /\ opt.net => netHelper

(* A caller that finds child_pid or the API socket finds a RootlessKit     *)
(* that is ready: the port driver serves, all --publish ports are added    *)
(* and, with the builtin driver, the network of the child is configured    *)
(* (parent.go:312-345).                                                    *)
ReadyMeansReady ==
  pst = "running" /\ (childPid \/ api) =>
    /\ opt.port # "none" => g \notin {"off", "fifo", "readFifo", "dial", "initiate", "initComplete"}
    /\ opt.port # "none" => published = NPublish
    /\ opt.port = "builtin" => childNet

(* Parent() reports success only when the target succeeded, and the child  *)
(* reported it (parent.go:348-360, child.go:484-531).                      *)
ExitStatusHonest ==
  /\ presult = "nil" => cst = "ok"
  /\ cst = "ok" => tgt = "ok"

(* The death of the parent takes a running target with it, although the    *)
(* kernel cleared the Pdeathsig that the parent had set (child.go:443,     *)
(* 491, 512).                                                              *)
TargetDiesWithParent ==
  [][tgt = "running" /\ ~ParentGone /\ ParentGone' => tgt' # "running"]_vars

(* Once RootlessKit has announced itself with child_pid, the end of the    *)
(* target ends the parent: no channel of the shutdown blocks, whatever     *)
(* failed before (child.go:527-530, parent.go:348-360).                    *)
ShutdownPropagates == (tgt \in {"ok", "fail"} /\ childPid) ~> ParentGone

(* The places where the parent waits for a child without seeing it die: in *)
(* WaitFor, because it holds the write end of the pipe itself, and in the  *)
(* builtin driver, which opens a FIFO no one else will open.               *)
ParentDeaf ==
  \/ ppc \in {"waitHello", "waitUserNS"} /\ toParent = <<>>
  \/ ppc = "select" /\ g = "fifo"

(* A parent whose child ends, ends too, unless it is in one of the places  *)
(* above (parent.go:227, 242, builtin/parent/parent.go:82).                *)
ChildDeathNoticed == ChildGone ~> (ParentGone \/ ParentDeaf)

(* A child whose parent is gone does not stay in the handshake: it reads   *)
(* end of file or is killed (child.go:384-440).                            *)
ParentDeathNoticed ==
  ParentGone ~> (ChildGone \/ cst = "absent" \/ cpc \notin DOMAIN ChildExpects)
=============================================================================
