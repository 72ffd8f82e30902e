----------------------------- MODULE DockerProxy -----------------------------
(***************************************************************************)
(* rootlesskit-docker-proxy (cmd/rootlesskit-docker-proxy/main.go) and the *)
(* API between it and the parent, on top of the slirp4netns port driver:   *)
(* dockerd starts one wrapper per published port; the wrapper asks the     *)
(* parent for the port over api.sock, starts the real docker-proxy, waits  *)
(* for SIGINT and gives the port back.  dockerd reads the verdict "0" or   *)
(* "1" on descriptor 3, which wrapper and docker-proxy share.  rootlessctl *)
(* uses the same API.                                                      *)
(***************************************************************************)
EXTENDS SlirpPorts, Sequences

CONSTANTS
  Proxies,   \* wrapper processes
  Requests,  \* what dockerd asks for: -proto as name and suffix, and whether -host-ip is IPv6
  SpecOf,    \* SpecOf[x]: the port.Spec with the protocol x
  NoOwner    \* no wrapper: a port of rootlessctl, or no port

\* Protocols of info.PortDriver.Protos that end in 4 or 6.
Protos == {"tcp", "udp"} \X {"4"}

ASSUME ProxyAssumption ==
  /\ Requests \subseteq [name : {"tcp", "udp", "sctp"}, suffix : {"", "4", "6"}, v6 : BOOLEAN]
  /\ SpecOf \in [Protos -> Specs]
  /\ NoOwner \notin Proxies

VARIABLES
  asked,     \* the request in the arguments of each wrapper
  driver,    \* what Info says: "slirp4netns", or "none" (no port driver)
  pc,        \* where each wrapper is
  id,        \* st.ID that AddPort returned to it; 0: none
  real,      \* its docker-proxy: "none", "silent", "serving", "dead"
  verdicts,  \* what was written to descriptor 3
  owner,     \* history: who asked for the port with that ID
  apiFailed, \* history: wrappers with an API call that failed after or without effect
  ctlRemoved, \* history: IDs that rootlessctl had removed
  killErr    \* wrappers whose cmd.Process.Kill has failed

slirpVars == <<ports, fwd, nextFwd, lost>>
history   == <<owner, apiFailed, ctlRemoved, killErr>>
config    == <<asked, driver>>
proxyVars == <<config, pc, id, real, verdicts, history>>
allVars   == <<slirpVars, proxyVars>>

Over == {"done", "failed", "killed", "replaced"}

ProxyInit ==
  /\ Init
  /\ asked \in [Proxies -> Requests] /\ driver \in {"slirp4netns", "none"}
  /\ pc = [p \in Proxies |-> "idle"] /\ id = [p \in Proxies |-> 0]
  /\ real = [p \in Proxies |-> "none"] /\ verdicts = [p \in Proxies |-> <<>>]
  /\ owner = [i \in Ids |-> NoOwner] /\ apiFailed = {} /\ ctlRemoved = {} /\ killErr = {}

\* apiProto: a protocol without a suffix gets that of the host address.
ApiSuffix(a) == IF a.suffix # "" THEN a.suffix ELSE IF a.v6 THEN "6" ELSE "4"
ApiProto(p) == <<asked[p].name, ApiSuffix(asked[p])>>
Supported(p) == ApiProto(p) \in Protos
Want(p) == SpecOf[ApiProto(p)]

Goto(p, l) == pc' = [pc EXCEPT ![p] = l]
Write(p, v) == verdicts' = [verdicts EXCEPT ![p] = Append(@, v)]

-----------------------------------------------------------------------------
(* xmain, step by step. *)

Launch(p) ==
  /\ pc[p] = "idle" /\ Goto(p, "info")
  /\ UNCHANGED <<slirpVars, config, id, real, verdicts, history>>

\* client.New, Info and the child IP, which may be missing; without a port
\* driver the wrapper becomes docker-proxy.
Info(p) ==
  /\ pc[p] = "info"
  /\ \/ Goto(p, "error") /\ UNCHANGED real
     \/ /\ driver = "none" /\ Goto(p, "replaced")
        /\ real' = [real EXCEPT ![p] = "silent"]
     \/ /\ driver = "slirp4netns" /\ Goto(p, "call") /\ UNCHANGED real
  /\ UNCHANGED <<slirpVars, config, id, verdicts, history>>

\* Mutant: the error is returned after the verdict was written.
Unsupported_ReturnsErr(p) ==
  /\ pc[p] = "call" /\ ~Supported(p)
  /\ Write(p, "0") /\ Goto(p, "error")
  /\ UNCHANGED <<slirpVars, config, id, real, history>>

\* The protocol is not among info.PortDriver.Protos: success without a proxy.
Unsupported(p) ==
  /\ pc[p] = "call" /\ ~Supported(p)
  /\ Write(p, "0") /\ Goto(p, "done")
  /\ UNCHANGED <<slirpVars, config, id, real, history>>

\* POST /v1/ports: the handler adds the port and its reply arrives.
PostPort(p) ==
  /\ pc[p] = "call" /\ Supported(p)
  /\ AddPort(Want(p))
  /\ id' = [id EXCEPT ![p] = nextFwd]
  /\ owner' = [owner EXCEPT ![nextFwd] = p]
  /\ Goto(p, "added")
  /\ UNCHANGED <<config, real, verdicts, apiFailed, ctlRemoved, killErr>>

\* The port is added on one side or both, and the wrapper gets an error.
PostPortReplyLost(p) ==
  /\ "lostReply" \in Faults
  /\ pc[p] = "call" /\ Supported(p)
  /\ AddPort(Want(p)) \/ AddPortReplyLost(Want(p))
  /\ owner' = [owner EXCEPT ![nextFwd] = p]
  /\ apiFailed' = apiFailed \cup {p}
  /\ Goto(p, "error")
  /\ UNCHANGED <<config, id, real, verdicts, ctlRemoved, killErr>>

\* The driver refuses the port, or the API cannot be reached.
PostPortRefused(p) ==
  /\ pc[p] = "call" /\ Supported(p)
  /\ Goto(p, "error")
  /\ UNCHANGED <<slirpVars, config, id, real, verdicts, history>>

\* Mutant: the port is not removed when docker-proxy cannot be started.
StartReal_NoDefer(p) ==
  /\ pc[p] = "added"
  /\ \/ Goto(p, "started") /\ real' = [real EXCEPT ![p] = "silent"]
     \/ Goto(p, "error") /\ UNCHANGED real
  /\ UNCHANGED <<slirpVars, config, id, verdicts, history>>

\* cmd.Start; a failure runs the deferred RemovePort before main reports it.
StartReal(p) ==
  /\ pc[p] = "added"
  /\ \/ Goto(p, "started") /\ real' = [real EXCEPT ![p] = "silent"]
     \/ Goto(p, "removeAndFail") /\ UNCHANGED real
  /\ UNCHANGED <<slirpVars, config, id, verdicts, history>>

\* signal.Notify(ch, os.Interrupt), after docker-proxy was started.
NotifyInterrupt(p) ==
  /\ pc[p] = "started" /\ Goto(p, "waiting")
  /\ UNCHANGED <<slirpVars, config, id, real, verdicts, history>>

\* Mutant: docker-proxy is left running.
Stop_NoKill(p) ==
  /\ pc[p] = "interrupted" /\ Goto(p, "remove")
  /\ UNCHANGED <<slirpVars, config, id, real, verdicts, history>>

\* cmd.Process.Kill; its failure, too, runs the deferred RemovePort before main
\* reports it, with docker-proxy still there.
Stop(p) ==
  /\ pc[p] = "interrupted"
  /\ \/ Goto(p, "remove") /\ real' = [real EXCEPT ![p] = "dead"] /\ UNCHANGED killErr
     \/ Goto(p, "removeAndFail") /\ killErr' = killErr \cup {p} /\ UNCHANGED real
  /\ UNCHANGED <<slirpVars, config, id, verdicts, owner, apiFailed, ctlRemoved>>

Removing(p) ==
  /\ pc[p] \in {"remove", "removeAndFail"}
  /\ Goto(p, IF pc[p] = "remove" THEN "done" ELSE "error")
  /\ UNCHANGED <<config, id, real, verdicts, owner, ctlRemoved, killErr>>

\* DELETE /v1/ports/{id}, deferred in xmain.
DeletePort(p) == Removing(p) /\ RemovePort(id[p]) /\ UNCHANGED apiFailed

\* slirp4netns does not know the ID any more, or the call fails before or after
\* slirp4netns did its part: a warning.
DeletePortFails(p) ==
  /\ Removing(p)
  /\ \/ fwd[id[p]] = NoSpec /\ UNCHANGED slirpVars
     \/ "lostReply" \in Faults /\ (UNCHANGED slirpVars \/ RemovePortReplyLost(id[p]))
  /\ apiFailed' = apiFailed \cup {p}

\* main writes the error to descriptor 3 and exits.
Fail(p) ==
  /\ pc[p] = "error" /\ Write(p, "1") /\ Goto(p, "failed")
  /\ UNCHANGED <<slirpVars, config, id, real, history>>

\* Pdeathsig: a docker-proxy that could not be killed ends with its wrapper.
RealFollows(p) ==
  /\ pc[p] = "failed" /\ real[p] \in {"silent", "serving"}
  /\ real' = [real EXCEPT ![p] = "dead"]
  /\ UNCHANGED <<slirpVars, config, pc, id, verdicts, history>>

-----------------------------------------------------------------------------
(* docker-proxy, dockerd and rootlessctl. *)

\* docker-proxy has bound its address, or has not and gives up.
RealSpeaks(p) ==
  /\ real[p] = "silent"
  /\ \/ Write(p, "0") /\ real' = [real EXCEPT ![p] = "serving"]
     \/ Write(p, "1") /\ real' = [real EXCEPT ![p] = "dead"]
  /\ UNCHANGED <<slirpVars, config, pc, id, history>>

\* The wrapper does not wait for docker-proxy and does not notice that it is gone.
RealDies(p) ==
  /\ real[p] \in {"silent", "serving"}
  /\ real' = [real EXCEPT ![p] = "dead"]
  /\ UNCHANGED <<slirpVars, config, pc, id, verdicts, history>>

\* dockerd sends SIGINT; before Notify it has its default action, and Pdeathsig its
\* effect; after the first one nobody reads ch.
Interrupt(p) ==
  /\ pc[p] \notin Over \cup {"idle", "interrupted", "remove"} /\ p \notin killErr
  /\ IF pc[p] = "waiting" THEN Goto(p, "interrupted") /\ UNCHANGED real
     ELSE Goto(p, "killed") /\ real' = [real EXCEPT ![p] = IF @ = "none" THEN @ ELSE "dead"]
  /\ UNCHANGED <<slirpVars, config, id, verdicts, history>>

\* SIGKILL or SIGTERM at any time.
Kill(p) ==
  /\ pc[p] \notin Over \cup {"idle"}
  /\ Goto(p, "killed") /\ real' = [real EXCEPT ![p] = IF @ = "none" THEN @ ELSE "dead"]
  /\ UNCHANGED <<slirpVars, config, id, verdicts, history>>

\* rootlessctl adds ports, and removes whatever ID it is given, a wrapper's too.
CtlAdd(s) ==
  /\ driver = "slirp4netns" /\ (AddPort(s) \/ AddPortReplyLost(s))
  /\ UNCHANGED proxyVars
CtlRemove(i) ==
  /\ RemovePort(i) \/ RemovePortReplyLost(i)
  /\ ctlRemoved' = ctlRemoved \cup {i}
  /\ UNCHANGED <<config, pc, id, real, verdicts, owner, apiFailed, killErr>>

-----------------------------------------------------------------------------
\* Steps of the wrapper and of its docker-proxy that nothing outside holds up.
Step(p) ==
  \/ Info(p) \/ Unsupported(p) \/ PostPort(p) \/ PostPortReplyLost(p) \/ PostPortRefused(p)
  \/ StartReal(p) \/ NotifyInterrupt(p) \/ Stop(p) \/ DeletePort(p) \/ DeletePortFails(p)
  \/ Fail(p) \/ RealFollows(p) \/ RealSpeaks(p)

ProxyNext ==
  \/ \E p \in Proxies : Launch(p) \/ Step(p) \/ RealDies(p) \/ Interrupt(p) \/ Kill(p)
  \/ \E s \in Specs : CtlAdd(s)
  \/ \E i \in Ids : CtlRemove(i)

\* A process that can run does; dockerd need not start, stop or kill anything.
ProxySpec == ProxyInit /\ [][ProxyNext]_allVars /\ \A p \in Proxies : WF_allVars(Step(p))

-----------------------------------------------------------------------------
(* Properties *)

(* A wrapper that ended by itself left no port behind, on whichever path   *)
(* it ended, unless a call of the API failed on it: only then, or when it  *)
(* is killed, does the parent keep a port nobody will ever remove          *)
(* (main.go:132-138, 190-196).                                             *)
NoLeak ==
  \A i \in Ids : (ports[i] # NoSpec /\ owner[i] # NoOwner) =>
    \/ pc[owner[i]] \notin {"done", "failed"}
    \/ owner[i] \in apiFailed

(* The port that docker-proxy serves on behalf of a wrapper is listed and  *)
(* forwarded as the wrapper asked for it: no other wrapper and no reply    *)
(* that got lost takes it away, only a rootlessctl that was given its ID.  *)
(* Even then the ID never names another port, so that the RemovePort the   *)
(* wrapper has deferred cannot hit a port of somebody else.  Only where    *)
(* cmd.Process.Kill failed does docker-proxy outlive the port, until its   *)
(* wrapper has reported that (main.go:188-229, slirp4netns.go:134-152).    *)
ServedIsForwarded ==
  \A p \in Proxies :
    (real[p] \in {"silent", "serving"} /\ driver = "slirp4netns"
       /\ ~(p \in killErr /\ pc[p] \in {"error", "failed"})) =>
      /\ id[p] \in Ids /\ {ports[id[p]], fwd[id[p]]} \subseteq {Want(p), NoSpec}
      /\ id[p] \in ctlRemoved \/ (ports[id[p]] = Want(p) /\ fwd[id[p]] = Want(p))

(* Wrapper and docker-proxy do not both write to descriptor 3, with one    *)
(* exception: when cmd.Process.Kill fails, the wrapper adds its "1" to     *)
(* what docker-proxy wrote, or will write, and there are never more than   *)
(* these two.                                                              *)
FewVerdicts(p) == Len(verdicts[p]) <= 1 \/ (p \in killErr /\ Len(verdicts[p]) = 2)

(* dockerd reads one verdict: never two, unless it has interrupted the     *)
(* wrapper and the wrapper could not kill docker-proxy; and at least one,  *)
(* unless it interrupts the wrapper before or one of the two processes is  *)
(* dead before it could speak (main.go:39-48, 188-229).                    *)
OneVerdict ==
  \A p \in Proxies :
    /\ []FewVerdicts(p)
    /\ (pc[p] = "info") ~>
         (verdicts[p] # <<>> \/ real[p] = "dead" \/ pc[p] \in {"killed", "interrupted"})
=============================================================================
