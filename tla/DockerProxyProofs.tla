-------------------------- MODULE DockerProxyProofs --------------------------
(***************************************************************************)
(* Proofs about SlirpPorts and about DockerProxy, which composes it with   *)
(* its users, for any port specifications and any number of wrappers and   *)
(* forwards.  First the driver alone: the registry and slirp4netns agree   *)
(* but for lost replies, and the driver implements PortManager.  Then the  *)
(* composition: it uses the driver only through its operations, no wrapper *)
(* that ends by itself leaves a port behind, what docker-proxy serves is   *)
(* forwarded unless rootlessctl removed it, and descriptor 3 carries at    *)
(* most one verdict unless docker-proxy could not be killed.               *)
(***************************************************************************)
EXTENDS DockerProxy, TLAPS

-----------------------------------------------------------------------------
(* The slirp4netns driver. *)

(* IDs that slirp4netns has not given out are used on neither side.  This  *)
(* makes ListMatchesForwards inductive: a new forward gets a fresh ID.     *)
FreshIds == \A i \in Ids : i >= nextFwd => ports[i] = NoSpec /\ fwd[i] = NoSpec

SlirpInv == TypeOK /\ FreshIds /\ ListMatchesForwards

(* Every call of AddPort and RemovePort, answered or not, preserves the    *)
(* invariant (slirp4netns.go:65-152).                                      *)
LEMMA SlirpStep == SlirpInv /\ [Next]_vars => SlirpInv'
<1> SUFFICES ASSUME SlirpInv, [Next]_vars PROVE SlirpInv'
  OBVIOUS
<1> USE SlirpAssumption DEF SlirpInv, TypeOK, FreshIds, ListMatchesForwards, Ids
<1>1. ASSUME NEW s \in Specs, AddPort(s) PROVE SlirpInv'
  BY <1>1 DEF AddPort, AddHostFwd
<1>2. ASSUME NEW s \in Specs, AddPortReplyLost(s) PROVE SlirpInv'
  BY <1>2 DEF AddPortReplyLost, AddHostFwd
<1>3. ASSUME NEW i \in Ids, RemovePort(i) PROVE SlirpInv'
  BY <1>3 DEF RemovePort, RemoveHostFwd
<1>4. ASSUME NEW i \in Ids, RemovePortReplyLost(i) PROVE SlirpInv'
  BY <1>4 DEF RemovePortReplyLost, RemoveHostFwd
<1>5. CASE UNCHANGED vars
  BY <1>5 DEF vars
<1> QED
  BY <1>1, <1>2, <1>3, <1>4, <1>5 DEF Next

(* Nothing is listed or forwarded at the start.                            *)
LEMMA SlirpStart == Init => SlirpInv
  BY SlirpAssumption DEF Init, SlirpInv, TypeOK, FreshIds, ListMatchesForwards, Ids

(* The registry and the forwards of slirp4netns: the inductive invariant   *)
(* of AddPort and RemovePort (slirp4netns.go:65-152).                      *)
THEOREM SlirpInvariant == Spec => []SlirpInv
  BY SlirpStart, SlirpStep, PTL DEF Spec

(* Registry, forwards and the next ID keep their types.                    *)
THEOREM SlirpTypeOK == Spec => []TypeOK
  BY SlirpInvariant, PTL DEF SlirpInv

(* ListPorts shows the forwards of slirp4netns but for lost replies, and   *)
(* one ID never names two different ports (slirp4netns.go:65-152).         *)
THEOREM SlirpListMatches == Spec => []ListMatchesForwards
  BY SlirpInvariant, PTL DEF SlirpInv

-----------------------------------------------------------------------------
(* The refinement mapping takes an ID as used once slirp4netns has given   *)
(* it out.                                                                 *)

(* Giving out one more ID uses up that ID and no other (the "id" of the    *)
(* reply to add_hostfwd, slirp4netns.go:101-122).                          *)
LEMMA NextIdIsUsed ==
  ASSUME NEW n \in Nat, n \in Ids
  PROVE  {i \in Ids : i < n + 1} = {i \in Ids : i < n} \cup {n}
  BY SlirpAssumption DEF Ids

(* The driver implements PortManager: every call is one atomic operation   *)
(* on the registry, or changes nothing the caller can see, whether the     *)
(* reply of slirp4netns arrives or not (port.go:31-36).                    *)
THEOREM SlirpImplementsPortManager == Spec => IsPortManager
<1>1. Init => Manager!Init
  BY SlirpAssumption DEF Init, Manager!Init, Ids
<1>2. SlirpInv /\ [Next]_vars => [Manager!Next]_(Manager!vars)
  <2> SUFFICES ASSUME SlirpInv, [Next]_vars PROVE [Manager!Next]_(Manager!vars)
    OBVIOUS
  <2> USE SlirpAssumption DEF SlirpInv, TypeOK, FreshIds
  <2>1. ASSUME NEW s \in Specs, AddHostFwd(s)
        PROVE  /\ nextFwd \in Ids
               /\ nextFwd \notin {i \in Ids : i < nextFwd}
               /\ {i \in Ids : i < nextFwd'} = {i \in Ids : i < nextFwd} \cup {nextFwd}
    <3>1. nextFwd \in Ids /\ nextFwd \in Nat /\ nextFwd' = nextFwd + 1
      BY <2>1 DEF AddHostFwd, Ids
    <3> QED
      BY <3>1, NextIdIsUsed
  <2>2. ASSUME NEW s \in Specs, AddPort(s) PROVE Manager!AddPort(nextFwd, s)
    <3>1. AddHostFwd(s)
      BY <2>2 DEF AddPort
    <3>2. Manager!NoConflict(s)
      BY <2>2 DEF AddPort, Acceptable, Manager!NoConflict
    <3> QED
      BY <2>1, <2>2, <3>1, <3>2 DEF AddPort, Manager!AddPort
  <2>3. ASSUME NEW s \in Specs, AddPortReplyLost(s) PROVE Manager!AddPortFails(nextFwd)
    <3>1. AddHostFwd(s)
      BY <2>3 DEF AddPortReplyLost
    <3> QED
      BY <2>1, <2>3, <3>1 DEF AddPortReplyLost, Manager!AddPortFails
  <2>4. ASSUME NEW i \in Ids, RemovePort(i)
        PROVE  Manager!RemovePort(i) \/ UNCHANGED Manager!vars
    <3>1. UNCHANGED nextFwd /\ ports' = [ports EXCEPT ![i] = NoSpec]
      BY <2>4 DEF RemovePort, RemoveHostFwd
    <3>2. CASE ports[i] = NoSpec
      BY <3>1, <3>2 DEF Manager!vars
    <3>3. CASE ports[i] # NoSpec
      BY <3>1, <3>3 DEF Manager!RemovePort
    <3> QED
      BY <3>2, <3>3
  <2>5. ASSUME NEW i \in Ids, RemovePortReplyLost(i) PROVE UNCHANGED Manager!vars
    BY <2>5 DEF RemovePortReplyLost, RemoveHostFwd, Manager!vars
  <2>6. ASSUME UNCHANGED vars PROVE UNCHANGED Manager!vars
    BY <2>6 DEF vars, Manager!vars
  <2>7. ASSUME NEW s \in Specs, AddPort(s) PROVE Manager!Next
    <3>1. nextFwd \in Ids /\ Manager!AddPort(nextFwd, s)
      BY <2>1, <2>2, <2>7 DEF AddPort
    <3> QED
      BY <3>1 DEF Manager!Next
  <2>8. ASSUME NEW s \in Specs, AddPortReplyLost(s) PROVE Manager!Next
    <3>1. nextFwd \in Ids /\ Manager!AddPortFails(nextFwd)
      BY <2>1, <2>3, <2>8 DEF AddPortReplyLost
    <3> QED
      BY <3>1, Zenon DEF Manager!Next, Manager!AddPortFails
  <2> QED
    BY <2>4, <2>5, <2>6, <2>7, <2>8 DEF Next, Manager!Next
<1> QED
  BY <1>1, <1>2, SlirpInvariant, PTL DEF Spec, IsPortManager, Manager!Spec

-----------------------------------------------------------------------------
(* Wrappers, API and driver. *)

\* Between the reply to AddPort and the end of RemovePort.
Holding == {"added", "started", "waiting", "interrupted", "remove", "removeAndFail"}
Labels  == Holding \cup Over \cup {"idle", "info", "call", "error"}

ProxyType ==
  /\ asked \in [Proxies -> Requests] /\ driver \in {"slirp4netns", "none"}
  /\ pc \in [Proxies -> Labels]
  /\ id \in [Proxies -> Ids \cup {0}]
  /\ real \in [Proxies -> {"none", "silent", "serving", "dead"}]
  /\ owner \in [Ids -> Proxies \cup {NoOwner}]
  /\ apiFailed \subseteq Proxies /\ killErr \subseteq Proxies /\ ctlRemoved \subseteq Ids

(* A wrapper that holds a port is the only owner of its ID, which names    *)
(* the port it asked for or none, and none only if rootlessctl removed it. *)
HolderOwns ==
  \A p \in Proxies : pc[p] \in Holding =>
    /\ id[p] \in Ids /\ owner[id[p]] = p
    /\ ports[id[p]] \in {Want(p), NoSpec} /\ fwd[id[p]] \in {Want(p), NoSpec}
    /\ id[p] \in ctlRemoved \/ (ports[id[p]] = Want(p) /\ fwd[id[p]] = Want(p))

(* A listed port of a wrapper is held by it, or the wrapper was killed or  *)
(* a call of it has failed.                                                *)
OwnedIsHeld ==
  \A i \in Ids : \A p \in Proxies : ports[i] # NoSpec /\ owner[i] = p =>
    (pc[p] \in Holding /\ id[p] = i) \/ pc[p] = "killed" \/ p \in apiFailed

\* IDs that slirp4netns has not given out belong to nobody.
FreshOwners == \A i \in Ids : i >= nextFwd => owner[i] = NoOwner

(* docker-proxy runs only while its wrapper holds the port, or in place of *)
(* the wrapper when there is no port driver, or because it could not be    *)
(* killed.                                                                 *)
Running == {"started", "waiting", "interrupted", "replaced"}
RealIsHeld ==
  \A p \in Proxies :
    /\ real[p] \in {"silent", "serving"} =>
         pc[p] \in Running \/ (p \in killErr /\ pc[p] \in {"removeAndFail", "error", "failed"})
    /\ pc[p] = "replaced" => driver = "none"
    /\ p \in killErr => pc[p] \in {"removeAndFail", "error", "failed", "killed"}

ProxyInv == SlirpInv /\ ProxyType /\ HolderOwns /\ OwnedIsHeld /\ FreshOwners /\ RealIsHeld

(* A supported protocol has a port specification (main.go:96-118).         *)
LEMMA WantIsSpec == \A p \in Proxies : Supported(p) => Want(p) \in Specs
  BY ProxyAssumption DEF Supported, Want

(* The ports of rootlessctl belong to no wrapper.                          *)
LEMMA NoOwnerIsNoProxy == NoOwner \notin Proxies
  BY ProxyAssumption

(* Every step of a wrapper, of dockerd and of rootlessctl is an operation  *)
(* of the slirp4netns driver or leaves the driver alone: the API handlers  *)
(* add nothing to it (router.go:44-117).                                   *)
LEMMA StepsAreDriverSteps == ProxyInv /\ [ProxyNext]_allVars => [Next]_vars
<1> SUFFICES ASSUME ProxyInv, [ProxyNext]_allVars PROVE [Next]_vars
  OBVIOUS
<1> USE DEF slirpVars, vars
<1>1. ASSUME NEW p \in Proxies, PostPort(p) \/ PostPortReplyLost(p) PROVE Next
  BY <1>1, WantIsSpec DEF PostPort, PostPortReplyLost, Next
<1>2. ASSUME NEW p \in Proxies, DeletePort(p) \/ DeletePortFails(p) PROVE [Next]_vars
  <2>1. id[p] \in Ids
    BY <1>2 DEF DeletePort, DeletePortFails, Removing, ProxyInv, HolderOwns, Holding
  <2> QED
    BY <1>2, <2>1 DEF DeletePort, DeletePortFails, Next
<1>3. ASSUME NEW p \in Proxies,
             Launch(p) \/ Info(p) \/ Unsupported(p) \/ PostPortRefused(p) \/ StartReal(p) \/ NotifyInterrupt(p)
               \/ Stop(p) \/ Fail(p) \/ RealFollows(p) \/ RealSpeaks(p) \/ RealDies(p) \/ Interrupt(p) \/ Kill(p)
      PROVE  UNCHANGED vars
  BY <1>3 DEF Launch, Info, Unsupported, PostPortRefused, StartReal, NotifyInterrupt, Stop, Fail,
              RealFollows, RealSpeaks, RealDies, Interrupt, Kill
<1>4. ASSUME NEW s \in Specs, CtlAdd(s) PROVE Next
  BY <1>4 DEF CtlAdd, Next
<1>5. ASSUME NEW i \in Ids, CtlRemove(i) PROVE Next
  BY <1>5 DEF CtlRemove, Next
<1>6. CASE UNCHANGED allVars
  BY <1>6 DEF allVars
<1> QED
  BY <1>1, <1>2, <1>3, <1>4, <1>5, <1>6 DEF ProxyNext, Step

-----------------------------------------------------------------------------
(* Steps that add or remove no port: the wrapper may move, its             *)
(* docker-proxy may start, speak or die (main.go:38-230).                  *)
LEMMA QuietSteps ==
  ASSUME ProxyInv, NEW p \in Proxies,
         Launch(p) \/ Info(p) \/ Unsupported(p) \/ PostPortRefused(p) \/ StartReal(p) \/ NotifyInterrupt(p)
           \/ Stop(p) \/ Fail(p) \/ RealFollows(p) \/ RealSpeaks(p) \/ RealDies(p) \/ Interrupt(p) \/ Kill(p)
  PROVE  (ProxyType /\ HolderOwns /\ OwnedIsHeld /\ FreshOwners /\ RealIsHeld)'
<1> USE DEF ProxyInv, ProxyType, slirpVars, config, history, Goto, Over, Holding, Labels, Want, ApiProto
<1> DEFINE Same == UNCHANGED <<slirpVars, asked, driver, id, owner, apiFailed, ctlRemoved>>
<1>1. Same
  BY DEF Launch, Info, Unsupported, PostPortRefused, StartReal, NotifyInterrupt, Stop, Fail,
         RealFollows, RealSpeaks, RealDies, Interrupt, Kill
<1>2. /\ pc' \in [Proxies -> Labels]
      /\ real' \in [Proxies -> {"none", "silent", "serving", "dead"}]
      /\ \A q \in Proxies \ {p} : pc'[q] = pc[q] /\ real'[q] = real[q] /\ (q \in killErr' <=> q \in killErr)
      /\ killErr' \subseteq Proxies
  BY DEF Launch, Info, Unsupported, PostPortRefused, StartReal, NotifyInterrupt, Stop, Fail,
         RealFollows, RealSpeaks, RealDies, Interrupt, Kill
<1>3. pc'[p] \in Holding => pc[p] \in Holding
  BY DEF Launch, Info, Unsupported, PostPortRefused, StartReal, NotifyInterrupt, Stop, Fail,
         RealFollows, RealSpeaks, RealDies, Interrupt, Kill
<1>4. pc[p] \in Holding => pc'[p] \in Holding \cup {"killed"}
  BY DEF Launch, Info, Unsupported, PostPortRefused, StartReal, NotifyInterrupt, Stop, Fail,
         RealFollows, RealSpeaks, RealDies, Interrupt, Kill
<1>5. pc[p] = "killed" => pc'[p] = "killed"
  BY DEF Launch, Info, Unsupported, PostPortRefused, StartReal, NotifyInterrupt, Stop, Fail,
         RealFollows, RealSpeaks, RealDies, Interrupt, Kill
<1>6. /\ real'[p] \in {"silent", "serving"} =>
           pc'[p] \in Running \/ (p \in killErr' /\ pc'[p] \in {"removeAndFail", "error", "failed"})
      /\ pc'[p] = "replaced" => driver = "none"
      /\ p \in killErr' => pc'[p] \in {"removeAndFail", "error", "failed", "killed"}
  BY DEF RealIsHeld, Running, Launch, Info, Unsupported, PostPortRefused, StartReal, NotifyInterrupt, Stop, Fail,
         RealFollows, RealSpeaks, RealDies, Interrupt, Kill
<1>7. ProxyType'
  BY <1>1, <1>2
<1>8. HolderOwns'
  BY <1>1, <1>2, <1>3 DEF HolderOwns
<1>9. OwnedIsHeld'
  BY <1>1, <1>2, <1>4, <1>5 DEF OwnedIsHeld
<1>10. FreshOwners'
  BY <1>1 DEF FreshOwners
<1>11. RealIsHeld'
  BY <1>1, <1>2, <1>6 DEF RealIsHeld
<1> QED
  BY <1>7, <1>8, <1>9, <1>10, <1>11

(* A new port gets an ID that nobody owns, whether its reply arrives or    *)
(* not (slirp4netns.go:65-122, client.go:83-107).                          *)
LEMMA AddingSteps ==
  ASSUME ProxyInv, NEW p \in Proxies, PostPort(p) \/ PostPortReplyLost(p)
  PROVE  (ProxyType /\ HolderOwns /\ OwnedIsHeld /\ FreshOwners /\ RealIsHeld)'
<1> USE NoOwnerIsNoProxy, SlirpAssumption DEF ProxyInv, SlirpInv, TypeOK, ProxyType, Goto, Holding, Labels
<1>1. /\ nextFwd \in Ids /\ nextFwd' = nextFwd + 1
      /\ owner' = [owner EXCEPT ![nextFwd] = p]
      /\ fwd' = [fwd EXCEPT ![nextFwd] = Want(p)]
      /\ UNCHANGED <<asked, driver, real, ctlRemoved, killErr>>
  BY DEF PostPort, PostPortReplyLost, AddPort, AddPortReplyLost, AddHostFwd, Ids, config
<1>2. \A i \in Ids \ {nextFwd} : ports'[i] = ports[i] /\ fwd'[i] = fwd[i] /\ owner'[i] = owner[i]
  BY <1>1 DEF PostPort, PostPortReplyLost, AddPort, AddPortReplyLost
<1>3. owner[nextFwd] = NoOwner
  BY <1>1 DEF FreshOwners, Ids
<1>4. \A q \in Proxies : pc[q] \in Holding => id[q] # nextFwd /\ id[q] \in Ids
  BY <1>1, <1>3 DEF HolderOwns
<1>5. pc[p] = "call"
  BY DEF PostPort, PostPortReplyLost
<1>6. CASE PostPort(p)
  <2>1. /\ pc' = [pc EXCEPT ![p] = "added"] /\ id' = [id EXCEPT ![p] = nextFwd]
        /\ ports' = [ports EXCEPT ![nextFwd] = Want(p)] /\ UNCHANGED apiFailed
    BY <1>6 DEF PostPort, AddPort
  <2>2. ProxyType'
    BY <1>1, <2>1
  <2>3. HolderOwns'
    BY <1>1, <1>2, <1>4, <2>1, SMTT(30) DEF HolderOwns, Want, ApiProto
  <2>4. OwnedIsHeld'
    BY <1>1, <1>2, <1>5, <2>1 DEF OwnedIsHeld
  <2>5. FreshOwners'
    BY <1>1 DEF FreshOwners, Ids
  <2>6. RealIsHeld'
    BY <1>1, <1>5, <2>1 DEF RealIsHeld, Running
  <2> QED
    BY <2>2, <2>3, <2>4, <2>5, <2>6
<1>7. CASE PostPortReplyLost(p)
  <2>1. /\ pc' = [pc EXCEPT ![p] = "error"] /\ UNCHANGED id
        /\ apiFailed' = apiFailed \cup {p}
    BY <1>7 DEF PostPortReplyLost
  <2>2. ProxyType'
    BY <1>1, <2>1
  <2>3. HolderOwns'
    <3>1. \A q \in Proxies : pc'[q] \in Holding =>
            pc[q] \in Holding /\ id'[q] = id[q] /\ id[q] \in Ids \ {nextFwd}
      BY <1>4, <2>1
    <3>2. \A q \in Proxies : Want(q)' = Want(q)
      BY <1>1 DEF Want, ApiProto
    <3>3. \A q \in Proxies : pc'[q] \in Holding => ports'[id'[q]] = ports[id[q]] /\ fwd'[id'[q]] = fwd[id[q]]
      BY <1>2, <3>1
    <3>4. \A q \in Proxies : pc'[q] \in Holding => owner'[id'[q]] = owner[id[q]]
      BY <1>2, <3>1
    <3> QED
      BY <1>1, <3>1, <3>2, <3>3, <3>4 DEF HolderOwns
  <2>4. OwnedIsHeld'
    BY <1>1, <1>2, <1>5, <2>1 DEF OwnedIsHeld
  <2>5. FreshOwners'
    BY <1>1 DEF FreshOwners, Ids
  <2>6. RealIsHeld'
    BY <1>1, <1>5, <2>1 DEF RealIsHeld, Running
  <2> QED
    BY <2>2, <2>3, <2>4, <2>5, <2>6
<1> QED
  BY <1>6, <1>7

(* A wrapper removes only the port that it owns (main.go:131-137).         *)
LEMMA RemovingSteps ==
  ASSUME ProxyInv, NEW p \in Proxies, DeletePort(p) \/ DeletePortFails(p)
  PROVE  (ProxyType /\ HolderOwns /\ OwnedIsHeld /\ FreshOwners /\ RealIsHeld)'
<1> USE NoOwnerIsNoProxy, SlirpAssumption DEF ProxyInv, SlirpInv, TypeOK, ProxyType, Goto, Holding, Labels
<1>1. /\ pc[p] \in {"remove", "removeAndFail"}
      /\ pc' = [pc EXCEPT ![p] = IF pc[p] = "remove" THEN "done" ELSE "error"]
      /\ UNCHANGED <<asked, driver, id, real, owner, ctlRemoved, killErr>>
  BY DEF DeletePort, DeletePortFails, Removing, config
<1>2. id[p] \in Ids /\ owner[id[p]] = p
  BY <1>1 DEF HolderOwns
<1>3. /\ nextFwd' = nextFwd
      /\ \A i \in Ids \ {id[p]} : ports'[i] = ports[i] /\ fwd'[i] = fwd[i]
      /\ \A i \in Ids : ports'[i] # NoSpec => ports[i] # NoSpec
  BY <1>2 DEF DeletePort, DeletePortFails, RemovePort, RemovePortReplyLost, RemoveHostFwd, slirpVars
<1>4. \/ ports'[id[p]] = NoSpec /\ apiFailed' = apiFailed
      \/ apiFailed' = apiFailed \cup {p}
  BY <1>2 DEF DeletePort, DeletePortFails, RemovePort
<1>5. ProxyType'
  BY <1>1, <1>4 DEF Over
<1>6. HolderOwns'
  <2>1. \A q \in Proxies : pc'[q] \in Holding => q # p /\ pc[q] \in Holding
    BY <1>1
  <2>2. \A q \in Proxies : pc'[q] \in Holding => id[q] \in Ids \ {id[p]}
    BY <1>2, <2>1 DEF HolderOwns
  <2> QED
    BY <1>1, <1>3, <2>1, <2>2 DEF HolderOwns, Want, ApiProto
<1>7. OwnedIsHeld'
  BY <1>1, <1>2, <1>3, <1>4 DEF OwnedIsHeld
<1>8. FreshOwners'
  BY <1>1, <1>3 DEF FreshOwners
<1>9. RealIsHeld'
  BY <1>1 DEF RealIsHeld, Running
<1> QED
  BY <1>5, <1>6, <1>7, <1>8, <1>9

(* rootlessctl takes a fresh ID (port.go:82-116).                          *)
LEMMA CtlAddSteps ==
  ASSUME ProxyInv, NEW s \in Specs, CtlAdd(s)
  PROVE  (ProxyType /\ HolderOwns /\ OwnedIsHeld /\ FreshOwners /\ RealIsHeld)'
<1> USE NoOwnerIsNoProxy, SlirpAssumption DEF ProxyInv, SlirpInv, TypeOK, ProxyType
<1>1. UNCHANGED <<asked, driver, pc, id, real, owner, apiFailed, ctlRemoved, killErr>>
  BY DEF CtlAdd, proxyVars, config, history
<1>2. /\ nextFwd \in Ids /\ owner[nextFwd] = NoOwner /\ nextFwd' = nextFwd + 1
      /\ \A j \in Ids \ {nextFwd} : ports'[j] = ports[j] /\ fwd'[j] = fwd[j]
  <2>1. AddHostFwd(s) /\ (ports' = [ports EXCEPT ![nextFwd] = s] \/ UNCHANGED ports)
    BY DEF CtlAdd, AddPort, AddPortReplyLost
  <2>2. nextFwd \in Ids /\ nextFwd' = nextFwd + 1 /\ fwd' = [fwd EXCEPT ![nextFwd] = s]
    BY <2>1 DEF AddHostFwd, Ids
  <2>3. owner[nextFwd] = NoOwner
    BY <2>2 DEF FreshOwners, Ids
  <2> QED
    BY <2>1, <2>2, <2>3
<1>3. ProxyType' /\ RealIsHeld'
  BY <1>1 DEF RealIsHeld
<1>4. HolderOwns'
  BY <1>1, <1>2 DEF HolderOwns, Want, ApiProto
<1>5. OwnedIsHeld'
  BY <1>1, <1>2 DEF OwnedIsHeld
<1>6. FreshOwners'
  BY <1>1, <1>2 DEF FreshOwners, Ids
<1> QED
  BY <1>3, <1>4, <1>5, <1>6

(* rootlessctl removes any port, that of a wrapper too: its ID then names  *)
(* no port on one side or both (port.go:125-150, slirp4netns.go:134-152).  *)
LEMMA CtlRemoveSteps ==
  ASSUME ProxyInv, NEW i \in Ids, CtlRemove(i)
  PROVE  (ProxyType /\ HolderOwns /\ OwnedIsHeld /\ FreshOwners /\ RealIsHeld)'
<1> USE NoOwnerIsNoProxy, SlirpAssumption DEF ProxyInv, SlirpInv, TypeOK, ProxyType
<1>1. /\ UNCHANGED <<asked, driver, pc, id, real, owner, apiFailed, killErr, nextFwd>>
      /\ ctlRemoved' = ctlRemoved \cup {i}
  BY DEF CtlRemove, config, RemovePort, RemovePortReplyLost, RemoveHostFwd
<1>2. /\ \A j \in Ids \ {i} : ports'[j] = ports[j] /\ fwd'[j] = fwd[j]
      /\ ports'[i] \in {ports[i], NoSpec} /\ fwd'[i] = NoSpec
  BY DEF CtlRemove, RemovePort, RemovePortReplyLost, RemoveHostFwd
<1>3. ProxyType' /\ RealIsHeld'
  BY <1>1 DEF RealIsHeld
<1>4. HolderOwns'
  BY <1>1, <1>2, SMTT(30) DEF HolderOwns, Want, ApiProto
<1>5. OwnedIsHeld'
  BY <1>1, <1>2 DEF OwnedIsHeld
<1>6. FreshOwners'
  BY <1>1 DEF FreshOwners
<1> QED
  BY <1>3, <1>4, <1>5, <1>6

(* The inductive invariant of the wrappers and the driver together.        *)
THEOREM ProxyInvariant == ProxySpec => []ProxyInv
<1>1. ProxyInit => ProxyInv
  <2> SUFFICES ASSUME ProxyInit PROVE ProxyInv
    OBVIOUS
  <2>1. SlirpInv
    BY SlirpStart DEF ProxyInit
  <2>2. ProxyType
    BY DEF ProxyInit, ProxyType, Labels
  <2>3. HolderOwns /\ OwnedIsHeld /\ FreshOwners /\ RealIsHeld
    BY ProxyAssumption DEF ProxyInit, HolderOwns, OwnedIsHeld, FreshOwners, RealIsHeld, Holding
  <2> QED
    BY <2>1, <2>2, <2>3 DEF ProxyInv
<1>2. ProxyInv /\ [ProxyNext]_allVars => ProxyInv'
  <2> SUFFICES ASSUME ProxyInv, [ProxyNext]_allVars PROVE ProxyInv'
    OBVIOUS
  <2>1. SlirpInv'
    BY StepsAreDriverSteps, SlirpStep DEF ProxyInv
  <2>2. CASE UNCHANGED allVars
    BY <2>2 DEF allVars, proxyVars, config, history, slirpVars, ProxyInv, ProxyType, HolderOwns, OwnedIsHeld, FreshOwners,
                RealIsHeld, SlirpInv, TypeOK, FreshIds, ListMatchesForwards, Want, ApiProto
  <2>3. CASE ProxyNext
    BY <2>1, <2>3, QuietSteps, AddingSteps, RemovingSteps, CtlAddSteps, CtlRemoveSteps DEF ProxyNext, Step, ProxyInv
  <2> QED
    BY <2>2, <2>3
<1> QED
  BY <1>1, <1>2, PTL DEF ProxySpec

(* A wrapper that ends by itself leaves no port behind, on any path,       *)
(* unless a call of the API failed on it (main.go:131-137, 188-194).       *)
THEOREM NoPortLeaks == ProxySpec => []NoLeak
<1>1. ProxyInv => NoLeak
  BY DEF ProxyInv, ProxyType, OwnedIsHeld, NoLeak, Holding
<1> QED
  BY <1>1, ProxyInvariant, PTL

(* What docker-proxy serves for a wrapper is listed and forwarded by the   *)
(* parent under the ID of that wrapper, unless rootlessctl removed just    *)
(* that ID, which then names no other port; but for a docker-proxy that    *)
(* could not be killed (main.go:188-229).                                  *)
THEOREM ServedPortsAreForwarded == ProxySpec => []ServedIsForwarded
<1>1. ProxyInv => ServedIsForwarded
  BY DEF ProxyInv, ProxyType, HolderOwns, RealIsHeld, Running, ServedIsForwarded, Holding
<1> QED
  BY <1>1, ProxyInvariant, PTL

(* With wrappers, dockerd and rootlessctl around it the driver still is a  *)
(* PortManager (port.go:31-36).                                            *)
THEOREM ProxiesUsePortManager == ProxySpec => IsPortManager
<1>1. ProxyInit => Init
  BY DEF ProxyInit
<1>2. ProxySpec => Spec
  BY <1>1, StepsAreDriverSteps, ProxyInvariant, PTL DEF ProxySpec, Spec
<1> QED
  BY <1>2, SlirpImplementsPortManager, PTL

-----------------------------------------------------------------------------
(* Descriptor 3. *)

(* Until the wrapper starts docker-proxy or reports an error there is no   *)
(* docker-proxy and no verdict, and while a docker-proxy is silent nobody  *)
(* has spoken: the two writers take turns.  Where docker-proxy could not   *)
(* be killed each of the two may write once, in either order.              *)
Verdicts == {"0", "1"}
Spoken(p) ==
  /\ Len(verdicts[p]) <= 1 \/ (p \in killErr /\ Len(verdicts[p]) = 2)
  /\ real[p] = "silent" /\ pc[p] # "failed" => Len(verdicts[p]) = 0
  /\ real[p] = "silent" => Len(verdicts[p]) <= 1
  /\ pc[p] \in {"removeAndFail", "error"} => Len(verdicts[p]) <= 1
  /\ pc[p] \in {"idle", "info", "call", "added", "removeAndFail", "error"} /\ p \notin killErr =>
       real[p] = "none" /\ Len(verdicts[p]) = 0

VerdictInv == \A p \in Proxies : Spoken(p)

(* Writing a verdict makes one more.                                       *)
LEMMA OneMore ==
  ASSUME NEW p \in Proxies, NEW w \in Verdicts, verdicts \in [Proxies -> Seq(Verdicts)], Write(p, w)
  PROVE  Len(verdicts'[p]) = Len(verdicts[p]) + 1 /\ Len(verdicts[p]) \in Nat
  BY DEF Write

(* A step of one wrapper or of its docker-proxy writes only where it may   *)
(* (main.go:39-48, 188-229).                                               *)
LEMMA SpokenStep ==
  ASSUME ProxyInv, VerdictInv, NEW p \in Proxies, verdicts \in [Proxies -> Seq(Verdicts)],
         Launch(p) \/ Step(p) \/ RealDies(p) \/ Interrupt(p) \/ Kill(p)
  PROVE  Spoken(p)'
<1> USE DEF ProxyInv, ProxyType, Goto, Labels, Holding, Over, history, RealIsHeld, Running
<1>1. Spoken(p)
  BY DEF VerdictInv
<1>2. CASE Unsupported(p)
  <2>1. Len(verdicts'[p]) = 1 /\ pc'[p] = "done" /\ real'[p] = "none"
    <3>1. "0" \in Verdicts /\ Write(p, "0") /\ p \notin killErr
      BY <1>2 DEF Unsupported, Verdicts
    <3>2. Len(verdicts'[p]) = Len(verdicts[p]) + 1
      BY <3>1, OneMore
    <3>3. pc[p] = "call" /\ pc'[p] = "done" /\ UNCHANGED real
      BY <1>2 DEF Unsupported
    <3> QED
      BY <1>1, <3>1, <3>2, <3>3 DEF Spoken
  <2> QED
    BY <2>1 DEF Spoken
<1>3. CASE Fail(p)
  <2>1. "1" \in Verdicts /\ Write(p, "1") /\ pc[p] = "error" /\ pc'[p] = "failed" /\ UNCHANGED <<real, killErr>>
    BY <1>3 DEF Fail, Verdicts
  <2>2. Len(verdicts'[p]) = Len(verdicts[p]) + 1 /\ Len(verdicts[p]) \in Nat
    BY <2>1, OneMore
  <2>3. CASE p \in killErr
    BY <1>1, <2>1, <2>2, <2>3 DEF Spoken
  <2>4. CASE p \notin killErr
    BY <1>1, <2>1, <2>2, <2>4 DEF Spoken
  <2> QED
    BY <2>3, <2>4
<1>4. CASE RealSpeaks(p)
  <2>1. PICK w \in Verdicts : Write(p, w)
    BY <1>4 DEF RealSpeaks, Verdicts
  <2>2. Len(verdicts'[p]) = Len(verdicts[p]) + 1 /\ Len(verdicts[p]) \in Nat
    BY <2>1, OneMore
  <2>3. real[p] = "silent" /\ real'[p] \in {"serving", "dead"} /\ UNCHANGED <<pc, killErr>>
    BY <1>4 DEF RealSpeaks
  <2>4. CASE p \in killErr
    BY <1>1, <2>2, <2>3, <2>4 DEF Spoken
  <2>5. CASE p \notin killErr
    <3>1. pc[p] \in Running
      BY <2>3, <2>5
    <3>2. Len(verdicts[p]) = 0
      BY <1>1, <2>3, <3>1 DEF Spoken
    <3> QED
      BY <2>2, <2>3, <3>1, <3>2 DEF Spoken
  <2> QED
    BY <2>4, <2>5
<1>5. CASE Stop(p)
  BY <1>1, <1>5 DEF Stop, Spoken
<1>6. CASE Launch(p) \/ Info(p) \/ PostPort(p) \/ PostPortReplyLost(p) \/ PostPortRefused(p) \/ StartReal(p)
             \/ NotifyInterrupt(p) \/ RealFollows(p) \/ RealDies(p) \/ Interrupt(p) \/ Kill(p)
  BY <1>1, <1>6 DEF Launch, Info, PostPort, PostPortReplyLost, PostPortRefused, StartReal, NotifyInterrupt,
                    RealFollows, RealDies, Interrupt, Kill, Spoken
<1>7. CASE DeletePort(p) \/ DeletePortFails(p)
  BY <1>1, <1>7 DEF DeletePort, DeletePortFails, Removing, Spoken
<1> QED
  BY <1>2, <1>3, <1>4, <1>5, <1>6, <1>7 DEF Step

(* A step writes to the descriptor of its own wrapper only.                *)
LEMMA OthersKeep ==
  ASSUME ProxyInv, NEW p \in Proxies, NEW q \in Proxies, q # p, Spoken(q), verdicts \in [Proxies -> Seq(Verdicts)],
         Launch(p) \/ Step(p) \/ RealDies(p) \/ Interrupt(p) \/ Kill(p)
  PROVE  Spoken(q)'
<1> USE DEF ProxyInv, ProxyType, Goto, history, Write
<1>1. verdicts'[q] = verdicts[q] /\ real'[q] = real[q] /\ pc'[q] = pc[q] /\ (q \in killErr' <=> q \in killErr)
  BY DEF Step, Launch, Info, Unsupported, PostPort, PostPortReplyLost, PostPortRefused, StartReal,
         NotifyInterrupt, Stop, DeletePort, DeletePortFails, Removing, Fail, RealFollows, RealSpeaks, RealDies,
         Interrupt, Kill
<1> QED
  BY <1>1 DEF Spoken

(* Every step writes to descriptor 3 only where it may.                    *)
LEMMA VerdictStep ==
  ASSUME ProxyInv, VerdictInv, verdicts \in [Proxies -> Seq(Verdicts)], [ProxyNext]_allVars
  PROVE  VerdictInv' /\ verdicts' \in [Proxies -> Seq(Verdicts)]
<1>1. ASSUME NEW p \in Proxies, Launch(p) \/ Step(p) \/ RealDies(p) \/ Interrupt(p) \/ Kill(p)
      PROVE  VerdictInv' /\ verdicts' \in [Proxies -> Seq(Verdicts)]
  <2>1. VerdictInv'
    BY <1>1, SpokenStep, OthersKeep DEF VerdictInv
  <2>2. UNCHANGED verdicts \/ \E v \in Verdicts : Write(p, v)
    BY <1>1 DEF Step, Launch, Info, Unsupported, PostPort, PostPortReplyLost, PostPortRefused, StartReal,
         NotifyInterrupt, Stop, DeletePort, DeletePortFails, Removing, Fail, RealFollows, RealSpeaks, RealDies,
         Interrupt, Kill, Verdicts
  <2> QED
    BY <2>1, <2>2 DEF Write
<1>2. CASE UNCHANGED <<verdicts, real, pc, killErr>>
  BY <1>2 DEF VerdictInv, Spoken
<1> QED
  BY <1>1, <1>2 DEF ProxyNext, CtlAdd, CtlRemove, allVars, proxyVars, history

(* dockerd never reads two verdicts, and none that contradicts another,    *)
(* unless docker-proxy could not be killed, and then no more than one of   *)
(* each process: the safety half of OneVerdict (main.go:39-48, 188-229).   *)
THEOREM AtMostOneVerdict == ProxySpec => [](\A p \in Proxies : FewVerdicts(p))
<1> DEFINE VInv == VerdictInv /\ verdicts \in [Proxies -> Seq(Verdicts)]
<1>1. ProxyInit => VInv
  BY DEF ProxyInit, VerdictInv, Spoken
<1>2. ProxyInv /\ VInv /\ [ProxyNext]_allVars => VInv'
  BY VerdictStep
<1>3. VInv => \A p \in Proxies : FewVerdicts(p)
  BY DEF VerdictInv, Spoken, FewVerdicts
<1> QED
  BY <1>1, <1>2, <1>3, ProxyInvariant, PTL DEF ProxySpec
=============================================================================
