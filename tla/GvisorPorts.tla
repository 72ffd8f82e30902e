----------------------------- MODULE GvisorPorts -----------------------------
(***************************************************************************)
(* The port manager of the gvisor-tap-vsock driver under concurrent calls  *)
(* (pkg/port/gvisortapvsock).  AddPort lists the port in one critical      *)
(* section of d.mu and exposes it in a second one; RemovePort unlists it   *)
(* in one and unexposes it in a second one.                                *)
(***************************************************************************)
EXTENDS Naturals

CONSTANTS
  Callers,  \* concurrent requests of the API server
  Specs,    \* port specifications of the protocols the driver supports
  Local,    \* Local[s]: protocol and host address, the key of the forwarder
  MaxPorts, \* bound on the number of calls of AddPort
  NoSpec, NoId

Ids    == 1..MaxPorts
Locals == {Local[s] : s \in Specs}

VARIABLES
  ports,    \* d.ports
  portSeq,  \* d.portSeq
  fwd,      \* the forwards of the virtual network, by local address
  pc, arg, id  \* program counter, specification and port ID of every caller

vars == <<ports, portSeq, fwd, pc, arg, id>>

Init ==
  /\ ports = [i \in Ids |-> NoSpec] /\ portSeq = 1
  /\ fwd = [l \in Locals |-> NoSpec]
  /\ pc = [t \in Callers |-> "idle"]
  /\ arg = [t \in Callers |-> NoSpec] /\ id = [t \in Callers |-> NoId]

Returns(t) ==
  /\ pc' = [pc EXCEPT ![t] = "idle"]
  /\ arg' = [arg EXCEPT ![t] = NoSpec] /\ id' = [id EXCEPT ![t] = NoId]

-----------------------------------------------------------------------------
\* The first critical section of AddPort.  There is no ValidatePortSpec.
AddRegister(t, s) ==
  /\ pc[t] = "idle" /\ portSeq <= MaxPorts
  /\ ports' = [ports EXCEPT ![portSeq] = s]
  /\ portSeq' = portSeq + 1
  /\ id' = [id EXCEPT ![t] = portSeq]
  /\ arg' = [arg EXCEPT ![t] = s]
  /\ pc' = [pc EXCEPT ![t] = "expose"]
  /\ UNCHANGED fwd

\* The forwarder refuses a local address that it forwards already.
Expose(s) ==
  /\ fwd[Local[s]] = NoSpec
  /\ fwd' = [fwd EXCEPT ![Local[s]] = s]

\* exposePort, and its failure: the address may be in use on the host.
AddExpose(t) ==
  /\ pc[t] = "expose"
  /\ Expose(arg[t])
  /\ Returns(t)
  /\ UNCHANGED <<ports, portSeq>>

AddExposeFails(t) ==
  /\ pc[t] = "expose"
  /\ pc' = [pc EXCEPT ![t] = "undo"]
  /\ UNCHANGED <<ports, portSeq, fwd, arg, id>>

\* delete(d.ports, id) after a failure.
AddUndo(t) ==
  /\ pc[t] = "undo"
  /\ ports' = [ports EXCEPT ![id[t]] = NoSpec]
  /\ Returns(t)
  /\ UNCHANGED <<portSeq, fwd>>

\* The first critical section of RemovePort; an unknown ID is an error.
RemoveUnregister(t, i) ==
  /\ pc[t] = "idle"
  /\ ports[i] # NoSpec
  /\ ports' = [ports EXCEPT ![i] = NoSpec]
  /\ arg' = [arg EXCEPT ![t] = ports[i]]
  /\ pc' = [pc EXCEPT ![t] = "unexpose"]
  /\ UNCHANGED <<portSeq, fwd, id>>

\* unexposePort: an error is only logged.
RemoveUnexpose(t) ==
  /\ pc[t] = "unexpose"
  /\ fwd' = [fwd EXCEPT ![Local[arg[t]]] = NoSpec]
  /\ Returns(t)
  /\ UNCHANGED <<ports, portSeq>>

Next ==
  \E t \in Callers :
    \/ AddExpose(t) \/ AddExposeFails(t) \/ AddUndo(t) \/ RemoveUnexpose(t)
    \/ \E s \in Specs : AddRegister(t, s)
    \/ \E i \in Ids : RemoveUnregister(t, i)

Spec == Init /\ [][Next]_vars

-----------------------------------------------------------------------------
(* Properties *)

Quiet == \A t \in Callers : pc[t] = "idle"

(* port.go:31: "Manager MUST be thread-safe."  When no call is in          *)
(* progress, the virtual network forwards exactly the ports that ListPorts *)
(* shows: no forward that RemovePort can not reach, no listed port that is *)
(* not forwarded.  It holds as long as the calls come one after the other. *)
ListMatchesForwards ==
  Quiet => /\ \A i \in Ids : ports[i] # NoSpec => fwd[Local[ports[i]]] = ports[i]
           /\ \A l \in Locals : fwd[l] # NoSpec => \E i \in Ids : ports[i] = fwd[l]
=============================================================================
