----------------------------- MODULE SlirpPorts -----------------------------
(***************************************************************************)
(* The port manager of the slirp4netns driver (pkg/port/slirp4netns):      *)
(* every operation holds d.mu from start to end and asks the slirp4netns   *)
(* process over its API socket.  slirp4netns keeps the forwards and gives  *)
(* out the IDs.                                                            *)
(***************************************************************************)
EXTENDS Naturals

CONSTANTS
  Specs,    \* port specifications that pass ValidatePortSpec
  Key,      \* Key[s]: the strings ValidatePortSpec compares
  Addr,     \* Addr[s]: protocol (without a trailing 4) and host address
  V6,       \* specifications of tcp6 and udp6
  MaxPorts, \* bound on the number of forwards
  Faults,   \* "lostReply": the API connection may break after the request
  NoSpec

ASSUME SlirpAssumption ==
  /\ MaxPorts \in Nat /\ NoSpec \notin Specs
  /\ V6 \subseteq Specs /\ Faults \subseteq {"lostReply"}

Ids == 1..MaxPorts

VARIABLES
  ports,  \* d.ports
  fwd,    \* the forwards of the slirp4netns process, by ID
  nextFwd, \* the next ID that slirp4netns gives out
  lost    \* history: the IDs of requests whose reply was lost

vars == <<ports, fwd, nextFwd, lost>>

Init ==
  /\ ports = [i \in Ids |-> NoSpec] /\ fwd = [i \in Ids |-> NoSpec] /\ nextFwd = 1
  /\ lost = {}

\* ValidatePortSpec against the listed ports; IPv6 is not supported.
Acceptable(s) ==
  s \notin V6 /\ \A i \in Ids : ports[i] # NoSpec => Key[ports[i]] # Key[s]

\* slirp4netns executes add_hostfwd: it binds the host address.
AddHostFwd(s) ==
  /\ nextFwd <= MaxPorts
  /\ \A i \in Ids : fwd[i] # NoSpec => Addr[fwd[i]] # Addr[s]
  /\ fwd' = [fwd EXCEPT ![nextFwd] = s]
  /\ nextFwd' = nextFwd + 1

\* Mutant: the specification is not validated.
AddPort_NotValidated(s) ==
  /\ AddHostFwd(s)
  /\ ports' = [ports EXCEPT ![nextFwd] = s]
  /\ UNCHANGED lost

AddPort(s) ==
  /\ Acceptable(s)
  /\ AddHostFwd(s)
  /\ ports' = [ports EXCEPT ![nextFwd] = s]
  /\ UNCHANGED lost

\* callAPI fails after slirp4netns has executed the request.
AddPortReplyLost(s) ==
  /\ "lostReply" \in Faults
  /\ Acceptable(s)
  /\ AddHostFwd(s)
  /\ lost' = lost \cup {nextFwd}
  /\ UNCHANGED ports

\* remove_hostfwd of an ID that slirp4netns does not know is an error.
RemoveHostFwd(i) ==
  /\ fwd[i] # NoSpec
  /\ fwd' = [fwd EXCEPT ![i] = NoSpec]
  /\ UNCHANGED nextFwd

\* Mutant: delete(d.ports, id) is missing.
RemovePort_KeepsPort(i) == RemoveHostFwd(i) /\ UNCHANGED <<ports, lost>>

RemovePort(i) ==
  /\ RemoveHostFwd(i)
  /\ ports' = [ports EXCEPT ![i] = NoSpec]
  /\ UNCHANGED lost

RemovePortReplyLost(i) ==
  /\ "lostReply" \in Faults
  /\ RemoveHostFwd(i)
  /\ lost' = lost \cup {i}
  /\ UNCHANGED ports

Next ==
  \/ \E s \in Specs : AddPort(s) \/ AddPortReplyLost(s)
  \/ \E i \in Ids : RemovePort(i) \/ RemovePortReplyLost(i)

Spec == Init /\ [][Next]_vars

-----------------------------------------------------------------------------
(* Properties *)

TypeOK ==
  /\ ports \in [Ids -> Specs \cup {NoSpec}]
  /\ fwd \in [Ids -> Specs \cup {NoSpec}]
  /\ nextFwd \in 1..(MaxPorts + 1)
  /\ lost \subseteq Ids

(* ListPorts shows exactly the forwards of the slirp4netns process, but    *)
(* for the IDs whose reply was lost, and even there one ID never names two *)
(* different ports: a broken API connection costs that port, no other      *)
(* (slirp4netns.go:65-152).                                                *)
ListMatchesForwards ==
  \A i \in Ids : ports[i] = fwd[i] \/ (i \in lost /\ NoSpec \in {ports[i], fwd[i]})

(* The registry is a PortManager, whether replies are lost or not.         *)
Manager == INSTANCE PortManager WITH listed <- ports, used <- {i \in Ids : i < nextFwd}
IsPortManager == Manager!Spec
=============================================================================
