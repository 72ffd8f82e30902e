---------------------------- MODULE PortManager ----------------------------
(***************************************************************************)
(* What a port.Manager promises its callers (pkg/port/port.go): a registry *)
(* of forwarded ports in which AddPort and RemovePort take effect at once, *)
(* an ID is never given out twice, and no two ports claim the same         *)
(* protocol, address and port of the host (portutil.ValidatePortSpec).     *)
(***************************************************************************)
CONSTANTS
  Ids,     \* port IDs
  Specs,   \* port specifications
  Key,     \* Key[s]: the strings Proto, ParentIP and ParentPort of s
  NoSpec   \* no port has the ID

VARIABLES
  listed,  \* what ListPorts returns
  used     \* the IDs that were given out

vars == <<listed, used>>

Init == listed = [i \in Ids |-> NoSpec] /\ used = {}

\* ValidatePortSpec finds no port with the same proto, ParentIP and ParentPort.
NoConflict(s) == \A i \in Ids : listed[i] # NoSpec => Key[listed[i]] # Key[s]

AddPort(i, s) ==
  /\ i \notin used
  /\ NoConflict(s)
  /\ listed' = [listed EXCEPT ![i] = s]
  /\ used' = used \cup {i}

\* AddPort fails after the ID was allocated: the ID is lost.
AddPortFails(i) ==
  /\ used' = used \cup {i}
  /\ UNCHANGED listed

RemovePort(i) ==
  /\ listed[i] # NoSpec
  /\ listed' = [listed EXCEPT ![i] = NoSpec]
  /\ UNCHANGED used

Next == \E i \in Ids : RemovePort(i) \/ AddPortFails(i) \/ \E s \in Specs : AddPort(i, s)

Spec == Init /\ [][Next]_vars
=============================================================================
