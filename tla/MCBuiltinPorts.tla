--------------------------- MODULE MCBuiltinPorts ---------------------------
(* BuiltinPorts for TLC.  "tcp" and "tcp4" differ for ValidatePortSpec but *)
(* bind the same address; "udp" is a port of its own.                      *)
EXTENDS BuiltinPorts

MCSpecs == {"tcp", "tcp4", "udp"}
MCKey   == [s \in MCSpecs |-> s]
MCAddr  == [s \in MCSpecs |-> IF s = "udp" THEN "udp:53" ELSE "tcp:80"]
MCProto == [s \in MCSpecs |-> CASE s \in {"tcp", "tcp4"} -> "tcp"
                                [] OTHER -> s]
=============================================================================
