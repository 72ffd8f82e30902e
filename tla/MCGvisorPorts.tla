--------------------------- MODULE MCGvisorPorts ---------------------------
(* GvisorPorts for TLC: two specifications for the same TCP port of the    *)
(* host that differ in the child port, and one for a UDP port.             *)
EXTENDS GvisorPorts

MCSpecs == {"tcp80to80", "tcp80to81", "udp53"}
MCLocal == [s \in MCSpecs |-> IF s = "udp53" THEN "udp:53" ELSE "tcp:80"]
=============================================================================
