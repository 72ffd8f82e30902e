--------------------------- MODULE MCDockerProxy ---------------------------
(* DockerProxy for TLC: two wrappers, each for the IPv4 port, as after a   *)
(* restart of the container, or for its IPv6 address; rootlessctl competes *)
(* for the host port as "tcp", which slirp4netns cannot tell from "tcp4",  *)
(* and as "tcpB", the same port of the host with another child port.       *)
EXTENDS DockerProxy

MCSpecs == {"tcp", "tcpB", "tcp4", "tcp6"}
MCV6    == {"tcp6"}
MCKey   == [s \in MCSpecs |-> IF s = "tcpB" THEN "tcp" ELSE s]
MCAddr  == [s \in MCSpecs |-> IF s = "tcp6" THEN "tcp6:80" ELSE "tcp:80"]
MCRequests == {[name |-> "tcp", suffix |-> "", v6 |-> FALSE],
               [name |-> "tcp", suffix |-> "4", v6 |-> FALSE],
               [name |-> "tcp", suffix |-> "", v6 |-> TRUE]}
MCSpecOf == [x \in Protos |-> "tcp4"]
=============================================================================
