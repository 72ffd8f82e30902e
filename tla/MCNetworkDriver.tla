--------------------------- MODULE MCNetworkDriver ---------------------------
(* NetworkDriver for TLC: all drivers, detached or not. *)
EXTENDS NetworkDriver

MCDrivers == {"none", "pasta", "slirp4netns", "vpnkit", "lxc-user-nic", "gvisor-tap-vsock"}
=============================================================================
