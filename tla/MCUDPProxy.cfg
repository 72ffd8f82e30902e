\* Two clients, three connections: a client gets a second connection while the
\* replyLoop of its first one ends.
SPECIFICATION UDPFairSpec
CONSTANTS
  Clients = {k1, k2}
  Conns = {c1, c2, c3}
  NoConn = NoConn
  NoClient = NoClient
INVARIANTS EntryHasReplyLoop DeletesOwnEntry NoCrossTalk
PROPERTY CloseReleases
CHECK_DEADLOCK FALSE
