------------------------------ MODULE UDPProxy ------------------------------
(***************************************************************************)
(* The UDP proxy of the builtin port driver (udpproxy/udp_proxy.go): the   *)
(* goroutine of Run, which reads the datagrams of the clients, one         *)
(* replyLoop goroutine for every connection to the backend, and the        *)
(* goroutine that calls Close.  They share the connection tracking table   *)
(* under connTrackLock, and the sockets without a lock.                    *)
(***************************************************************************)
EXTENDS Naturals

CONSTANTS
  Clients,   \* connTrackKeys: the addresses datagrams come from
  Conns,     \* the connections BackendDial may return, each at most once
  NoConn,    \* the table has no entry
  NoClient   \* the connection was never dialed

ASSUME UDPAssumption == NoConn \notin Conns /\ NoClient \notin Clients

VARIABLES
  listener,  \* proxy.Listener: "open" or "closed"
  lock,      \* owner of connTrackLock
  table,     \* connTrackTable
  conn,      \* state of every connection
  client,    \* the client a replyLoop sends to (its clientAddr and clientKey)
  rpc,       \* program counter of every replyLoop
  run,       \* program counter of Run
  from,      \* client of the datagram that Run handles
  cur,       \* proxyConn of Run
  close      \* program counter of Close

udpVars == <<listener, lock, table, conn, client, rpc, run, from, cur, close>>

Unlocked == [kind |-> "free"]
ByRun    == [kind |-> "run"]
ByClose  == [kind |-> "close"]
ByReply(c) == [kind |-> "reply", conn |-> c]

UDPInit ==
  /\ listener = "open" /\ lock = Unlocked
  /\ table = [k \in Clients |-> NoConn]
  /\ conn = [c \in Conns |-> "unused"]
  /\ client = [c \in Conns |-> NoClient]
  /\ rpc = [c \in Conns |-> "off"]
  /\ run = "start" /\ from = NoClient /\ cur = NoConn
  /\ close = "idle"

-----------------------------------------------------------------------------
(* Run *)

\* The table is made without the lock.
RunStart ==
  /\ run = "start"
  /\ table' = [k \in Clients |-> NoConn]
  /\ run' = "read"
  /\ UNCHANGED <<listener, lock, conn, client, rpc, from, cur, close>>

\* ReadFromUDP returns a datagram.
RunRead(k) ==
  /\ run = "read" /\ listener = "open"
  /\ from' = k
  /\ run' = "lock"
  /\ UNCHANGED <<listener, lock, table, conn, client, rpc, cur, close>>

\* ReadFromUDP fails: the loop ends.
RunReadClosed ==
  /\ run = "read" /\ listener = "closed"
  /\ run' = "stopped"
  /\ UNCHANGED <<listener, lock, table, conn, client, rpc, from, cur, close>>

RunReadFails ==
  /\ run = "read" /\ listener = "open"
  /\ run' = "stopped"
  /\ UNCHANGED <<listener, lock, table, conn, client, rpc, from, cur, close>>

RunLock ==
  /\ run = "lock" /\ lock = Unlocked
  /\ lock' = ByRun
  /\ run' = "lookup"
  /\ UNCHANGED <<listener, table, conn, client, rpc, from, cur, close>>

\* Mutant: proxyConn keeps its value from the datagram before.
RunHit_StaleConn ==
  /\ run = "lookup" /\ table[from] # NoConn
  /\ cur' = IF cur = NoConn THEN table[from] ELSE cur
  /\ lock' = Unlocked
  /\ run' = "write"
  /\ UNCHANGED <<listener, table, conn, client, rpc, from, close>>

\* proxyConn, hit := connTrackTable[fromKey]
RunHit ==
  /\ run = "lookup" /\ table[from] # NoConn
  /\ cur' = table[from]
  /\ lock' = Unlocked
  /\ run' = "write"
  /\ UNCHANGED <<listener, table, conn, client, rpc, from, close>>

RunMiss ==
  /\ run = "lookup" /\ table[from] = NoConn
  /\ run' = "dial"
  /\ UNCHANGED <<listener, lock, table, conn, client, rpc, from, cur, close>>

\* Mutant: the replyLoop is not started.
RunDial_NoReplyLoop(c) ==
  /\ run = "dial"
  /\ conn[c] = "unused"
  /\ conn' = [conn EXCEPT ![c] = "open"]
  /\ table' = [table EXCEPT ![from] = c]
  /\ client' = [client EXCEPT ![c] = from]
  /\ cur' = c
  /\ lock' = Unlocked
  /\ run' = "write"
  /\ UNCHANGED <<listener, rpc, from, close>>

\* Mutant: the connection is not entered in the table.
RunDial_NoInsert(c) ==
  /\ run = "dial"
  /\ conn[c] = "unused"
  /\ conn' = [conn EXCEPT ![c] = "open"]
  /\ client' = [client EXCEPT ![c] = from]
  /\ rpc' = [rpc EXCEPT ![c] = "read"]
  /\ cur' = c
  /\ lock' = Unlocked
  /\ run' = "write"
  /\ UNCHANGED <<listener, table, from, close>>

\* BackendDial under the lock; the new connection gets its replyLoop.
RunDial(c) ==
  /\ run = "dial"
  /\ conn[c] = "unused"
  /\ conn' = [conn EXCEPT ![c] = "open"]
  /\ table' = [table EXCEPT ![from] = c]
  /\ client' = [client EXCEPT ![c] = from]
  /\ rpc' = [rpc EXCEPT ![c] = "read"]
  /\ cur' = c
  /\ lock' = Unlocked
  /\ run' = "write"
  /\ UNCHANGED <<listener, from, close>>

RunDialFails ==
  /\ run = "dial"
  /\ lock' = Unlocked
  /\ run' = "read"
  /\ UNCHANGED <<listener, table, conn, client, rpc, from, cur, close>>

\* proxyConn.Write without the lock.  Whether it succeeds or fails, the loop
\* goes on.
RunWrite ==
  /\ run = "write"
  /\ run' = "read"
  /\ UNCHANGED <<listener, lock, table, conn, client, rpc, from, cur, close>>

-----------------------------------------------------------------------------
(* replyLoop *)

ReplyRead(c) ==
  /\ rpc[c] = "read" /\ conn[c] = "open"
  /\ rpc' = [rpc EXCEPT ![c] = "reply"]
  /\ UNCHANGED <<listener, lock, table, conn, client, run, from, cur, close>>

\* Read fails: the deadline (UDPConnTrackTimeout) passed or the connection is
\* closed.  ECONNREFUSED is read again and leaves the deadline where it is.
ReplyReadFails(c) ==
  /\ rpc[c] = "read"
  /\ rpc' = [rpc EXCEPT ![c] = "lock"]
  /\ UNCHANGED <<listener, lock, table, conn, client, run, from, cur, close>>

\* Mutant: a failed WriteToUDP does not end the loop.
ReplyWrite_IgnoresError(c) ==
  /\ rpc[c] = "reply"
  /\ rpc' = [rpc EXCEPT ![c] = "read"]
  /\ UNCHANGED <<listener, lock, table, conn, client, run, from, cur, close>>

\* WriteToUDP on the listener.
ReplyWrite(c) ==
  /\ rpc[c] = "reply"
  /\ \/ listener = "open" /\ rpc' = [rpc EXCEPT ![c] = "read"]
     \/ rpc' = [rpc EXCEPT ![c] = "lock"]
  /\ UNCHANGED <<listener, lock, table, conn, client, run, from, cur, close>>

\* The deferred function: lock, delete the entry, unlock, close.
ReplyLock(c) ==
  /\ rpc[c] = "lock" /\ lock = Unlocked
  /\ lock' = ByReply(c)
  /\ rpc' = [rpc EXCEPT ![c] = "delete"]
  /\ UNCHANGED <<listener, table, conn, client, run, from, cur, close>>

ReplyDelete(c) ==
  /\ rpc[c] = "delete"
  /\ table' = [table EXCEPT ![client[c]] = NoConn]
  /\ lock' = Unlocked
  /\ rpc' = [rpc EXCEPT ![c] = "close"]
  /\ UNCHANGED <<listener, conn, client, run, from, cur, close>>

ReplyClose(c) ==
  /\ rpc[c] = "close"
  /\ conn' = [conn EXCEPT ![c] = "closed"]
  /\ rpc' = [rpc EXCEPT ![c] = "done"]
  /\ UNCHANGED <<listener, lock, table, client, run, from, cur, close>>

-----------------------------------------------------------------------------
(* Close *)

CloseListener ==
  /\ close = "idle"
  /\ listener' = "closed"
  /\ close' = "lock"
  /\ UNCHANGED <<lock, table, conn, client, rpc, run, from, cur>>

CloseLock ==
  /\ close = "lock" /\ lock = Unlocked
  /\ lock' = ByClose
  /\ close' = "conns"
  /\ UNCHANGED <<listener, table, conn, client, rpc, run, from, cur>>

CloseConns ==
  /\ close = "conns"
  /\ conn' = [c \in Conns |-> IF \E k \in Clients : table[k] = c THEN "closed" ELSE conn[c]]
  /\ lock' = Unlocked
  /\ close' = "done"
  /\ UNCHANGED <<listener, table, client, rpc, run, from, cur>>

-----------------------------------------------------------------------------
RunStep ==
  \/ RunStart \/ RunReadClosed \/ RunLock \/ RunHit \/ RunMiss
  \/ RunDialFails \/ RunWrite \/ \E c \in Conns : RunDial(c)

ReplyStep(c) ==
  \/ ReplyReadFails(c) \/ ReplyWrite(c) \/ ReplyLock(c) \/ ReplyDelete(c) \/ ReplyClose(c)

CloseStep == CloseLock \/ CloseConns

UDPNext ==
  \/ RunStep \/ RunReadFails \/ CloseStep \/ CloseListener
  \/ \E k \in Clients : RunRead(k)
  \/ \E c \in Conns : ReplyStep(c) \/ ReplyRead(c)

UDPSpec == UDPInit /\ [][UDPNext]_udpVars

(* Goroutines run, and a mutex is eventually handed to who waits for it    *)
(* (strong fairness of the locks: sync.Mutex does not starve a waiter).    *)
(* Traffic and the call of Close are not bound to happen; the read         *)
(* deadline of a replyLoop is bound to pass.                               *)
UDPFairSpec ==
  /\ UDPSpec
  /\ WF_udpVars(RunStep) /\ SF_udpVars(RunLock) /\ SF_udpVars(CloseLock) /\ WF_udpVars(CloseStep)
  /\ \A c \in Conns : WF_udpVars(ReplyStep(c)) /\ SF_udpVars(ReplyLock(c))

-----------------------------------------------------------------------------
(* Properties *)

Owners == {Unlocked, ByRun, ByClose} \cup {ByReply(c) : c \in Conns}

UDPTypeOK ==
  /\ listener \in {"open", "closed"}
  /\ lock \in Owners
  /\ table \in [Clients -> Conns \cup {NoConn}]
  /\ conn \in [Conns -> {"unused", "open", "closed"}]
  /\ client \in [Conns -> Clients \cup {NoClient}]
  /\ rpc \in [Conns -> {"off", "read", "reply", "lock", "delete", "close", "done"}]
  /\ run \in {"start", "read", "lock", "lookup", "dial", "write", "stopped"}
  /\ from \in Clients \cup {NoClient}
  /\ cur \in Conns \cup {NoConn}
  /\ close \in {"idle", "lock", "conns", "done"}

\* A replyLoop that has not removed its table entry yet.
Tracking(c) == rpc[c] \in {"read", "reply", "lock", "delete"}

(* Every entry of the table has its own replyLoop, which will remove it:   *)
(* an entry never outlives its replyLoop, so a client can not be stuck     *)
(* with a connection that nobody reads (udp_proxy.go:57-63, 111-121).      *)
EntryHasReplyLoop ==
  \A k \in Clients : table[k] # NoConn => Tracking(table[k]) /\ client[table[k]] = k

(* A replyLoop deletes by key, without looking whose entry it is           *)
(* (udp_proxy.go:60).  It is always its own: a replyLoop that expires      *)
(* never removes the connection a later datagram made.                     *)
DeletesOwnEntry == \A c \in Conns : Tracking(c) => table[client[c]] = c

(* Run writes the datagram of a client to a connection that was dialed for *)
(* that client, although it does so after it gave up the lock              *)
(* (udp_proxy.go:122).  The replies of a connection go to its client only. *)
NoCrossTalk == run = "write" => client[cur] = from

(* Close releases everything: once it is called, all connections are       *)
(* eventually closed, the one that Run was dialing included                *)
(* (udp_proxy.go:57-89, 133).                                              *)
CloseReleases == (close = "done") ~> (\A c \in Conns : conn[c] # "open")
=============================================================================
