--------------------------- MODULE ForwardProofs ---------------------------
(***************************************************************************)
(* Proofs about the two ways in which the builtin driver forwards: a TCP   *)
(* connection, for any number of attempts and any amount of data, and the  *)
(* UDP proxy, for any sets of clients and connections.                     *)
(***************************************************************************)
EXTENDS TCPForward, UDPProxy, TLAPS

-----------------------------------------------------------------------------
(* TCP: one connection. *)

(* Where copyConnToChild is decides whether its two connections are open   *)
(* and whether the brokers have been started.                              *)
PhaseInv ==
  /\ open <=> pc \in {"dial", "wait", "file", "copy"}
  /\ \A d \in Dirs : broker[d] = "off" <=> pc \in {"dial", "wait", "file", "failed"}
  /\ pc = "failed" => \A d \in Dirs : ~gotEOF[d]

(* A chunk that a broker holds has been sent and not yet received.         *)
ChunkInv == \A d \in Dirs : got[d] + hold[d] <= sent[d]

(* An end of stream is written by a broker that ends, or by CloseBoth; a   *)
(* connection is closed under a broker only when the port is removed; and  *)
(* without that, and without errors, a broker ends at the end of a stream  *)
(* that has been copied completely.                                        *)
StreamInv ==
  \A d \in Dirs :
    /\ gotEOF[d] => broker[d] = "end" \/ ~open
    /\ broker[d] = "copy" /\ ~open => stop
    /\ broker[d] = "end" /\ ~stop /\ ~broken => eof[d] /\ got[d] = sent[d]

TCPInv == TypeOK /\ PhaseInv /\ ChunkInv /\ StreamInv /\ DescriptorIsUsed

-----------------------------------------------------------------------------
(* An attempt fails, and the next one begins or the error is returned: the *)
(* parent holds no descriptor at that point (msg.go:137-152).              *)
LEMMA RetryPreserves ==
  ASSUME TCPInv, pc \in {"dial", "wait"}, Retry, UNCHANGED <<req, stop, streamVars>>,
         held' \in [Tries -> SUBSET {"child", "flight", "parent"}],
         \A k \in Tries : held'[k] \subseteq held[k]
  PROVE  TCPInv'
<1> USE DEF TCPInv, Dirs, streamVars
<1>1. /\ pc' \in {"dial", "failed"} /\ try' \in Tries
      /\ open' <=> pc' = "dial"
  BY TCPAssumption DEF Retry, TypeOK, PhaseInv, Tries
<1>2. \A d \in Dirs : broker[d] = "off" /\ ~gotEOF[d]
  BY DEF PhaseInv, StreamInv
<1>3. TypeOK'
  <2>1. open' \in BOOLEAN
    BY DEF Retry, TypeOK
  <2> QED
    BY <1>1, <2>1 DEF TypeOK
<1>4. DescriptorIsUsed'
  BY DEF DescriptorIsUsed
<1>5. PhaseInv' /\ ChunkInv' /\ StreamInv'
  BY <1>1, <1>2 DEF PhaseInv, ChunkInv, StreamInv
<1> QED
  BY <1>3, <1>4, <1>5

(* The attempts of ConnectToChildWithRetry (msg.go:76-152).                *)
LEMMA AttemptPreserves ==
  ASSUME TCPInv, SendRequest \/ SendRequestFails \/ ReceiveFD \/ ReceiveNoFD
  PROVE  TCPInv'
<1> USE TCPAssumption DEF TCPInv, TypeOK, PhaseInv, ChunkInv, StreamInv, DescriptorIsUsed, Tries, Dirs, streamVars
<1>1. CASE SendRequest
  BY <1>1 DEF SendRequest
<1>2. CASE SendRequestFails
  BY <1>2, RetryPreserves DEF SendRequestFails
<1>3. CASE ReceiveFD
  BY <1>3 DEF ReceiveFD
<1>4. CASE ReceiveNoFD
  <2>1. /\ held' \in [Tries -> SUBSET {"child", "flight", "parent"}]
        /\ \A k \in Tries : held'[k] \subseteq held[k]
    BY <1>4 DEF ReceiveNoFD
  <2> QED
    BY <1>4, <2>1, RetryPreserves DEF ReceiveNoFD
<1> QED
  BY <1>1, <1>2, <1>3, <1>4

(* handleConnectRequest changes who holds the target's connection, never   *)
(* what the parent holds (builtin/child/child.go:118-206).                 *)
LEMMA ChildPreserves ==
  ASSUME TCPInv, NEW k \in Tries, ChildStep(k)
  PROVE  TCPInv'
<1> USE TCPAssumption DEF TCPInv, TypeOK, PhaseInv, ChunkInv, StreamInv, DescriptorIsUsed, Dirs, streamVars
<1>1. CASE ChildDial(k)
  BY <1>1 DEF ChildDial
<1>2. CASE ChildDialFails(k)
  BY <1>2 DEF ChildDialFails
<1>3. CASE ChildSendFD(k)
  BY <1>3 DEF ChildSendFD
<1>4. CASE ChildSendFails(k)
  BY <1>4 DEF ChildSendFails
<1>5. CASE ChildReturns(k)
  BY <1>5 DEF ChildReturns
<1> QED
  BY <1>1, <1>2, <1>3, <1>4, <1>5 DEF ChildStep

(* copyConnToChild and the select of bicopy (tcp.go:59-108).               *)
LEMMA CopyPreserves ==
  ASSUME TCPInv, FileConn \/ FileConnFails \/ CloseBoth \/ CopyReturns
  PROVE  TCPInv'
<1> USE TCPAssumption DEF TCPInv, TypeOK, PhaseInv, ChunkInv, StreamInv, DescriptorIsUsed, Dirs, streamVars
<1>1. CASE FileConn
  BY <1>1 DEF FileConn
<1>2. CASE FileConnFails
  BY <1>2 DEF FileConnFails
<1>3. CASE CloseBoth
  BY <1>3 DEF CloseBoth, Finished
<1>4. CASE CopyReturns
  BY <1>4 DEF CopyReturns, Finished
<1> QED
  BY <1>1, <1>2, <1>3, <1>4

(* The goroutines that copy one direction (tcp.go:81-90).                  *)
LEMMA BrokerPreserves ==
  ASSUME TCPInv, NEW d \in Dirs, BrokerStep(d) \/ BrokerError(d)
  PROVE  TCPInv'
<1> USE TCPAssumption DEF TCPInv, TypeOK, PhaseInv, ChunkInv, StreamInv, DescriptorIsUsed, Dirs, callVars
<1>1. CASE BrokerRead(d)
  BY <1>1 DEF BrokerRead
<1>2. CASE BrokerWrite(d)
  BY <1>2 DEF BrokerWrite
<1>3. CASE BrokerEOF(d)
  BY <1>3 DEF BrokerEOF
<1>4. CASE BrokerError(d)
  BY <1>4 DEF BrokerError
<1>5. CASE BrokerClosed(d)
  BY <1>5 DEF BrokerClosed
<1> QED
  BY <1>1, <1>2, <1>3, <1>4, <1>5 DEF BrokerStep

(* The client, the target and RemovePort (parent.go:150-153).              *)
LEMMA OutsidePreserves ==
  ASSUME TCPInv, Stop \/ \E d \in Dirs : Produce(d) \/ EndStream(d) \/ Stall(d)
  PROVE  TCPInv'
<1> USE TCPAssumption DEF TCPInv, TypeOK, PhaseInv, ChunkInv, StreamInv, DescriptorIsUsed, Dirs, callVars
<1>1. CASE Stop
  BY <1>1 DEF Stop, streamVars
<1>2. ASSUME NEW d \in Dirs, Produce(d) PROVE TCPInv'
  BY <1>2 DEF Produce
<1>3. ASSUME NEW d \in Dirs, EndStream(d) PROVE TCPInv'
  BY <1>3 DEF EndStream
<1>4. ASSUME NEW d \in Dirs, Stall(d) PROVE TCPInv'
  <2>1. reads' \in [Dirs -> BOOLEAN]
    BY <1>4, Zenon DEF Stall
  <2> QED
    BY <1>4, <2>1 DEF Stall
<1> QED
  BY <1>1, <1>2, <1>3, <1>4

-----------------------------------------------------------------------------
(* The inductive invariant of copyConnToChild, bicopy and the child's      *)
(* goroutines (tcp.go:59-108).                                             *)
THEOREM TCPInvariant == Spec => []TCPInv
<1>1. Init => TCPInv
  <2> SUFFICES ASSUME Init PROVE TCPInv
    OBVIOUS
  <2>1. TypeOK
    <3>1. 1 \in Tries /\ 0 \in 0..MaxSend
      BY TCPAssumption DEF Tries
    <3>2. stop \in BOOLEAN /\ open \in BOOLEAN /\ broken \in BOOLEAN
      BY Zenon DEF Init
    <3>3. /\ eof \in [Dirs -> BOOLEAN] /\ gotEOF \in [Dirs -> BOOLEAN] /\ reads \in [Dirs -> BOOLEAN]
          /\ sent \in [Dirs -> 0..MaxSend] /\ got \in [Dirs -> 0..MaxSend]
      BY <3>1, Zenon DEF Init
    <3> QED
      BY <3>1, <3>2, <3>3 DEF Init, TypeOK
  <2>2. PhaseInv /\ ChunkInv /\ StreamInv /\ DescriptorIsUsed
    BY DEF Init, PhaseInv, ChunkInv, StreamInv, DescriptorIsUsed
  <2> QED
    BY <2>1, <2>2 DEF TCPInv
<1>2. TCPInv /\ [Next]_vars => TCPInv'
  <2> SUFFICES ASSUME TCPInv, [Next]_vars PROVE TCPInv'
    OBVIOUS
  <2>1. CASE ParentStep
    BY <2>1, AttemptPreserves, CopyPreserves DEF ParentStep
  <2>2. CASE \E k \in Tries : ChildStep(k)
    BY <2>2, ChildPreserves
  <2>3. CASE \E d \in Dirs : BrokerStep(d) \/ BrokerError(d)
    BY <2>3, BrokerPreserves
  <2>4. CASE Stop \/ \E d \in Dirs : Produce(d) \/ EndStream(d) \/ Stall(d)
    BY <2>4, OutsidePreserves
  <2>5. CASE UNCHANGED vars
    BY <2>5 DEF vars, TCPInv, TypeOK, PhaseInv, ChunkInv, StreamInv, DescriptorIsUsed
  <2> QED
    BY <2>1, <2>2, <2>3, <2>4, <2>5 DEF Next
<1> QED
  BY <1>1, <1>2, PTL DEF Spec

(* Type correctness: no attempt beyond the last, no chunk from nowhere.    *)
THEOREM TCPTypeOK == Spec => []TypeOK
  BY TCPInvariant, PTL DEF TCPInv

(* The end of one direction does not cut the other (tcp.go:79-108).        *)
THEOREM TCPHalfCloseDrains == Spec => []HalfCloseDrains
<1>1. TCPInv => HalfCloseDrains
  BY DEF TCPInv, TypeOK, PhaseInv, StreamInv, HalfCloseDrains
<1> QED
  BY <1>1, TCPInvariant, PTL

(* No retry and no error leaves a descriptor behind (tcp.go:59-75,         *)
(* msg.go:76-152).                                                         *)
THEOREM TCPDescriptorIsUsed == Spec => []DescriptorIsUsed
  BY TCPInvariant, PTL DEF TCPInv

-----------------------------------------------------------------------------
(* UDP: the connection tracking table. *)

(* A replyLoop that tracks a connection knows its client, and its entry is *)
(* there.                                                                  *)
TrackedEntry ==
  \A c \in Conns : Tracking(c) => client[c] \in Clients /\ table[client[c]] = c

(* A connection that was not dialed has no replyLoop. *)
UnusedIdle == \A c \in Conns : conn[c] = "unused" => rpc[c] = "off"

(* What Run knows at each of its steps. *)
RunKnows ==
  /\ run = "start" => \A c \in Conns : rpc[c] = "off"
  /\ run \in {"lock", "lookup", "dial", "write"} => from \in Clients
  /\ run = "dial" => table[from] = NoConn
  /\ run = "write" => cur \in Conns /\ client[cur] = from

(* The inductive invariant. *)
UDPInv == UDPTypeOK /\ EntryHasReplyLoop /\ TrackedEntry /\ UnusedIdle /\ RunKnows

(* Run step by step: what it does to the table keeps the invariant. *)
LEMMA RunKeeps ==
  ASSUME UDPInv, RunStep \/ RunReadFails \/ \E k \in Clients : RunRead(k)
  PROVE  UDPInv'
<1> USE UDPAssumption DEF UDPInv, UDPTypeOK, EntryHasReplyLoop, TrackedEntry, UnusedIdle,
        RunKnows, Tracking, Owners
<1>1. CASE RunStart
  BY <1>1 DEF RunStart
<1>2. CASE RunReadClosed \/ RunReadFails
  BY <1>2 DEF RunReadClosed, RunReadFails
<1>3. CASE RunLock
  BY <1>3 DEF RunLock
<1>4. CASE RunHit
  BY <1>4 DEF RunHit
<1>5. CASE RunMiss
  BY <1>5 DEF RunMiss
<1>6. CASE RunDialFails
  BY <1>6 DEF RunDialFails
<1>7. CASE RunWrite
  BY <1>7 DEF RunWrite
<1>8. ASSUME NEW k \in Clients, RunRead(k) PROVE UDPInv'
  BY <1>8 DEF RunRead
<1>9. ASSUME NEW c \in Conns, RunDial(c) PROVE UDPInv'
  <2>1. UDPTypeOK'
    BY <1>9 DEF RunDial
  <2>2. EntryHasReplyLoop'
    BY <1>9 DEF RunDial
  <2>3. TrackedEntry'
    BY <1>9 DEF RunDial
  <2>4. UnusedIdle' /\ RunKnows'
    BY <1>9 DEF RunDial
  <2> QED BY <2>1, <2>2, <2>3, <2>4
<1> QED
  BY <1>1, <1>2, <1>3, <1>4, <1>5, <1>6, <1>7, <1>8, <1>9 DEF RunStep

(* A step of a replyLoop. *)
LEMMA ReplyKeeps ==
  ASSUME UDPInv, NEW c \in Conns, ReplyStep(c) \/ ReplyRead(c)
  PROVE  UDPInv'
<1> USE UDPAssumption DEF UDPInv, UDPTypeOK, EntryHasReplyLoop, TrackedEntry, UnusedIdle,
        RunKnows, Tracking, Owners
<1>1. CASE ReplyRead(c) \/ ReplyReadFails(c)
  BY <1>1 DEF ReplyRead, ReplyReadFails
<1>2. CASE ReplyWrite(c)
  BY <1>2 DEF ReplyWrite
<1>3. CASE ReplyLock(c)
  BY <1>3 DEF ReplyLock
<1>4. CASE ReplyDelete(c)
  <2>1. client[c] \in Clients /\ table[client[c]] = c
    BY <1>4 DEF ReplyDelete
  <2>2. UDPTypeOK'
    BY <1>4, <2>1 DEF ReplyDelete
  <2>3. EntryHasReplyLoop'
    BY <1>4, <2>1 DEF ReplyDelete
  <2>4. TrackedEntry'
    BY <1>4, <2>1 DEF ReplyDelete
  <2>5. UnusedIdle' /\ RunKnows'
    BY <1>4, <2>1 DEF ReplyDelete
  <2> QED BY <2>2, <2>3, <2>4, <2>5
<1>5. CASE ReplyClose(c)
  BY <1>5 DEF ReplyClose
<1> QED
  BY <1>1, <1>2, <1>3, <1>4, <1>5 DEF ReplyStep

(* A step of Close. *)
LEMMA CloseKeeps ==
  ASSUME UDPInv, CloseListener \/ CloseStep
  PROVE  UDPInv'
<1> USE UDPAssumption DEF UDPInv, UDPTypeOK, EntryHasReplyLoop, TrackedEntry, UnusedIdle,
        RunKnows, Tracking, Owners
<1>1. CASE CloseListener
  BY <1>1 DEF CloseListener
<1>2. CASE CloseLock
  BY <1>2 DEF CloseLock
<1>3. CASE CloseConns
  BY <1>3 DEF CloseConns
<1> QED
  BY <1>1, <1>2, <1>3 DEF CloseStep

(* The invariant holds in every reachable state of the proxy.              *)
THEOREM UDPInvariant == UDPSpec => []UDPInv
<1>1. UDPInit => UDPInv
  BY UDPAssumption DEF UDPInit, UDPInv, UDPTypeOK, EntryHasReplyLoop, TrackedEntry, UnusedIdle,
     RunKnows, Tracking, Owners
<1>2. UDPInv /\ [UDPNext]_udpVars => UDPInv'
  <2> SUFFICES ASSUME UDPInv, [UDPNext]_udpVars PROVE UDPInv'
    OBVIOUS
  <2>1. CASE UNCHANGED udpVars
    BY <2>1 DEF udpVars, UDPInv, UDPTypeOK, EntryHasReplyLoop, TrackedEntry, UnusedIdle,
       RunKnows, Tracking
  <2>2. CASE UDPNext
    BY <2>2, RunKeeps, ReplyKeeps, CloseKeeps DEF UDPNext
  <2> QED BY <2>1, <2>2
<1> QED BY <1>1, <1>2, PTL DEF UDPSpec

(* Types.                                                                  *)
THEOREM UDPTypesHold == UDPSpec => []UDPTypeOK
<1>1. UDPInv => UDPTypeOK
  BY DEF UDPInv
<1> QED BY <1>1, UDPInvariant, PTL

(* An entry of the connection tracking table never outlives its replyLoop. *)
THEOREM EntriesAreOwned == UDPSpec => []EntryHasReplyLoop
<1>1. UDPInv => EntryHasReplyLoop
  BY DEF UDPInv
<1> QED BY <1>1, UDPInvariant, PTL

(* A replyLoop that expires deletes its own entry and no other, although   *)
(* udp_proxy.go:60 deletes by key.                                         *)
THEOREM DeleteIsOwn == UDPSpec => []DeletesOwnEntry
<1>1. UDPInv => DeletesOwnEntry
  BY DEF UDPInv, TrackedEntry, DeletesOwnEntry
<1> QED BY <1>1, UDPInvariant, PTL

(* The datagrams of a client only go to a connection dialed for it.        *)
THEOREM ClientsAreSeparate == UDPSpec => []NoCrossTalk
<1>1. UDPInv => NoCrossTalk
  BY DEF UDPInv, RunKnows, NoCrossTalk
<1> QED BY <1>1, UDPInvariant, PTL
=============================================================================
