----------------------------- MODULE TCPForward -----------------------------
(***************************************************************************)
(* One TCP connection through the builtin port driver: copyConnToChild     *)
(* asks the child for a connection to the target, over .bp.sock and with   *)
(* retries; the child dials and passes the descriptor back (SCM_RIGHTS);   *)
(* bicopy then copies both directions until they have ended or the port is *)
(* removed.  The content of the stream is a count of chunks.               *)
(***************************************************************************)
EXTENDS Naturals

CONSTANTS
  Retries,  \* retries of ConnectToChildWithRetry (10 in the code)
  MaxSend   \* bound on the chunks each end sends

ASSUME TCPAssumption == Retries \in Nat \ {0} /\ MaxSend \in Nat

Tries == 1..Retries
Dirs  == {"up", "down"}  \* client to target, target to client

VARIABLES
  pc,      \* copyConnToChild
  try,     \* the attempt it is at
  req,     \* req[k]: the child's goroutine for the request of attempt k
  held,    \* held[k]: who refers to the target connection of attempt k
  stop,    \* stopCh is closed: the port is being removed
  open,    \* the parent's two connections are open
  broker,  \* the copying goroutine of each direction
  hold,    \* chunks it has read and not yet written
  sent, eof,    \* what the source has sent, and whether it ended its stream
  got, gotEOF,  \* what the destination has received
  reads,   \* the destination takes data: its window is open
  broken   \* a direction ended with an error

callVars   == <<pc, try, req, held>>
streamVars == <<broker, hold, sent, eof, got, gotEOF, reads, broken>>
vars == <<pc, try, req, held, stop, open, broker, hold, sent, eof, got, gotEOF, reads, broken>>

Init ==
  /\ pc = "dial" /\ try = 1
  /\ req = [k \in Tries |-> "none"] /\ held = [k \in Tries |-> {}]
  /\ stop = FALSE /\ open = TRUE
  /\ broker = [d \in Dirs |-> "off"] /\ hold = [d \in Dirs |-> 0]
  /\ sent = [d \in Dirs |-> 0] /\ eof = [d \in Dirs |-> FALSE]
  /\ got = [d \in Dirs |-> 0] /\ gotEOF = [d \in Dirs |-> FALSE]
  /\ reads = [d \in Dirs |-> TRUE] /\ broken = FALSE

\* RemovePort closes stopCh.
Stop ==
  /\ ~stop /\ stop' = TRUE
  /\ UNCHANGED <<callVars, open, streamVars>>

-----------------------------------------------------------------------------
(* ConnectToChildWithRetry *)

\* The attempt has failed: the last one returns the error, and
\* copyConnToChild closes the client's connection.
Retry ==
  IF try = Retries THEN pc' = "failed" /\ open' = FALSE /\ UNCHANGED try
                   ELSE pc' = "dial" /\ try' = try + 1 /\ UNCHANGED open

\* Dial .bp.sock and write the request.
SendRequest ==
  /\ pc = "dial"
  /\ pc' = "wait" /\ req' = [req EXCEPT ![try] = "asked"]
  /\ UNCHANGED <<try, held, stop, open, streamVars>>

SendRequestFails ==
  /\ pc = "dial"
  /\ Retry
  /\ UNCHANGED <<req, held, stop, streamVars>>

\* The message with the descriptor arrives.  An error of the CloseRead that follows
\* would lose the descriptor (msg.go:119-121), but shutdown(2) of a connected UNIX
\* socket has no error to return.
ReceiveFD ==
  /\ pc = "wait" /\ "flight" \in held[try]
  /\ held' = [held EXCEPT ![try] = (@ \ {"flight"}) \cup {"parent"}]
  /\ pc' = "file"
  /\ UNCHANGED <<try, req, stop, open, streamVars>>

\* A reply without a descriptor: the child reports an error, or the parent
\* has no descriptor to spare and the kernel drops the one in the message.
ReceiveNoFD ==
  /\ pc = "wait"
  /\ req[try] = "error" \/ "flight" \in held[try]
  /\ held' = [held EXCEPT ![try] = @ \ {"flight"}]
  /\ Retry
  /\ UNCHANGED <<req, stop, streamVars>>

(* The child: routine and handleConnectRequest *)

\* transparentDial and, if it fails or does not apply, Dial.
ChildDial(k) ==
  /\ req[k] = "asked"
  /\ req' = [req EXCEPT ![k] = "dialed"]
  /\ held' = [held EXCEPT ![k] = {"child"}]
  /\ UNCHANGED <<pc, try, stop, open, streamVars>>

ChildDialFails(k) ==
  /\ req[k] = "asked"
  /\ req' = [req EXCEPT ![k] = "error"]
  /\ UNCHANGED <<pc, try, held, stop, open, streamVars>>

\* Sendmsg with the duplicated descriptor.
ChildSendFD(k) ==
  /\ req[k] = "dialed"
  /\ req' = [req EXCEPT ![k] = "sent"]
  /\ held' = [held EXCEPT ![k] = @ \cup {"flight"}]
  /\ UNCHANGED <<pc, try, stop, open, streamVars>>

\* File or Sendmsg fails.
ChildSendFails(k) ==
  /\ req[k] = "dialed"
  /\ req' = [req EXCEPT ![k] = "refused"]
  /\ UNCHANGED <<pc, try, held, stop, open, streamVars>>

\* The deferred calls close the child's descriptors; an error is replied.
ChildReturns(k) ==
  /\ req[k] \in {"sent", "refused"}
  /\ req' = [req EXCEPT ![k] = IF req[k] = "sent" THEN "done" ELSE "error"]
  /\ held' = [held EXCEPT ![k] = @ \ {"child"}]
  /\ UNCHANGED <<pc, try, stop, open, streamVars>>

-----------------------------------------------------------------------------
(* copyConnToChild and bicopy *)

\* net.FileConn; the two brokers start.
FileConn ==
  /\ pc = "file"
  /\ pc' = "copy"
  /\ broker' = [d \in Dirs |-> "copy"]
  /\ UNCHANGED <<try, req, held, stop, open, hold, sent, eof, got, gotEOF, reads, broken>>

\* Mutant: f.Close() is missing.
FileConnFails_Leaks ==
  /\ pc = "file"
  /\ pc' = "failed" /\ open' = FALSE
  /\ UNCHANGED <<try, req, held, stop, streamVars>>

FileConnFails ==
  /\ pc = "file"
  /\ pc' = "failed" /\ open' = FALSE
  /\ held' = [held EXCEPT ![try] = @ \ {"parent"}]
  /\ UNCHANGED <<try, req, stop, streamVars>>

BrokerRead(d) ==
  /\ broker[d] = "copy" /\ open
  /\ hold[d] = 0 /\ got[d] < sent[d]
  /\ hold' = [hold EXCEPT ![d] = 1]
  /\ UNCHANGED <<callVars, stop, open, broker, sent, eof, got, gotEOF, reads, broken>>

\* Write returns once the destination has taken the data.
BrokerWrite(d) ==
  /\ broker[d] = "copy" /\ open
  /\ hold[d] = 1 /\ reads[d]
  /\ hold' = [hold EXCEPT ![d] = 0] /\ got' = [got EXCEPT ![d] = @ + 1]
  /\ UNCHANGED <<callVars, stop, open, broker, sent, eof, gotEOF, reads, broken>>

\* io.Copy has seen the end of the stream: CloseRead, CloseWrite, wg.Done.
BrokerEOF(d) ==
  /\ broker[d] = "copy" /\ open
  /\ hold[d] = 0 /\ got[d] = sent[d] /\ eof[d]
  /\ broker' = [broker EXCEPT ![d] = "end"]
  /\ gotEOF' = [gotEOF EXCEPT ![d] = TRUE]
  /\ UNCHANGED <<callVars, stop, open, hold, sent, eof, got, reads, broken>>

\* A read or write fails.
BrokerError(d) ==
  /\ broker[d] = "copy" /\ open
  /\ broker' = [broker EXCEPT ![d] = "end"]
  /\ gotEOF' = [gotEOF EXCEPT ![d] = TRUE]
  /\ broken' = TRUE
  /\ UNCHANGED <<callVars, stop, open, hold, sent, eof, got, reads>>

\* The connections are closed under the broker.
BrokerClosed(d) ==
  /\ broker[d] = "copy" /\ ~open
  /\ broker' = [broker EXCEPT ![d] = "end"]
  /\ UNCHANGED <<callVars, stop, open, hold, sent, eof, got, gotEOF, reads, broken>>

Finished == \A d \in Dirs : broker[d] = "end"

\* Mutant: bicopy does not look at quit.
CloseBoth_IgnoresQuit ==
  /\ pc = "copy"
  /\ Finished
  /\ pc' = "drain" /\ open' = FALSE
  /\ gotEOF' = [d \in Dirs |-> TRUE]
  /\ UNCHANGED <<try, req, held, stop, broker, hold, sent, eof, got, reads, broken>>

\* Mutant: bicopy waits for one broker only.
CloseBoth_WaitsForOne ==
  /\ pc = "copy"
  /\ stop \/ \E d \in Dirs : broker[d] = "end"
  /\ pc' = "drain" /\ open' = FALSE
  /\ gotEOF' = [d \in Dirs |-> TRUE]
  /\ UNCHANGED <<try, req, held, stop, broker, hold, sent, eof, got, reads, broken>>

\* The select of bicopy: quit or finish; then both connections are closed.
CloseBoth ==
  /\ pc = "copy"
  /\ stop \/ Finished
  /\ pc' = "drain" /\ open' = FALSE
  /\ gotEOF' = [d \in Dirs |-> TRUE]
  /\ UNCHANGED <<try, req, held, stop, broker, hold, sent, eof, got, reads, broken>>

\* <-finish, and the deferred calls of copyConnToChild.
CopyReturns ==
  /\ pc = "drain" /\ Finished
  /\ pc' = "done"
  /\ held' = [held EXCEPT ![try] = @ \ {"parent"}]
  /\ UNCHANGED <<try, req, stop, open, streamVars>>

(* The two ends: the client from the start, the target once it is dialed. *)

Produce(d) ==
  /\ open /\ ~eof[d] /\ sent[d] < MaxSend
  /\ d = "down" => broker[d] # "off"
  /\ sent' = [sent EXCEPT ![d] = @ + 1]
  /\ UNCHANGED <<callVars, stop, open, broker, hold, eof, got, gotEOF, reads, broken>>

EndStream(d) ==
  /\ open /\ ~eof[d]
  /\ d = "down" => broker[d] # "off"
  /\ eof' = [eof EXCEPT ![d] = TRUE]
  /\ UNCHANGED <<callVars, stop, open, broker, hold, sent, got, gotEOF, reads, broken>>

\* A destination stops reading, for a while or for good; it matters to the broker.
Stall(d) ==
  /\ broker[d] = "copy" /\ open
  /\ reads' = [reads EXCEPT ![d] = ~@]
  /\ UNCHANGED <<callVars, stop, open, broker, hold, sent, eof, got, gotEOF, broken>>

-----------------------------------------------------------------------------
ParentStep ==
  \/ SendRequest \/ SendRequestFails \/ ReceiveFD \/ ReceiveNoFD
  \/ FileConn \/ FileConnFails \/ CloseBoth \/ CopyReturns

ChildStep(k) ==
  ChildDial(k) \/ ChildDialFails(k) \/ ChildSendFD(k) \/ ChildSendFails(k) \/ ChildReturns(k)

BrokerStep(d) == BrokerRead(d) \/ BrokerWrite(d) \/ BrokerEOF(d) \/ BrokerClosed(d)

Next ==
  \/ Stop \/ ParentStep
  \/ \E k \in Tries : ChildStep(k)
  \/ \E d \in Dirs : BrokerStep(d) \/ BrokerError(d) \/ Produce(d) \/ EndStream(d) \/ Stall(d)

Spec == Init /\ [][Next]_vars

(* The goroutines run, and a dial ends.  Nothing is assumed of the client  *)
(* and the target, which need not read what they are sent, of RemovePort   *)
(* and of connections that break.                                          *)
FairSpec ==
  /\ Spec /\ WF_vars(ParentStep)
  /\ \A k \in Tries : WF_vars(ChildStep(k))
  /\ \A d \in Dirs : WF_vars(BrokerStep(d))

-----------------------------------------------------------------------------
(* Properties *)

TypeOK ==
  /\ pc \in {"dial", "wait", "file", "copy", "drain", "done", "failed"}
  /\ try \in Tries
  /\ req \in [Tries -> {"none", "asked", "dialed", "sent", "refused", "error", "done"}]
  /\ held \in [Tries -> SUBSET {"child", "flight", "parent"}]
  /\ stop \in BOOLEAN /\ open \in BOOLEAN
  /\ broker \in [Dirs -> {"off", "copy", "end"}] /\ hold \in [Dirs -> {0, 1}]
  /\ sent \in [Dirs -> 0..MaxSend] /\ eof \in [Dirs -> BOOLEAN]
  /\ got \in [Dirs -> 0..MaxSend] /\ gotEOF \in [Dirs -> BOOLEAN]
  /\ reads \in [Dirs -> BOOLEAN] /\ broken \in BOOLEAN

(* The end of one direction does not cut the other: unless the port is     *)
(* removed or a connection breaks, an end sees the end of the stream only  *)
(* after the other has ended it and everything sent has arrived            *)
(* (tcp.go:79-108).                                                        *)
HalfCloseDrains ==
  ~stop /\ ~broken => \A d \in Dirs : gotEOF[d] => eof[d] /\ got[d] = sent[d]

(* No retry and no error leaves a descriptor behind: the parent holds the  *)
(* connection of its current attempt, while it works on it, and no other   *)
(* (tcp.go:59-75, msg.go:76-152).                                          *)
DescriptorIsUsed ==
  \A k \in Tries : "parent" \in held[k] => k = try /\ pc \in {"file", "copy", "drain"}

(* The goroutine has ended and no connection to the target is left.        *)
Ended == pc \in {"done", "failed"} /\ \A k \in Tries : held[k] = {}

(* Something was read for a destination that does not read.                *)
Stuck == \E d \in Dirs : broker[d] = "copy" /\ hold[d] = 1 /\ ~reads[d]

(* When the port is removed the goroutine ends and every connection to the *)
(* target is closed, whatever attempts were needed to make it, even from   *)
(* under a Write that is blocked.  Without that, it ends when both streams *)
(* have ended, unless a Write waits for an end that does not read, which   *)
(* no timeout cuts short (tcp.go:59-108, child.go:118-206).                *)
ForwardEnds ==
  /\ stop ~> Ended
  /\ (\A d \in Dirs : eof[d]) ~> (Ended \/ Stuck)
=============================================================================
