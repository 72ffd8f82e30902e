------------------------------- MODULE Framing -------------------------------
(***************************************************************************)
(* pkg/lowlevelmsgutil and the Send, Recv and WaitFor of pkg/messages: a   *)
(* message is a header with its length and a body, written with one Write  *)
(* and read with one Read for the header and one for the body.  The stream *)
(* is a pipe: a Write larger than the room left blocks after a part, and a *)
(* Read returns what is there.                                             *)
(***************************************************************************)
EXTENDS Integers, Sequences

CONSTANTS
  HeaderLen,  \* 4 in the code
  MaxLength,  \* maxLength, 1<<16
  PipeCap,    \* capacity of a pipe, 1<<16 on Linux
  Lengths,    \* body lengths that the sender tries; the encoding of a message is never empty
  MaxMsgs     \* bound on the number of messages

ASSUME FramingAssumption ==
  /\ HeaderLen \in Nat \ {0} /\ MaxLength \in Nat /\ PipeCap \in Nat
  /\ Lengths \subseteq Nat \ {0} /\ MaxMsgs \in Nat

VARIABLES
  lens,     \* lens[k]: the length of the k-th message that was sent
  start,    \* history: start[k], how many bytes were sent before the k-th message
  rest,     \* bytes of the last message that Write has not written yet
  sender,   \* "up", or "failed": MarshalToWriter returned an error
  pipe,     \* bytes <<k, i>> in the pipe: byte i of message k, the header first
  expect,   \* bLen, once the header is read; 0: the next Read is for a header
  receiver, \* "up", or "failed": UnmarshalFromReader returned an error
  received  \* the bodies received

frameVars == <<lens, start, rest, sender, pipe, expect, receiver, received>>

Quiet ==
  /\ lens = <<>> /\ start = <<>> /\ rest = <<>> /\ sender = "up" /\ pipe = <<>>
  /\ expect = 0 /\ receiver = "up" /\ received = <<>>

Least(m, n) == IF m <= n THEN m ELSE n
BytesSent == IF lens = <<>> THEN 0 ELSE start[Len(lens)] + HeaderLen + lens[Len(lens)]
Message(k, n) == [i \in 1..(HeaderLen + n) |-> <<k, i>>]

\* MarshalToWriter: too long a message is refused before anything is written.
MarshalToWriter(n) ==
  /\ sender = "up" /\ rest = <<>> /\ Len(lens) < MaxMsgs
  /\ IF n > MaxLength THEN sender' = "failed" /\ UNCHANGED <<lens, start, rest>>
     ELSE /\ lens' = Append(lens, n)
          /\ start' = Append(start, BytesSent)
          /\ rest' = Message(Len(lens) + 1, n)
          /\ UNCHANGED sender
  /\ UNCHANGED <<pipe, expect, receiver, received>>

\* The kernel copies all that fits before a reader gets at the pipe.
Write ==
  LET n == Least(Len(rest), PipeCap - Len(pipe))
  IN /\ n > 0
     /\ pipe' = pipe \o SubSeq(rest, 1, n)
     /\ rest' = SubSeq(rest, n + 1, Len(rest))
     /\ UNCHANGED <<lens, start, sender, expect, receiver, received>>

\* The length that four bytes of the stream stand for, if they are a header.
IsHeader(b) == \E k \in DOMAIN lens : b = SubSeq(Message(k, lens[k]), 1, HeaderLen)
HeaderOf(b) == lens[b[1][1]]

Fail == receiver' = "failed" /\ UNCHANGED <<expect, received>>

\* The first Read of UnmarshalFromReader, and the checks of the length.
ReadHeader ==
  LET n == Least(HeaderLen, Len(pipe))
      hdr == SubSeq(pipe, 1, n)
  IN /\ receiver = "up" /\ expect = 0 /\ n > 0
     /\ pipe' = SubSeq(pipe, n + 1, Len(pipe))
     /\ IF n # HeaderLen THEN Fail
        ELSE \* bytes of a body read as a header are some length
             \E bLen \in (IF IsHeader(hdr) THEN {HeaderOf(hdr)} ELSE 0..(MaxLength + 1)) :
               IF bLen > MaxLength \/ bLen < 1 THEN Fail
               ELSE expect' = bLen /\ UNCHANGED <<receiver, received>>
     /\ UNCHANGED <<lens, start, rest, sender>>

\* Mutant: a body that is cut off is taken for the message.
ReadBody_Short ==
  LET n == Least(expect, Len(pipe))
  IN /\ receiver = "up" /\ expect > 0 /\ n > 0
     /\ pipe' = SubSeq(pipe, n + 1, Len(pipe))
     /\ expect' = 0 /\ received' = Append(received, SubSeq(pipe, 1, n))
     /\ UNCHANGED <<lens, start, rest, sender, receiver>>

\* The second Read; whatever it returns goes to json.Unmarshal if the length is right.
ReadBody ==
  LET n == Least(expect, Len(pipe))
  IN /\ receiver = "up" /\ expect > 0 /\ n > 0
     /\ pipe' = SubSeq(pipe, n + 1, Len(pipe))
     /\ IF n # expect THEN Fail
        ELSE /\ expect' = 0 /\ received' = Append(received, SubSeq(pipe, 1, n))
             /\ UNCHANGED receiver
     /\ UNCHANGED <<lens, start, rest, sender>>

FrameNext == (\E n \in Lengths : MarshalToWriter(n)) \/ Write \/ ReadHeader \/ ReadBody
FrameSpec == Quiet /\ [][FrameNext]_frameVars

-----------------------------------------------------------------------------
Body(k) == SubSeq(Message(k, lens[k]), HeaderLen + 1, HeaderLen + lens[k])

(* The receiver gets the messages that were sent, whole and in order, or   *)
(* an error, and never takes bytes of a body for a header; and it gets no  *)
(* error as long as what was sent fits into the pipe, however far it is    *)
(* behind (lowlevelmsgutil.go:16-50, messages.go:74-108).  A message that  *)
(* the sender accepts but that does not fit may be cut: MaxLength is the   *)
(* capacity of the pipe, and leaves no room for the header.                *)
FramesArrive ==
  /\ Len(received) <= Len(lens)
  /\ \A k \in DOMAIN received : received[k] = Body(k)
  /\ receiver = "failed" => BytesSent > PipeCap
=============================================================================
