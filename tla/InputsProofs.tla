---------------------------- MODULE InputsProofs ----------------------------
(***************************************************************************)
(* Proofs about what the parent and the child read: framed messages of any *)
(* lengths through a pipe of any capacity, ID maps for anything that the   *)
(* files and getsubids say, port specifications of any tokens.             *)
(***************************************************************************)
EXTENDS MCInputs, SequenceTheorems, FiniteSetTheorems, WellFoundedInduction, TLAPS

-----------------------------------------------------------------------------
(* Induction, from the order of the natural numbers being well founded.    *)

NatLess == {ss \in Nat \X Nat : ss[1] < ss[2]}

(* A set of natural numbers has a least element.                           *)
LEMMA LeastNat ==
  ASSUME NEW T \in SUBSET Nat, T # {}
  PROVE  \E m \in T : \A k \in T : m <= k
<1>1. IsWellFoundedOn(NatLess, Nat)
  BY NatLessThanWellFounded DEF OpToRel, NatLess
<1>2. PICK m \in T : \A k \in T : ~ (<<k, m>> \in NatLess)
  BY <1>1, WFMin
<1>3. ASSUME NEW k \in T PROVE m <= k
  <2>1. k \in Nat /\ m \in Nat
    OBVIOUS
  <2>2. ~(k < m)
    <3>1. <<k, m>> \in Nat \X Nat /\ <<k, m>>[1] = k /\ <<k, m>>[2] = m
      BY <2>1
    <3> QED
      BY <1>2, <1>3, <3>1 DEF NatLess
  <2> QED
    BY <2>1, <2>2
<1> QED
  BY <1>3

(* Induction over the rounds of a loop.                                    *)
LEMMA UpTo ==
  ASSUME NEW n \in Nat, NEW G, 1 \in G, \A k \in 1..n : k \in G => k + 1 \in G
  PROVE  \A k \in 1..(n + 1) : k \in G
<1> DEFINE T == {k \in 1..(n + 1) : k \notin G}
<1>1. SUFFICES ASSUME T # {} PROVE FALSE
  OBVIOUS
<1>2. T \in SUBSET Nat /\ 1 \notin T
  OBVIOUS
<1>3. \A k \in T : k \in 1..(n + 1) /\ k \notin G
  OBVIOUS
<1>4. \A k \in 1..(n + 1) : k \notin T => k \in G
  OBVIOUS
<1> HIDE DEF T
<1>5. PICK m \in T : \A k \in T : m <= k
  BY <1>1, <1>2, LeastNat
<1>6. m \in 2..(n + 1)
  BY <1>2, <1>3
<1>7. m - 1 \in 1..n /\ m - 1 \in 1..(n + 1) /\ ~(m <= m - 1) /\ (m - 1) + 1 = m
  BY <1>6
<1>8. m - 1 \in G
  BY <1>4, <1>5, <1>7
<1>9. m \in G
  BY <1>7, <1>8
<1> QED
  BY <1>3, <1>9

(* A loop of n rounds over values of V has a trace: its k-th element is    *)
(* the value before round k.                                               *)
Loops(n, V) == [1..n -> [V -> V]]
Traces(n, V) == [1..(n + 1) -> V]
IsTrace(f, n, v, round) == f[1] = v /\ \A k \in 1..n : f[k + 1] = round[k][f[k]]

LEMMA LoopTrace ==
  ASSUME NEW n \in Nat, NEW V, NEW v \in V, NEW round \in Loops(n, V)
  PROVE  \E f \in Traces(n, V) : IsTrace(f, n, v, round)
<1> USE DEF Loops, Traces, IsTrace
<1> DEFINE Has(m) == \E f \in [1..m -> V] : f[1] = v /\ \A k \in 1..(m - 1) : f[k + 1] = round[k][f[k]]
           G == {m \in Nat : Has(m)}
<1>1. 1 \in G
  <2> DEFINE f == [i \in 1..1 |-> v]
  <2>1. f \in [1..1 -> V] /\ f[1] = v /\ \A k \in 1..(1 - 1) : FALSE
    OBVIOUS
  <2>2. Has(1)
    <3> HIDE DEF f
    <3> QED
      BY <2>1
  <2> QED
    BY <2>2
<1>2. ASSUME NEW m \in 1..n, m \in G PROVE m + 1 \in G
  <2>1. PICK f \in [1..m -> V] : f[1] = v /\ \A k \in 1..(m - 1) : f[k + 1] = round[k][f[k]]
    BY <1>2
  <2> DEFINE g == [i \in 1..(m + 1) |-> IF i = m + 1 THEN round[m][f[m]] ELSE f[i]]
  <2>2. round[m] \in [V -> V] /\ f[m] \in V
    BY <2>1
  <2>3. \A i \in 1..(m + 1) : i # m + 1 => i \in 1..m
    OBVIOUS
  <2>4. round[m][f[m]] \in V
    BY <2>2
  <2>5. g \in [1..(m + 1) -> V]
    BY <2>1, <2>3, <2>4
  <2>6. g[1] = v
    <3>1. 1 \in 1..(m + 1) /\ 1 # m + 1
      OBVIOUS
    <3> QED
      BY <2>1, <3>1
  <2>7. ASSUME NEW k \in 1..m PROVE g[k + 1] = round[k][g[k]]
    <3>1. k \in 1..(m + 1) /\ k + 1 \in 1..(m + 1) /\ k # m + 1
      OBVIOUS
    <3>2. g[k] = f[k]
      BY <3>1
    <3>3. CASE k = m
      BY <3>1, <3>2, <3>3
    <3>4. CASE k # m
      <4>1. k \in 1..(m - 1) /\ k + 1 # m + 1
        BY <3>4
      <4>2. g[k + 1] = f[k + 1]
        BY <3>1, <4>1
      <4> QED
        BY <2>1, <3>2, <4>1, <4>2
    <3> QED
      BY <3>3, <3>4
  <2>8. (m + 1) - 1 = m /\ m + 1 \in Nat
    OBVIOUS
  <2>9. Has(m + 1)
    <3> HIDE DEF g
    <3> QED
      BY <2>5, <2>6, <2>7, <2>8
  <2> QED
    BY <2>8, <2>9
<1>3. \A k \in 1..(n + 1) : k \in G
  <2> HIDE DEF G
  <2> QED
    BY <1>1, <1>2, UpTo
<1>4. n + 1 \in 1..(n + 1) /\ (n + 1) - 1 = n
  OBVIOUS
<1>5. Has(n + 1)
  BY <1>3, <1>4
<1> QED
  BY <1>4, <1>5

-----------------------------------------------------------------------------
(* Framed messages.  Every byte has a position in the stream of all bytes  *)
(* that were sent; the pipe holds those after the ones that were read.     *)

Bytes == Nat \X Nat
EndOf(k) == start[k] + HeaderLen + lens[k]
IsByte(b) == b[1] \in 1..Len(lens) /\ b[2] \in 1..(HeaderLen + lens[b[1]])
Position(b) == start[b[1]] + b[2]
BytesRead == BytesSent - Len(pipe) - Len(rest)

FrameTypes ==
  /\ lens \in Seq(Nat \ {0}) /\ start \in Seq(Nat) /\ Len(start) = Len(lens)
  /\ rest \in Seq(Bytes) /\ pipe \in Seq(Bytes)
  /\ sender \in {"up", "failed"} /\ receiver \in {"up", "failed"}
  /\ expect \in Nat /\ received \in Seq(Seq(Bytes))

(* Messages do not overlap in the stream.                                  *)
MessagesApart ==
  \A k \in 1..Len(lens) :
    /\ EndOf(k) <= BytesSent
    /\ \A j \in 1..Len(lens) : k < j => EndOf(k) <= start[j]

(* There is nothing between two messages.                                  *)
MessagesFollow == \A k \in 1..Len(lens) : k < Len(lens) => start[k + 1] = EndOf(k)

(* The pipe holds the bytes that follow those read, and what is left to    *)
(* write is the end of the last message.                                   *)
StreamInOrder ==
  /\ BytesRead >= 0 /\ Len(pipe) <= PipeCap
  /\ \A j \in 1..Len(pipe) : IsByte(pipe[j]) /\ Position(pipe[j]) = BytesRead + j
  /\ rest # <<>> =>
       /\ lens # <<>> /\ Len(rest) <= HeaderLen + lens[Len(lens)]
       /\ \A j \in 1..Len(rest) :
            rest[j] = <<Len(lens), HeaderLen + lens[Len(lens)] - Len(rest) + j>>

(* The receiver is at the header or at the body of the next message, until *)
(* it fails, and what it has received are the bodies of the first ones.    *)
ReceiverInStep ==
  /\ Len(received) <= Len(lens)
  /\ \A k \in 1..Len(received) : received[k] = Body(k)
  /\ receiver = "up" /\ expect = 0 =>
       BytesRead = IF Len(received) < Len(lens) THEN start[Len(received) + 1] ELSE BytesSent
  /\ receiver = "up" /\ expect > 0 =>
       /\ Len(received) < Len(lens)
       /\ expect = lens[Len(received) + 1]
       /\ BytesRead = start[Len(received) + 1] + HeaderLen

(* As long as everything that was sent fits into the pipe, a message is    *)
(* written whole, and the receiver gets no error.                          *)
FitsWhole ==
  BytesSent <= PipeCap =>
    /\ receiver = "up"
    /\ rest # <<>> => Len(rest) = HeaderLen + lens[Len(lens)]

(* No message that was accepted is longer than the receiver accepts.       *)
LengthsAllowed == \A k \in 1..Len(lens) : lens[k] <= MaxLength

FrameInv ==
  /\ FrameTypes /\ LengthsAllowed /\ MessagesApart /\ MessagesFollow
  /\ StreamInOrder /\ ReceiverInStep /\ FitsWhole

(* Sizes and positions are natural numbers.                                *)
LEMMA FrameNumbers ==
  ASSUME FrameTypes
  PROVE  /\ HeaderLen \in Nat /\ HeaderLen > 0 /\ PipeCap \in Nat
         /\ Len(lens) \in Nat /\ Len(pipe) \in Nat /\ Len(rest) \in Nat /\ Len(received) \in Nat
         /\ \A k \in 1..Len(lens) : lens[k] \in Nat /\ lens[k] > 0 /\ start[k] \in Nat /\ EndOf(k) \in Nat
         /\ BytesSent \in Nat /\ BytesRead \in Int
         /\ lens # <<>> => Len(lens) \in 1..Len(lens) /\ BytesSent = EndOf(Len(lens))
         /\ lens = <<>> => Len(lens) = 0 /\ BytesSent = 0
<1>1. /\ HeaderLen \in Nat /\ HeaderLen > 0 /\ PipeCap \in Nat
      /\ Len(lens) \in Nat /\ Len(pipe) \in Nat /\ Len(rest) \in Nat /\ Len(received) \in Nat
  BY FramingAssumption, LenProperties DEF FrameTypes
<1>2. ASSUME NEW k \in 1..Len(lens)
      PROVE  lens[k] \in Nat /\ lens[k] > 0 /\ start[k] \in Nat /\ EndOf(k) \in Nat
  <2>1. lens[k] \in Nat \ {0} /\ start[k] \in Nat
    BY <1>1, ElementOfSeq DEF FrameTypes
  <2> QED
    BY <1>1, <2>1, SMTT(30) DEF EndOf
<1>3. lens = <<>> => Len(lens) = 0 /\ BytesSent = 0
  BY DEF BytesSent
<1>4. lens # <<>> => Len(lens) \in 1..Len(lens) /\ BytesSent = EndOf(Len(lens))
  <2>1. lens # <<>> => Len(lens) \in Nat \ {0}
    BY EmptySeq DEF FrameTypes
  <2> QED
    BY <2>1 DEF BytesSent, EndOf
<1>5. BytesSent \in Nat
  BY <1>2, <1>3, <1>4
<1>6. BytesRead \in Int
  BY <1>1, <1>5 DEF BytesRead
<1> QED
  BY <1>1, <1>2, <1>3, <1>4, <1>5, <1>6

(* A position in the stream belongs to one byte of one message.            *)
LEMMA OneByteThere ==
  ASSUME FrameTypes, MessagesApart, NEW b \in Bytes, IsByte(b),
         NEW k \in 1..Len(lens), NEW i \in Nat, 1 <= i, i <= HeaderLen + lens[k],
         Position(b) = start[k] + i
  PROVE  b = <<k, i>>
<1> DEFINE m == b[1]
           j == b[2]
<1>1. m \in 1..Len(lens) /\ j \in Nat /\ 1 <= j /\ j <= HeaderLen + lens[m] /\ start[m] + j = start[k] + i
  BY FrameNumbers DEF IsByte, Position, Bytes
<1>2. b = <<m, j>>
  BY DEF Bytes
<1> HIDE DEF m, j
<1>3. m < k => EndOf(m) <= start[k]
  BY <1>1 DEF MessagesApart
<1>4. k < m => EndOf(k) <= start[m]
  BY <1>1 DEF MessagesApart
<1>5. /\ lens[m] \in Nat /\ start[m] \in Nat /\ lens[k] \in Nat /\ start[k] \in Nat /\ HeaderLen \in Nat
      /\ m \in Nat /\ k \in Nat
  BY <1>1, FrameNumbers
<1>6. ~(m < k) /\ ~(k < m)
  <2>1. i \in Nat /\ 1 <= i /\ i <= HeaderLen + lens[k]
    OBVIOUS
  <2>2. ASSUME m < k PROVE FALSE
    <3>1. start[m] + HeaderLen + lens[m] <= start[k]
      BY <1>3, <2>2 DEF EndOf
    <3> QED
      BY <1>1, <1>5, <2>1, <3>1, SMTT(30)
  <2>3. ASSUME k < m PROVE FALSE
    <3>1. start[k] + HeaderLen + lens[k] <= start[m]
      BY <1>4, <2>3 DEF EndOf
    <3> QED
      BY <1>1, <1>5, <2>1, <3>1, SMTT(30)
  <2> QED
    BY <2>2, <2>3
<1>7. m = k
  BY <1>5, <1>6
<1>8. j = i
  BY <1>1, <1>5, <1>7
<1> QED
  BY <1>2, <1>7, <1>8

(* What the next Read finds, given how far the last one came.              *)
LEMMA NextBytes ==
  ASSUME FrameTypes, MessagesApart, StreamInOrder,
         NEW k \in 1..Len(lens), NEW o \in Nat, BytesRead = start[k] + o,
         NEW j \in 1..Len(pipe), o + j <= HeaderLen + lens[k]
  PROVE  pipe[j] = <<k, o + j>>
<1>1. j \in Nat /\ j >= 1 /\ start[k] \in Nat
  BY FrameNumbers
<1>2. pipe[j] \in Bytes /\ IsByte(pipe[j]) /\ Position(pipe[j]) = BytesRead + j
  BY ElementOfSeq DEF FrameTypes, StreamInOrder
<1>3. Position(pipe[j]) = start[k] + (o + j) /\ o + j \in Nat /\ 1 <= o + j
  BY <1>1, <1>2
<1> QED
  BY <1>2, <1>3, OneByteThere

(* A Read takes the first bytes of the pipe, and the others move up.       *)
LEMMA ReadTakes ==
  ASSUME FrameInv, NEW n \in 1..Len(pipe), pipe' = SubSeq(pipe, n + 1, Len(pipe)),
         UNCHANGED <<lens, start, rest, sender>>
  PROVE  /\ pipe' \in Seq(Bytes) /\ BytesRead' = BytesRead + n /\ BytesSent' = BytesSent
         /\ MessagesApart' /\ StreamInOrder'
<1> USE DEF FrameInv
<1>1. Len(pipe) \in Nat /\ n \in Nat /\ n >= 1 /\ n <= Len(pipe)
  BY FrameNumbers
<1>2. \A i \in (n + 1)..Len(pipe) : pipe[i] \in Bytes
  BY <1>1, ElementOfSeq DEF FrameTypes
<1>3. /\ pipe' \in Seq(Bytes)
      /\ Len(pipe') = IF n + 1 <= Len(pipe) THEN Len(pipe) - (n + 1) + 1 ELSE 0
      /\ \A j \in 1..(Len(pipe) - (n + 1) + 1) : pipe'[j] = pipe[(n + 1) + j - 1]
  <2>1. n + 1 \in Int /\ Len(pipe) \in Int
    BY <1>1
  <2> QED
    BY <1>2, <2>1, SubSeqProperties
<1>4. Len(pipe') = Len(pipe) - n
  BY <1>1, <1>3
<1>5. \A j \in 1..Len(pipe') : n + j \in 1..Len(pipe) /\ pipe'[j] = pipe[n + j]
  BY <1>1, <1>3, <1>4
<1>6. BytesSent' = BytesSent
  BY DEF BytesSent
<1>7. BytesRead' = BytesRead + n
  BY <1>1, <1>4, <1>6, FrameNumbers, SMTT(30) DEF BytesRead
<1>8. MessagesApart'
  BY <1>6 DEF MessagesApart, EndOf
<1>9. StreamInOrder'
  <2>1. BytesRead' >= 0 /\ Len(pipe') <= PipeCap
    BY <1>1, <1>4, <1>7, FrameNumbers, SMTT(30) DEF StreamInOrder
  <2>2. ASSUME NEW j \in 1..Len(pipe')
        PROVE  (IsByte(pipe[j]) /\ Position(pipe[j]) = BytesRead + j)'
    <3>1. IsByte(pipe[n + j]) /\ Position(pipe[n + j]) = BytesRead + (n + j)
      BY <1>5 DEF StreamInOrder
    <3>2. BytesRead + (n + j) = BytesRead' + j
      BY <1>1, <1>4, <1>7, FrameNumbers, SMTT(30)
    <3> QED
      BY <1>5, <3>1, <3>2 DEF IsByte, Position
  <2> QED
    BY <2>1, <2>2 DEF StreamInOrder
<1> QED
  BY <1>3, <1>6, <1>7, <1>8, <1>9

(* As long as everything fits, the pipe holds whole messages behind what   *)
(* was read of the first one.                                              *)
LEMMA WholeMessageThere ==
  ASSUME FrameInv, BytesSent <= PipeCap, pipe # <<>>,
         NEW k \in 1..Len(lens), NEW o \in Nat, o < HeaderLen + lens[k], BytesRead = start[k] + o
  PROVE  o + Len(pipe) >= HeaderLen + lens[k]
<1> USE DEF FrameInv
<1>1. lens # <<>>
  BY FrameNumbers
<1>2. PICK l \in Nat, p \in Nat, r \in Nat : l = Len(lens) /\ p = Len(pipe) /\ r = Len(rest)
  BY FrameNumbers
<1>3. /\ HeaderLen \in Nat /\ start[k] \in Nat /\ lens[k] \in Nat /\ start[l] \in Nat /\ lens[l] \in Nat
      /\ BytesSent = EndOf(l) /\ l \in 1..Len(lens)
  BY <1>1, <1>2, FrameNumbers
<1>4. PICK sk \in Nat, nk \in Nat : sk = start[k] /\ nk = HeaderLen + lens[k]
  BY <1>3
<1>5. PICK sl \in Nat, nl \in Nat : sl = start[l] /\ nl = HeaderLen + lens[l]
  BY <1>3
<1>6. k \in Nat /\ k <= l /\ (k = l => sk = sl)
  BY <1>2, <1>4, <1>5
<1>7. p >= 1
  BY <1>2, EmptySeq DEF FrameTypes
<1>8. sl + nl - p - r = sk + o
  <2>1. BytesSent = start[l] + HeaderLen + lens[l]
    BY <1>3 DEF EndOf
  <2>2. BytesSent = sl + nl
    BY <1>3, <1>5, <2>1
  <2> QED
    BY <1>2, <1>4, <2>2 DEF BytesRead
<1>9. sk + nk <= sl + nl /\ (k < l => sk + nk <= sl)
  <2>1. EndOf(k) = sk + nk
    <3>1. EndOf(k) = start[k] + HeaderLen + lens[k]
      BY DEF EndOf
    <3> QED
      BY <1>3, <1>4, <3>1
  <2>3. EndOf(l) = sl + nl
    <3>1. EndOf(l) = start[l] + HeaderLen + lens[l]
      BY DEF EndOf
    <3> QED
      BY <1>3, <1>5, <3>1
  <2>2. EndOf(k) <= BytesSent /\ (k < l => EndOf(k) <= start[l])
    BY <1>3 DEF MessagesApart
  <2> QED
    BY <1>3, <1>5, <2>1, <2>2, <2>3
<1>10. o + p >= nk
  <2>1. CASE r = 0
    BY <1>8, <1>9, <2>1
  <2>2. CASE r # 0
    <3>1. r = nl
      BY <1>2, <1>5, <2>2 DEF FitsWhole
    <3>2. sl = sk + o + p
      BY <1>8, <3>1
    <3>3. k < l
      BY <1>6, <1>7, <3>2
    <3> QED
      BY <1>9, <3>2, <3>3
  <2> QED
    BY <2>1, <2>2
<1> QED
  BY <1>2, <1>4, <1>10

(* The bytes of a message are numbered from the first byte of its header.  *)
LEMMA MessageBytes ==
  ASSUME NEW k \in Nat, NEW n \in Nat
  PROVE  /\ Message(k, n) \in Seq(Bytes) /\ Len(Message(k, n)) = HeaderLen + n
         /\ \A j \in 1..(HeaderLen + n) : Message(k, n)[j] = <<k, j>>
<1>1. HeaderLen + n \in Nat
  BY FramingAssumption
<1>2. Message(k, n) \in [1..(HeaderLen + n) -> Bytes]
  BY <1>1 DEF Message, Bytes
<1>3. Message(k, n) \in Seq(Bytes)
  BY <1>1, <1>2, SeqDef
<1>4. Len(Message(k, n)) \in Nat /\ 1..Len(Message(k, n)) = 1..(HeaderLen + n)
  BY <1>2, <1>3, LenProperties
<1>5. \A a, b \in Nat : 1..a = 1..b => a = b
  <2>1. ASSUME NEW a \in Nat, NEW b \in Nat, 1..a = 1..b PROVE a <= b
    <3>1. CASE a = 0
      BY <3>1
    <3>2. CASE a # 0
      <4>1. a \in 1..a
        BY <3>2
      <4> QED
        BY <2>1, <4>1
    <3> QED
      BY <3>1, <3>2
  <2>2. ASSUME NEW a \in Nat, NEW b \in Nat, 1..a = 1..b PROVE b <= a
    BY <2>1, <2>2
  <2> QED
    BY <2>1, <2>2
<1>6. Len(Message(k, n)) = HeaderLen + n
  BY <1>1, <1>4, <1>5
<1>7. \A j \in 1..(HeaderLen + n) : Message(k, n)[j] = <<k, j>>
  BY DEF Message
<1> QED
  BY <1>3, <1>6, <1>7

(* A message that is refused changes nothing; one that is not is put at    *)
(* the end of the stream (lowlevelmsgutil.go:16-27).                       *)
LEMMA MarshalKeeps ==
  ASSUME FrameInv, NEW n \in Lengths, MarshalToWriter(n)
  PROVE  FrameInv'
<1> USE DEF FrameInv
<1>1. CASE n > MaxLength
  <2>1. UNCHANGED <<lens, start, rest, pipe, expect, receiver, received>> /\ sender' = "failed"
    BY <1>1 DEF MarshalToWriter
  <2>2. FrameTypes'
    BY <2>1 DEF FrameTypes
  <2>3. MessagesApart' /\ StreamInOrder'
    BY <2>1 DEF MessagesApart, StreamInOrder, EndOf, IsByte, Position, BytesRead, BytesSent
  <2>4. ReceiverInStep' /\ FitsWhole'
    BY <2>1 DEF ReceiverInStep, FitsWhole, BytesRead, BytesSent, Body, Message
  <2>5. LengthsAllowed' /\ MessagesFollow'
    BY <2>1 DEF LengthsAllowed, MessagesFollow, EndOf
  <2> QED
    BY <2>2, <2>3, <2>4, <2>5
<1>2. CASE ~(n > MaxLength)
  <2>1. /\ rest = <<>> /\ lens' = Append(lens, n) /\ start' = Append(start, BytesSent)
        /\ rest' = Message(Len(lens) + 1, n)
        /\ UNCHANGED <<sender, pipe, expect, receiver, received>>
    BY <1>2 DEF MarshalToWriter
  <2>2. PICK l \in Nat, h \in Nat, p \in Nat, b \in Nat :
          l = Len(lens) /\ h = HeaderLen /\ p = Len(pipe) /\ b = BytesSent
    BY FrameNumbers
  <2>3. n \in Nat \ {0} /\ n \in Nat /\ n > 0
    BY FramingAssumption
  <2>4. /\ lens' \in Seq(Nat \ {0}) /\ Len(lens') = l + 1
        /\ \A k \in 1..l : lens'[k] = lens[k]
        /\ lens'[l + 1] = n /\ lens' # <<>>
    <3>1. lens \in Seq(Nat \ {0})
      BY DEF FrameTypes
    <3>2. /\ Append(lens, n) \in Seq(Nat \ {0}) /\ Append(lens, n) # <<>>
          /\ Len(Append(lens, n)) = Len(lens) + 1
          /\ \A k \in 1..Len(lens) : Append(lens, n)[k] = lens[k]
          /\ Append(lens, n)[Len(lens) + 1] = n
      BY <2>3, <3>1, AppendProperties, SMTT(30)
    <3> QED
      BY <2>1, <2>2, <3>2
  <2>5. /\ start' \in Seq(Nat) /\ Len(start') = l + 1
        /\ \A k \in 1..l : start'[k] = start[k]
        /\ start'[l + 1] = b
    BY <2>1, <2>2, AppendProperties DEF FrameTypes
  <2>6. /\ rest' \in Seq(Bytes) /\ Len(rest') = h + n
        /\ \A j \in 1..(h + n) : rest'[j] = <<l + 1, j>>
    <3>1. l + 1 \in Nat
      OBVIOUS
    <3> QED
      BY <2>1, <2>2, <2>3, <3>1, MessageBytes
  <2>7. BytesSent' = b + h + n
    BY <2>2, <2>4, <2>5 DEF BytesSent
  <2>8. BytesRead' = BytesRead /\ BytesRead = b - p
    <3>1. Len(rest) = 0
      BY <2>1
    <3>2. BytesRead = b - p - 0
      BY <2>2, <3>1 DEF BytesRead
    <3>3. BytesRead' = b + h + n - p - (h + n)
      <4>1. Len(pipe') = p /\ Len(rest') = h + n
        BY <2>1, <2>2, <2>6
      <4>2. BytesRead' = BytesSent' - Len(pipe') - Len(rest')
        BY DEF BytesRead
      <4> QED
        BY <2>3, <2>7, <4>1, <4>2
    <3> QED
      BY <2>3, <3>2, <3>3
  <2>9. FrameTypes'
    BY <2>1, <2>4, <2>5, <2>6 DEF FrameTypes
  <2>10. \A k \in 1..l : EndOf(k)' = EndOf(k) /\ EndOf(k) \in Nat
    BY <2>2, <2>4, <2>5, FrameNumbers DEF EndOf
  <2>11. EndOf(l + 1)' = b + h + n
    BY <2>2, <2>4, <2>5 DEF EndOf
  <2>12. MessagesApart'
    <3>1. ASSUME NEW k \in 1..(l + 1) PROVE EndOf(k)' <= b + h + n
      <4>1. CASE k = l + 1
        BY <2>3, <2>11, <4>1
      <4>2. CASE k # l + 1
        <5>1. k \in 1..l
          BY <4>2
        <5>2. EndOf(k) <= b
          BY <2>2, <5>1 DEF MessagesApart
        <5> QED
          BY <2>3, <2>10, <5>1, <5>2
      <4> QED
        BY <4>1, <4>2
    <3>2. ASSUME NEW k \in 1..(l + 1), NEW j \in 1..(l + 1), k < j PROVE EndOf(k)' <= start'[j]
      <4>1. k \in 1..l
        BY <3>2
      <4>2. CASE j = l + 1
        BY <2>2, <2>5, <2>10, <4>1, <4>2 DEF MessagesApart
      <4>3. CASE j # l + 1
        <5>1. j \in 1..l
          BY <4>3
        <5> QED
          BY <2>2, <2>5, <2>10, <3>2, <4>1, <5>1 DEF MessagesApart
      <4> QED
        BY <4>2, <4>3
    <3> QED
      BY <2>4, <2>7, <3>1, <3>2 DEF MessagesApart
  <2>13. StreamInOrder'
    <3>1. BytesRead' >= 0 /\ Len(pipe') <= PipeCap
      BY <2>1, <2>8 DEF StreamInOrder
    <3>2. ASSUME NEW j \in 1..Len(pipe)
          PROVE  (IsByte(pipe[j]) /\ Position(pipe[j]) = BytesRead + j)'
      <4>1. IsByte(pipe[j]) /\ Position(pipe[j]) = BytesRead + j
        BY DEF StreamInOrder
      <4>2. pipe[j][1] \in 1..l /\ pipe[j][1] \in 1..(l + 1)
        BY <2>2, <4>1 DEF IsByte
      <4> QED
        BY <2>1, <2>4, <2>5, <2>8, <4>1, <4>2 DEF IsByte, Position
    <3>3. /\ Len(rest') <= HeaderLen + lens'[Len(lens')]
          /\ \A j \in 1..Len(rest') :
               rest'[j] = <<Len(lens'), HeaderLen + lens'[Len(lens')] - Len(rest') + j>>
      <4>1. HeaderLen + lens'[Len(lens')] = h + n /\ Len(rest') = h + n /\ Len(lens') = l + 1
        BY <2>2, <2>4, <2>6
      <4>2. PICK m \in Nat : m = h + n
        BY <2>3
      <4>3. \A j \in 1..m : m - m + j = j
        OBVIOUS
      <4>4. \A j \in 1..m : rest'[j] = <<l + 1, m - m + j>>
        BY <2>6, <4>2, <4>3
      <4>5. HeaderLen + lens'[Len(lens')] = m /\ Len(rest') = m /\ Len(lens') = l + 1
        BY <4>1, <4>2
      <4>6. ASSUME NEW j \in 1..Len(rest')
            PROVE  rest'[j] = <<Len(lens'), HeaderLen + lens'[Len(lens')] - Len(rest') + j>>
        <5>1. j \in 1..m
          BY <4>5, <4>6
        <5>2. rest'[j] = <<l + 1, m - m + j>>
          BY <4>4, <5>1
        <5>3. HeaderLen + lens'[Len(lens')] - Len(rest') + j = m - m + j
          <6>1. HeaderLen \in Nat /\ lens'[Len(lens')] \in Nat /\ Len(rest') \in Nat
            BY <2>2, <2>3, <2>4, <4>5
          <6> QED
            BY <4>5, <6>1
        <5> QED
          BY <4>5, <5>2, <5>3
      <4> QED
        BY <4>5, <4>6
    <3> QED
      BY <2>1, <2>4, <3>1, <3>2, <3>3 DEF StreamInOrder
  <2>14. ReceiverInStep'
    <3>1. PICK r \in Nat : r = Len(received) /\ r <= l
      BY <2>2, FrameNumbers DEF ReceiverInStep
    <3>2. \A k \in 1..r : k \in 1..l
      BY <3>1
    <3>3. \A k \in 1..r : Body(k)' = Body(k)
      BY <2>4, <3>2 DEF Body, Message
    <3>4. \A k \in 1..Len(received') : received'[k] = Body(k)'
      BY <2>1, <3>1, <3>3 DEF ReceiverInStep
    <3>5. receiver = "up" /\ expect = 0 => BytesRead' = start'[r + 1]
      <4>1. CASE r < l
        <5>1. r + 1 \in 1..l
          BY <4>1
        <5>2. start'[r + 1] = start[r + 1]
          BY <2>5, <5>1
        <5> QED
          BY <2>2, <2>8, <3>1, <4>1, <5>2 DEF ReceiverInStep
      <4>2. CASE r = l
        BY <2>2, <2>5, <2>8, <3>1, <4>2 DEF ReceiverInStep
      <4> QED
        BY <3>1, <4>1, <4>2
    <3>6. receiver = "up" /\ expect > 0 =>
            expect = lens'[r + 1] /\ BytesRead' = start'[r + 1] + HeaderLen
      <4>1. SUFFICES ASSUME receiver = "up", expect > 0
                     PROVE  expect = lens'[r + 1] /\ BytesRead' = start'[r + 1] + HeaderLen
        OBVIOUS
      <4>2. r < l /\ expect = lens[r + 1] /\ BytesRead = start[r + 1] + HeaderLen
        BY <2>2, <3>1, <4>1 DEF ReceiverInStep
      <4>3. r + 1 \in 1..l
        BY <4>2
      <4> QED
        BY <2>4, <2>5, <2>8, <4>2, <4>3
    <3>7. Len(received') = r /\ Len(lens') = l + 1 /\ r < l + 1 /\ r <= l + 1
      BY <2>1, <2>4, <3>1
    <3> QED
      BY <2>1, <3>4, <3>5, <3>6, <3>7 DEF ReceiverInStep
  <2>15. FitsWhole'
    <3>1. ASSUME BytesSent' <= PipeCap PROVE BytesSent <= PipeCap
      BY <2>2, <2>3, <2>7, <3>1, FrameNumbers
    <3>2. Len(rest') = HeaderLen + lens'[Len(lens')]
      BY <2>2, <2>4, <2>6
    <3> QED
      BY <2>1, <3>1, <3>2 DEF FitsWhole
  <2>16. LengthsAllowed'
    <3>1. n <= MaxLength
      BY <1>2, <2>3, FramingAssumption
    <3>2. ASSUME NEW k \in 1..(l + 1) PROVE lens'[k] <= MaxLength
      <4>1. CASE k = l + 1
        BY <2>4, <3>1, <4>1
      <4>2. CASE k # l + 1
        <5>1. k \in 1..l
          BY <4>2
        <5> QED
          BY <2>2, <2>4, <5>1 DEF LengthsAllowed
      <4> QED
        BY <4>1, <4>2
    <3> QED
      BY <2>4, <3>2 DEF LengthsAllowed
  <2>17. MessagesFollow'
    <3>1. ASSUME NEW k \in 1..(l + 1), k < l + 1 PROVE start'[k + 1] = EndOf(k)'
      <4>1. k \in 1..l /\ EndOf(k)' = EndOf(k)
        BY <2>10, <3>1
      <4>2. CASE k = l
        <5>1. lens # <<>>
          BY <2>2, <4>1, FrameNumbers
        <5>2. EndOf(l) = b
          BY <2>2, <5>1, FrameNumbers
        <5> QED
          BY <2>5, <4>1, <4>2, <5>2
      <4>3. CASE k # l
        <5>1. k + 1 \in 1..l /\ k < l
          BY <4>1, <4>3
        <5> QED
          BY <2>2, <2>5, <4>1, <5>1 DEF MessagesFollow
      <4> QED
        BY <4>2, <4>3
    <3> QED
      BY <2>4, <3>1 DEF MessagesFollow
  <2> QED
    BY <2>9, <2>12, <2>13, <2>14, <2>15, <2>16, <2>17
<1> QED
  BY <1>1, <1>2

(* Writing moves bytes of the last message into the pipe; it moves all of  *)
(* them if everything that was sent fits.                                  *)
LEMMA WriteKeeps ==
  ASSUME FrameInv, Write
  PROVE  FrameInv'
<1> USE DEF FrameInv
<1>1. PICK l \in Nat, h \in Nat, p \in Nat, q \in Nat, b \in Nat, c \in Nat :
        /\ l = Len(lens) /\ h = HeaderLen /\ p = Len(pipe) /\ q = Len(rest)
        /\ b = BytesSent /\ c = PipeCap
  BY FrameNumbers
<1>2. PICK n \in Nat :
        /\ n = Least(q, c - p) /\ n > 0
        /\ pipe' = pipe \o SubSeq(rest, 1, n) /\ rest' = SubSeq(rest, n + 1, q)
        /\ UNCHANGED <<lens, start, sender, expect, receiver, received>>
  <2>1. Least(q, c - p) \in Int
    BY DEF Least
  <2>2. /\ Least(q, c - p) > 0
        /\ pipe' = pipe \o SubSeq(rest, 1, Least(q, c - p))
        /\ rest' = SubSeq(rest, Least(q, c - p) + 1, q)
        /\ UNCHANGED <<lens, start, sender, expect, receiver, received>>
    BY <1>1 DEF Write
  <2>3. Least(q, c - p) \in Nat
    BY <2>1, <2>2
  <2> QED
    BY <2>2, <2>3, Zenon
<1>3. n <= q /\ p + n <= c /\ q > 0 /\ (p + q <= c => n = q)
  BY <1>2 DEF Least
<1>4. rest # <<>>
  BY <1>1, <1>3
<1>5. lens # <<>> /\ l \in 1..l
  BY <1>1, <1>4, FrameNumbers DEF StreamInOrder
<1>6. PICK m \in Nat, a \in Nat : m = h + lens[l] /\ a = start[l] /\ q <= m /\ b = a + m
  <2>1. lens[l] \in Nat /\ start[l] \in Nat /\ BytesSent = start[l] + HeaderLen + lens[l]
    BY <1>1, <1>5, FrameNumbers DEF EndOf
  <2>2. q <= h + lens[l]
    BY <1>1, <1>4 DEF StreamInOrder
  <2>3. b = start[l] + (h + lens[l])
    BY <1>1, <2>1
  <2> QED
    BY <2>1, <2>2, <2>3
<1>7. \A j \in 1..q : rest[j] = <<l, m - q + j>> /\ rest[j] \in Bytes
  <2>1. ASSUME NEW j \in 1..q PROVE rest[j] = <<l, m - q + j>> /\ rest[j] \in Bytes
    <3>1. rest[j] = <<Len(lens), HeaderLen + lens[Len(lens)] - Len(rest) + j>>
      BY <1>1, <1>4 DEF StreamInOrder
    <3>2. HeaderLen + lens[Len(lens)] = m /\ HeaderLen \in Nat /\ lens[Len(lens)] \in Nat
      BY <1>1, <1>5, <1>6, FrameNumbers
    <3>3. HeaderLen + lens[Len(lens)] - Len(rest) + j = m - q + j
      <4>1. Len(rest) \in Nat /\ Len(rest) = q
        BY <1>1
      <4> QED
        BY <3>2, <4>1, SMTT(30)
    <3>4. m - q + j \in Nat
      BY <1>6
    <3> QED
      BY <1>1, <3>1, <3>3, <3>4 DEF Bytes
  <2> QED
    BY <2>1
<1>8. /\ SubSeq(rest, 1, n) \in Seq(Bytes) /\ Len(SubSeq(rest, 1, n)) = n
      /\ \A j \in 1..n : SubSeq(rest, 1, n)[j] = rest[j]
  <2>1. \A i \in 1..n : rest[i] \in Bytes
    BY <1>3, <1>7
  <2>2. /\ SubSeq(rest, 1, n) \in Seq(Bytes)
        /\ Len(SubSeq(rest, 1, n)) = IF 1 <= n THEN n - 1 + 1 ELSE 0
        /\ \A j \in 1..(n - 1 + 1) : SubSeq(rest, 1, n)[j] = rest[1 + j - 1]
    BY <2>1, SubSeqProperties
  <2> QED
    BY <1>2, <2>2
<1>9. /\ rest' \in Seq(Bytes) /\ Len(rest') = q - n
      /\ \A j \in 1..(q - n) : rest'[j] = rest[n + j]
  <2>1. \A i \in (n + 1)..q : rest[i] \in Bytes
    BY <1>7
  <2>2. /\ SubSeq(rest, n + 1, q) \in Seq(Bytes)
        /\ Len(SubSeq(rest, n + 1, q)) = IF n + 1 <= q THEN q - (n + 1) + 1 ELSE 0
        /\ \A j \in 1..(q - (n + 1) + 1) : SubSeq(rest, n + 1, q)[j] = rest[(n + 1) + j - 1]
    <3>1. n + 1 \in Int /\ q \in Int
      OBVIOUS
    <3> QED
      BY <2>1, <3>1, SubSeqProperties
  <2>3. q - (n + 1) + 1 = q - n
    OBVIOUS
  <2>4. Len(rest') = q - n
    BY <1>2, <1>3, <2>2
  <2>5. ASSUME NEW j \in 1..(q - n) PROVE rest'[j] = rest[n + j]
    <3>1. j \in 1..(q - (n + 1) + 1) /\ (n + 1) + j - 1 = n + j
      BY <2>3
    <3> QED
      BY <1>2, <2>2, <3>1
  <2> QED
    BY <1>2, <2>2, <2>4, <2>5
<1>10. /\ pipe' \in Seq(Bytes) /\ Len(pipe') = p + n
       /\ \A j \in 1..(p + n) : pipe'[j] = IF j <= p THEN pipe[j] ELSE rest[j - p]
  <2>1. pipe \in Seq(Bytes)
    BY DEF FrameTypes
  <2>2. /\ pipe' \in Seq(Bytes) /\ Len(pipe') = p + n
        /\ \A j \in 1..(p + n) : pipe'[j] = IF j <= p THEN pipe[j] ELSE SubSeq(rest, 1, n)[j - p]
    BY <1>1, <1>2, <1>8, <2>1, ConcatProperties, SMTT(30)
  <2>3. \A j \in 1..(p + n) : ~(j <= p) => j - p \in 1..n
    OBVIOUS
  <2> QED
    BY <1>8, <2>2, <2>3
<1>11. BytesSent' = b /\ BytesRead' = b - p - q /\ BytesRead = b - p - q
  <2>1. BytesSent' = b
    BY <1>1, <1>2 DEF BytesSent
  <2>2. BytesRead = b - p - q
    BY <1>1 DEF BytesRead
  <2>3. BytesRead' = BytesSent' - Len(pipe') - Len(rest')
    BY DEF BytesRead
  <2>4. BytesRead' = b - (p + n) - (q - n)
    BY <1>3, <1>9, <1>10, <2>1, <2>3
  <2> QED
    BY <2>1, <2>2, <2>4
<1>12. FrameTypes'
  BY <1>2, <1>9, <1>10 DEF FrameTypes
<1>13. MessagesApart'
  BY <1>1, <1>2, <1>11 DEF MessagesApart, EndOf
<1>14. StreamInOrder'
  <2>1. BytesRead' >= 0 /\ Len(pipe') <= PipeCap
    BY <1>1, <1>3, <1>10, <1>11 DEF StreamInOrder
  <2>2. ASSUME NEW j \in 1..(p + n)
        PROVE  (IsByte(pipe[j]) /\ Position(pipe[j]) = BytesRead + j)'
    <3>1. CASE j <= p
      <4>1. j \in 1..Len(pipe) /\ pipe'[j] = pipe[j]
        BY <1>1, <1>10, <3>1
      <4>2. IsByte(pipe[j]) /\ Position(pipe[j]) = BytesRead + j
        BY <4>1 DEF StreamInOrder
      <4> QED
        BY <1>2, <1>11, <4>1, <4>2 DEF IsByte, Position
    <3>2. CASE ~(j <= p)
      <4>1. j - p \in 1..q /\ pipe'[j] = <<l, m - q + (j - p)>>
        <5>1. j - p \in 1..q /\ pipe'[j] = rest[j - p]
          BY <1>3, <1>10, <3>2
        <5> QED
          BY <1>7, <5>1
      <4>2. PICK i \in Nat : i = m - q + (j - p) /\ i \in 1..m
        BY <1>6, <4>1
      <4>3. b - p - q + j = a + i
        BY <1>6, <4>2
      <4>4. pipe'[j][1] = l /\ pipe'[j][2] = i
        BY <4>1, <4>2
      <4>5. IsByte(pipe[j])'
        BY <1>1, <1>2, <1>5, <1>6, <4>2, <4>4 DEF IsByte
      <4>6. Position(pipe[j])' = a + i
        BY <1>2, <1>6, <4>4 DEF Position
      <4> QED
        BY <1>11, <4>3, <4>5, <4>6
    <3> QED
      BY <3>1, <3>2
  <2>3. /\ Len(rest') <= HeaderLen + lens'[Len(lens')]
        /\ \A j \in 1..Len(rest') :
             rest'[j] = <<Len(lens'), HeaderLen + lens'[Len(lens')] - Len(rest') + j>>
    <3>1. HeaderLen + lens'[Len(lens')] = m /\ Len(rest') = q - n /\ Len(lens') = l
      BY <1>1, <1>2, <1>6, <1>9
    <3>2. HeaderLen \in Nat /\ lens'[Len(lens')] \in Nat /\ Len(rest') \in Nat
      <4>1. lens[l] \in Nat
        BY <1>1, <1>5, FrameNumbers
      <4>2. lens'[Len(lens')] = lens[l] /\ Len(rest') = q - n
        BY <1>1, <1>2, <1>9
      <4> QED
        BY <1>1, <1>3, <4>1, <4>2
    <3>3. q - n <= m
      BY <1>3, <1>6
    <3>4. ASSUME NEW j \in 1..(q - n)
          PROVE  rest'[j] = <<l, HeaderLen + lens'[Len(lens')] - Len(rest') + j>>
      <4>1. n + j \in 1..q /\ rest'[j] = <<l, m - q + (n + j)>>
        <5>1. n + j \in 1..q
          BY <1>3
        <5> QED
          BY <1>7, <1>9, <5>1
      <4>2. m - q + (n + j) = HeaderLen + lens'[Len(lens')] - Len(rest') + j
        <5>1. PICK d \in Nat : d = q - n
          BY <1>3
        <5>2. m - q + (n + j) = m - d + j
          BY <5>1
        <5>3. HeaderLen + lens'[Len(lens')] - Len(rest') = m - d
          BY <3>1, <3>2, <5>1
        <5> QED
          BY <5>2, <5>3
      <4> QED
        BY <4>1, <4>2
    <3> QED
      BY <3>1, <3>3, <3>4
  <2>4. lens' # <<>>
    BY <1>2, <1>5
  <2> QED
    BY <1>10, <2>1, <2>2, <2>3, <2>4 DEF StreamInOrder
<1>15. ReceiverInStep'
  BY <1>1, <1>2, <1>11 DEF ReceiverInStep, Body, Message
<1>16. FitsWhole'
  <2>1. ASSUME b <= c PROVE rest' = <<>>
    <3>1. p + q <= c
      BY <1>11, <2>1 DEF StreamInOrder
    <3>2. Len(rest') = 0
      BY <1>3, <1>9, <3>1
    <3> QED
      BY <1>9, <3>2, EmptySeq
  <2> QED
    BY <1>1, <1>2, <1>11, <2>1 DEF FitsWhole
<1>17. LengthsAllowed' /\ MessagesFollow'
  BY <1>2 DEF LengthsAllowed, MessagesFollow, EndOf
<1> QED
  BY <1>12, <1>13, <1>14, <1>15, <1>16, <1>17

(* A Read that is cut off takes some bytes and fails; it happens only when *)
(* not everything that was sent fits into the pipe.                        *)
LEMMA FailKeeps ==
  ASSUME FrameInv, NEW n \in 1..Len(pipe), pipe' = SubSeq(pipe, n + 1, Len(pipe)),
         UNCHANGED <<lens, start, rest, sender>>, Fail, BytesSent > PipeCap
  PROVE  FrameInv'
<1> USE DEF FrameInv
<1>1. /\ pipe' \in Seq(Bytes) /\ BytesSent' = BytesSent
      /\ MessagesApart' /\ StreamInOrder'
  BY ReadTakes
<1>2. receiver' = "failed" /\ UNCHANGED <<lens, start, rest, sender, expect, received>>
  BY DEF Fail
<1>3. FrameTypes'
  BY <1>1, <1>2 DEF FrameTypes
<1>4. ReceiverInStep'
  BY <1>2 DEF ReceiverInStep, Body, Message
<1>5. ~(BytesSent' <= PipeCap)
  BY <1>1, FrameNumbers
<1>6. FitsWhole' /\ LengthsAllowed' /\ MessagesFollow'
  BY <1>2, <1>5 DEF FitsWhole, LengthsAllowed, MessagesFollow, EndOf
<1> QED
  BY <1>1, <1>3, <1>4, <1>6

(* The receiver that waits for a header and finds bytes is at the start of *)
(* a message.                                                              *)
LEMMA AtHeader ==
  ASSUME FrameInv, receiver = "up", expect = 0, pipe # <<>>
  PROVE  /\ Len(received) < Len(lens)
         /\ BytesRead = start[Len(received) + 1]
<1> USE DEF FrameInv
<1>1. PICK r \in Nat, l \in Nat, p \in Nat, q \in Nat, b \in Nat :
        /\ r = Len(received) /\ l = Len(lens) /\ p = Len(pipe) /\ q = Len(rest) /\ b = BytesSent
  BY FrameNumbers
<1>2. p > 0
  BY <1>1, EmptySeq DEF FrameTypes
<1>3. BytesRead = b - p - q
  BY <1>1 DEF BytesRead
<1>4. BytesRead # BytesSent
  BY <1>1, <1>2, <1>3
<1> QED
  BY <1>1, <1>4 DEF ReceiverInStep

(* The next four bytes are the header of the next message, and what it     *)
(* says is the length of that message (lowlevelmsgutil.go:31-43).          *)
LEMMA ReadHeaderKeeps ==
  ASSUME FrameInv, ReadHeader
  PROVE  FrameInv'
<1> USE DEF FrameInv
<1>1. PICK l \in Nat, h \in Nat, p \in Nat, r \in Nat :
        l = Len(lens) /\ h = HeaderLen /\ p = Len(pipe) /\ r = Len(received) /\ h > 0
  BY FrameNumbers
<1>2. PICK n \in Nat : n = Least(h, p) /\ n <= p /\ (n # h => p < h)
  BY DEF Least
<1>3. /\ receiver = "up" /\ expect = 0 /\ n > 0
      /\ pipe' = SubSeq(pipe, n + 1, Len(pipe))
      /\ UNCHANGED <<lens, start, rest, sender>>
      /\ n # h => Fail
      /\ n = h => \E bLen \in (IF IsHeader(SubSeq(pipe, 1, n)) THEN {HeaderOf(SubSeq(pipe, 1, n))}
                                                              ELSE 0..(MaxLength + 1)) :
                    IF bLen > MaxLength \/ bLen < 1 THEN Fail
                    ELSE expect' = bLen /\ UNCHANGED <<receiver, received>>
  BY <1>1, <1>2 DEF ReadHeader
<1>4. n \in 1..Len(pipe) /\ pipe # <<>>
  BY <1>1, <1>2, <1>3
<1>5. r < l /\ BytesRead = start[r + 1]
  BY <1>1, <1>3, <1>4, AtHeader
<1>6. PICK k \in Nat : k = r + 1 /\ k \in 1..Len(lens) /\ k \in 1..l
  BY <1>1, <1>5
<1>7. PICK x \in Nat, s \in Nat : x = lens[k] /\ x > 0 /\ s = start[k] /\ x <= MaxLength
  BY <1>6, FrameNumbers DEF LengthsAllowed
<1>8. CASE n # h
  <2>1. ASSUME BytesSent <= PipeCap PROVE FALSE
    <3>1. BytesRead = start[k] + 0 /\ 0 < HeaderLen + lens[k]
      BY <1>1, <1>5, <1>6, <1>7
    <3>2. 0 + Len(pipe) >= HeaderLen + lens[k]
      BY <1>4, <1>6, <2>1, <3>1, WholeMessageThere
    <3> QED
      BY <1>1, <1>2, <1>7, <1>8, <3>2
  <2>2. BytesSent > PipeCap
    BY <2>1, FrameNumbers
  <2> QED
    BY <1>3, <1>4, <1>8, <2>2, FailKeeps
<1>9. CASE n = h
  <2>1. /\ Len(SubSeq(pipe, 1, n)) = n /\ SubSeq(pipe, 1, n) \in Seq(Bytes)
        /\ \A j \in 1..n : SubSeq(pipe, 1, n)[j] = <<k, j>>
    <3>1. \A i \in 1..n : pipe[i] \in Bytes
      BY <1>1, <1>2, ElementOfSeq DEF FrameTypes
    <3>2. /\ SubSeq(pipe, 1, n) \in Seq(Bytes)
          /\ Len(SubSeq(pipe, 1, n)) = IF 1 <= n THEN n - 1 + 1 ELSE 0
          /\ \A j \in 1..(n - 1 + 1) : SubSeq(pipe, 1, n)[j] = pipe[1 + j - 1]
      BY <3>1, SubSeqProperties
    <3>3. ASSUME NEW j \in 1..n PROVE SubSeq(pipe, 1, n)[j] = <<k, j>>
      <4>1. j \in 1..(n - 1 + 1) /\ 1 + j - 1 = j /\ j \in 1..Len(pipe) /\ 0 + j = j
        BY <1>1, <1>2
      <4>2. BytesRead = start[k] + 0 /\ 0 + j <= HeaderLen + lens[k]
        BY <1>1, <1>5, <1>6, <1>7, <1>9
      <4>3. pipe[j] = <<k, 0 + j>>
        BY <1>6, <4>1, <4>2, NextBytes
      <4> QED
        BY <3>2, <4>1, <4>3
    <3> QED
      BY <1>3, <3>2, <3>3
  <2>2. SubSeq(pipe, 1, n) = SubSeq(Message(k, lens[k]), 1, HeaderLen)
    <3>1. /\ Message(k, x) \in Seq(Bytes)
          /\ \A j \in 1..(h + x) : Message(k, x)[j] = <<k, j>>
      BY <1>1, MessageBytes
    <3>2. \A i \in 1..n : i \in 1..(h + x)
      BY <1>9
    <3>3. ASSUME NEW i \in 1..n PROVE Message(k, x)[i] = <<k, i>> /\ Message(k, x)[i] \in Bytes
      <4>1. i \in 1..(h + x) /\ i \in Nat
        BY <3>2
      <4>2. Message(k, x)[i] = <<k, i>>
        BY <3>1, <4>1, Zenon
      <4> QED
        BY <4>1, <4>2 DEF Bytes
    <3>4. /\ SubSeq(Message(k, x), 1, n) \in Seq(Bytes)
          /\ Len(SubSeq(Message(k, x), 1, n)) = IF 1 <= n THEN n - 1 + 1 ELSE 0
          /\ \A j \in 1..(n - 1 + 1) : SubSeq(Message(k, x), 1, n)[j] = Message(k, x)[1 + j - 1]
      <4>1. \A i \in 1..n : Message(k, x)[i] \in Bytes
        BY <3>3
      <4> QED
        BY <3>1, <4>1, SubSeqProperties
    <3>5. Len(SubSeq(Message(k, x), 1, n)) = n
      BY <1>3, <3>4
    <3>6. ASSUME NEW j \in 1..n PROVE SubSeq(Message(k, x), 1, n)[j] = <<k, j>>
      <4>1. j \in 1..(n - 1 + 1) /\ 1 + j - 1 = j
        OBVIOUS
      <4> QED
        BY <3>3, <3>4, <4>1
    <3>7. SubSeq(pipe, 1, n) = SubSeq(Message(k, x), 1, n)
      BY <2>1, <3>4, <3>5, <3>6, SeqEqual
    <3> QED
      BY <1>1, <1>7, <1>9, <3>7
  <2>3. IsHeader(SubSeq(pipe, 1, n))
    <3>1. k \in DOMAIN lens
      BY <1>6, LenProperties DEF FrameTypes
    <3> QED
      BY <2>2, <3>1 DEF IsHeader
  <2>4. HeaderOf(SubSeq(pipe, 1, n)) = x
    <3>1. 1 \in 1..n
      BY <1>3
    <3>2. SubSeq(pipe, 1, n)[1] = <<k, 1>>
      BY <2>1, <3>1
    <3> QED
      <4>1. <<k, 1>>[1] = k
        OBVIOUS
      <4> QED
        BY <1>7, <3>2, <4>1, Zenon DEF HeaderOf
  <2>5. expect' = x /\ UNCHANGED <<receiver, received>>
    <3>1. PICK bLen \in {x} : IF bLen > MaxLength \/ bLen < 1 THEN Fail
                              ELSE expect' = bLen /\ UNCHANGED <<receiver, received>>
      BY <1>3, <1>9, <2>3, <2>4
    <3>2. bLen = x /\ ~(x > MaxLength) /\ ~(x < 1)
      BY <1>7, FramingAssumption
    <3> QED
      BY <3>1, <3>2
  <2>6. /\ pipe' \in Seq(Bytes) /\ BytesRead' = BytesRead + n /\ BytesSent' = BytesSent
        /\ MessagesApart' /\ StreamInOrder'
    BY <1>3, <1>4, ReadTakes
  <2>7. FrameTypes'
    BY <1>3, <2>5, <2>6 DEF FrameTypes
  <2>8. ReceiverInStep'
    <3>1. Len(received') < Len(lens') /\ Len(received') <= Len(lens') /\ Len(received') + 1 = k
      BY <1>1, <1>3, <1>5, <1>6, <2>5
    <3>2. \A j \in 1..Len(received') : received'[j] = Body(j)'
      BY <1>3, <2>5 DEF ReceiverInStep, Body, Message
    <3>3. expect' = lens'[k] /\ expect' > 0
      BY <1>3, <1>7, <2>5
    <3>4. BytesRead' = start'[k] + HeaderLen
      <4>1. BytesRead = start[k] /\ start'[k] = start[k] /\ n = HeaderLen
        BY <1>1, <1>3, <1>5, <1>6, <1>9
      <4> QED
        BY <2>6, <4>1
    <3>5. expect' # 0
      BY <1>7, <2>5
    <3> QED
      BY <3>1, <3>2, <3>3, <3>4, <3>5 DEF ReceiverInStep
  <2>9. FitsWhole' /\ LengthsAllowed' /\ MessagesFollow'
    BY <1>3, <2>5, <2>6 DEF FitsWhole, LengthsAllowed, MessagesFollow, EndOf
  <2> QED
    BY <2>6, <2>7, <2>8, <2>9
<1> QED
  BY <1>8, <1>9

(* The bytes behind a header are the body of its message: the receiver is  *)
(* given that body, or the Read is cut off (lowlevelmsgutil.go:44-50).     *)
LEMMA ReadBodyKeeps ==
  ASSUME FrameInv, ReadBody
  PROVE  FrameInv'
<1> USE DEF FrameInv
<1>1. PICK l \in Nat, h \in Nat, p \in Nat, r \in Nat, x \in Nat :
        l = Len(lens) /\ h = HeaderLen /\ p = Len(pipe) /\ r = Len(received) /\ h > 0 /\ x = expect
  BY FrameNumbers DEF FrameTypes
<1>2. PICK n \in Nat : n = Least(x, p) /\ n <= p /\ n <= x /\ (n # x => n = p)
  BY DEF Least
<1>3. /\ receiver = "up" /\ x > 0 /\ n > 0
      /\ pipe' = SubSeq(pipe, n + 1, Len(pipe))
      /\ UNCHANGED <<lens, start, rest, sender>>
      /\ n # x => Fail
      /\ n = x => expect' = 0 /\ received' = Append(received, SubSeq(pipe, 1, n)) /\ UNCHANGED receiver
  BY <1>1, <1>2 DEF ReadBody
<1>4. n \in 1..Len(pipe) /\ pipe # <<>>
  BY <1>1, <1>2, <1>3
<1>5. r < l /\ x = lens[r + 1] /\ BytesRead = start[r + 1] + HeaderLen
  BY <1>1, <1>3 DEF ReceiverInStep
<1>6. PICK k \in Nat : k = r + 1 /\ k \in 1..Len(lens) /\ k \in 1..l
  BY <1>1, <1>5
<1>7. PICK s \in Nat : s = start[k] /\ x = lens[k] /\ BytesRead = s + h
  BY <1>1, <1>5, <1>6, FrameNumbers
<1>8. CASE n # x
  <2>1. ASSUME BytesSent <= PipeCap PROVE FALSE
    <3>1. BytesRead = start[k] + h /\ h < HeaderLen + lens[k]
      BY <1>1, <1>3, <1>7
    <3>2. h + Len(pipe) >= HeaderLen + lens[k]
      BY <1>4, <1>6, <2>1, <3>1, WholeMessageThere
    <3>3. h + p >= h + x
      BY <1>1, <1>7, <3>2
    <3> QED
      BY <1>2, <1>8, <3>3
  <2>2. BytesSent > PipeCap
    BY <2>1, FrameNumbers
  <2> QED
    BY <1>3, <1>4, <1>8, <2>2, FailKeeps
<1>9. CASE n = x
  <2>1. /\ Len(SubSeq(pipe, 1, n)) = n /\ SubSeq(pipe, 1, n) \in Seq(Bytes)
        /\ \A j \in 1..n : SubSeq(pipe, 1, n)[j] = <<k, h + j>>
    <3>1. \A i \in 1..n : pipe[i] \in Bytes
      BY <1>1, <1>2, ElementOfSeq DEF FrameTypes
    <3>2. /\ SubSeq(pipe, 1, n) \in Seq(Bytes)
          /\ Len(SubSeq(pipe, 1, n)) = IF 1 <= n THEN n - 1 + 1 ELSE 0
          /\ \A j \in 1..(n - 1 + 1) : SubSeq(pipe, 1, n)[j] = pipe[1 + j - 1]
      BY <3>1, SubSeqProperties
    <3>3. ASSUME NEW j \in 1..n PROVE SubSeq(pipe, 1, n)[j] = <<k, h + j>>
      <4>1. j \in 1..(n - 1 + 1) /\ 1 + j - 1 = j /\ j \in 1..Len(pipe)
        BY <1>1, <1>2
      <4>2. BytesRead = start[k] + h /\ h + j <= HeaderLen + lens[k]
        BY <1>1, <1>7, <1>9
      <4>3. pipe[j] = <<k, h + j>>
        BY <1>6, <4>1, <4>2, NextBytes
      <4> QED
        BY <3>2, <4>1, <4>3
    <3> QED
      BY <1>3, <3>2, <3>3
  <2>2. Body(k) \in Seq(Bytes) /\ Body(k) = SubSeq(pipe, 1, n)
    <3>1. /\ Message(k, x) \in Seq(Bytes)
          /\ \A j \in 1..(h + x) : Message(k, x)[j] = <<k, j>>
      BY <1>1, MessageBytes
    <3>2. ASSUME NEW i \in (h + 1)..(h + x)
          PROVE  Message(k, x)[i] = <<k, i>> /\ Message(k, x)[i] \in Bytes
      <4>1. i \in 1..(h + x) /\ i \in Nat
        OBVIOUS
      <4>2. Message(k, x)[i] = <<k, i>>
        BY <3>1, <4>1, Zenon
      <4> QED
        BY <4>1, <4>2 DEF Bytes
    <3>3. /\ SubSeq(Message(k, x), h + 1, h + x) \in Seq(Bytes)
          /\ Len(SubSeq(Message(k, x), h + 1, h + x)) =
               IF h + 1 <= h + x THEN (h + x) - (h + 1) + 1 ELSE 0
          /\ \A j \in 1..((h + x) - (h + 1) + 1) :
               SubSeq(Message(k, x), h + 1, h + x)[j] = Message(k, x)[(h + 1) + j - 1]
      <4>1. \A i \in (h + 1)..(h + x) : Message(k, x)[i] \in Bytes
        BY <3>2
      <4>2. h + 1 \in Int /\ h + x \in Int
        OBVIOUS
      <4> QED
        BY <4>1, <4>2, SubSeqProperties
    <3>4. Len(SubSeq(Message(k, x), h + 1, h + x)) = n
      BY <1>3, <1>9, <3>3
    <3>5. ASSUME NEW j \in 1..n
          PROVE  SubSeq(Message(k, x), h + 1, h + x)[j] = <<k, h + j>>
      <4>1. /\ j \in 1..((h + x) - (h + 1) + 1) /\ (h + 1) + j - 1 = h + j
            /\ h + j \in (h + 1)..(h + x)
        BY <1>9
      <4>2. Message(k, x)[h + j] = <<k, h + j>>
        BY <3>2, <4>1
      <4> QED
        BY <3>3, <4>1, <4>2
    <3>6. SubSeq(Message(k, x), h + 1, h + x) = SubSeq(pipe, 1, n)
      BY <2>1, <3>3, <3>4, <3>5, SeqEqual
    <3>7. Body(k) = SubSeq(Message(k, x), h + 1, h + x)
      BY <1>1, <1>7, Zenon DEF Body
    <3> QED
      BY <2>1, <3>6, <3>7
  <2>3. expect' = 0 /\ received' = Append(received, Body(k)) /\ receiver' = "up"
    BY <1>3, <1>9, <2>2
  <2>4. /\ received' \in Seq(Seq(Bytes)) /\ Len(received') = k
        /\ \A j \in 1..r : received'[j] = received[j]
        /\ received'[k] = Body(k)
    <3>1. received \in Seq(Seq(Bytes))
      BY DEF FrameTypes
    <3>2. PICK d \in Seq(Bytes) : d = Body(k)
      BY <2>2
    <3>3. /\ Append(received, d) \in Seq(Seq(Bytes)) /\ Len(Append(received, d)) = Len(received) + 1
          /\ \A j \in 1..Len(received) : Append(received, d)[j] = received[j]
          /\ Append(received, d)[Len(received) + 1] = d
      BY <3>1, AppendProperties
    <3>4. Len(received) = r /\ Len(received) + 1 = k
      BY <1>1, <1>6
    <3> QED
      BY <2>3, <3>2, <3>3, <3>4
  <2>5. /\ pipe' \in Seq(Bytes) /\ BytesRead' = BytesRead + n /\ BytesSent' = BytesSent
        /\ MessagesApart' /\ StreamInOrder'
    BY <1>3, <1>4, ReadTakes
  <2>6. FrameTypes'
    BY <1>3, <2>3, <2>4, <2>5 DEF FrameTypes
  <2>7. ReceiverInStep'
    <3>1. ASSUME NEW j \in 1..k PROVE received'[j] = Body(j)'
      <4>1. Body(j)' = Body(j)
        BY <1>3 DEF Body, Message
      <4>2. CASE j = k
        BY <2>4, <4>1, <4>2
      <4>3. CASE j # k
        <5>1. j \in 1..r
          BY <1>6, <4>3
        <5> QED
          BY <1>1, <2>4, <4>1, <5>1 DEF ReceiverInStep
      <4> QED
        BY <4>2, <4>3
    <3>2. BytesRead' = IF k < l THEN start[k + 1] ELSE BytesSent
      <4>1. BytesRead' = EndOf(k)
        <5>1. EndOf(k) = s + h + x
          BY <1>1, <1>7 DEF EndOf
        <5> QED
          BY <1>7, <1>9, <2>5, <5>1
      <4>2. k < l => EndOf(k) = start[k + 1]
        BY <1>1, <1>6 DEF MessagesFollow
      <4>3. ~(k < l) => EndOf(k) = BytesSent
        <5>1. lens # <<>>
          BY <1>6, FrameNumbers
        <5> QED
          BY <1>1, <1>6, <5>1, FrameNumbers
      <4> QED
        BY <4>1, <4>2, <4>3
    <3>3. Len(received') = k /\ k <= l /\ Len(lens') = l
      BY <1>1, <1>3, <1>6, <2>4
    <3> QED
      BY <1>3, <2>3, <2>5, <3>1, <3>2, <3>3 DEF ReceiverInStep
  <2>8. FitsWhole' /\ LengthsAllowed' /\ MessagesFollow'
    BY <1>3, <2>3, <2>5 DEF FitsWhole, LengthsAllowed, MessagesFollow, EndOf
  <2> QED
    BY <2>5, <2>6, <2>7, <2>8
<1> QED
  BY <1>8, <1>9

LEMMA FrameStart ==
  ASSUME Quiet
  PROVE  FrameInv
<1>1. /\ Len(lens) = 0 /\ Len(start) = 0 /\ Len(rest) = 0 /\ Len(pipe) = 0 /\ Len(received) = 0
      /\ lens = <<>> /\ rest = <<>> /\ expect = 0 /\ receiver = "up" /\ sender = "up"
  BY DEF Quiet
<1>2. BytesSent = 0 /\ BytesRead = 0
  BY <1>1 DEF BytesSent, BytesRead
<1>3. FrameTypes
  BY DEF Quiet, FrameTypes
<1>4. LengthsAllowed /\ MessagesApart /\ MessagesFollow
  BY <1>1 DEF LengthsAllowed, MessagesApart, MessagesFollow
<1>5. StreamInOrder
  BY <1>1, <1>2, FramingAssumption DEF StreamInOrder
<1>6. ReceiverInStep /\ FitsWhole
  BY <1>1, <1>2 DEF ReceiverInStep, FitsWhole
<1> QED
  BY <1>3, <1>4, <1>5, <1>6 DEF FrameInv

LEMMA FrameStep ==
  ASSUME FrameInv, [FrameNext]_frameVars
  PROVE  FrameInv'
<1>1. ASSUME NEW n \in Lengths, MarshalToWriter(n) PROVE FrameInv'
  BY <1>1, MarshalKeeps
<1>2. CASE Write
  BY <1>2, WriteKeeps
<1>3. CASE ReadHeader
  BY <1>3, ReadHeaderKeeps
<1>4. CASE ReadBody
  BY <1>4, ReadBodyKeeps
<1>5. CASE UNCHANGED frameVars
  BY <1>5 DEF frameVars, FrameInv, FrameTypes, LengthsAllowed, MessagesApart, MessagesFollow,
              StreamInOrder, ReceiverInStep, FitsWhole, EndOf, IsByte, Position, BytesRead, BytesSent,
              Body, Message
<1> QED
  BY <1>1, <1>2, <1>3, <1>4, <1>5 DEF FrameNext

(* The stream stays in step: the pipe holds the bytes between what was     *)
(* read and what is left to write, in the order in which they were sent,   *)
(* and the receiver is at a header or at a body of the next message until  *)
(* it fails (lowlevelmsgutil.go:16-50).                                    *)
THEOREM FrameInvariant == FrameSpec => []FrameInv
<1>1. Quiet => FrameInv
  BY FrameStart
<1>2. FrameInv /\ [FrameNext]_frameVars => FrameInv'
  BY FrameStep
<1> QED
  BY <1>1, <1>2, PTL DEF FrameSpec

(* The receiver gets the messages that were sent, whole and in order, or   *)
(* an error, and no error as long as what was sent fits into the pipe, for *)
(* any lengths, any length of the header and any capacity                  *)
(* (lowlevelmsgutil.go:16-50, messages.go:74-108).                         *)
THEOREM FramesArriveWhole == FrameSpec => []FramesArrive
<1>1. ASSUME FrameInv PROVE FramesArrive
  <2>1. DOMAIN received = 1..Len(received)
    BY <1>1, LenProperties DEF FrameInv, FrameTypes
  <2>2. receiver = "failed" => BytesSent > PipeCap
    <3>1. BytesSent \in Nat /\ PipeCap \in Nat
      BY <1>1, FrameNumbers DEF FrameInv
    <3>2. receiver = "failed" => ~(BytesSent <= PipeCap)
      BY <1>1 DEF FrameInv, FitsWhole
    <3> QED
      BY <3>1, <3>2
  <2> QED
    BY <1>1, <2>1, <2>2 DEF FrameInv, ReceiverInStep, FramesArrive
<1>2. FrameInv => FramesArrive
  BY <1>1
<1> QED
  BY <1>2, FrameInvariant, PTL

(* The run that enumerates inputs exchanges messages in the same way.      *)
THEOREM RunSendsFrames == Spec => FrameSpec /\ []FramesArrive
<1>1. Init => Quiet
  BY DEF Init
<1>2. [Next]_<<frameVars, inputVars>> => [FrameNext]_frameVars
  BY DEF Next, Compute, Exchange
<1> QED
  BY <1>1, <1>2, FramesArriveWhole, PTL DEF Spec, FrameSpec

-----------------------------------------------------------------------------
(* The ID maps.                                                            *)

SubRanges == Nat \X Nat

(* The loop that sums up the lengths.                                      *)
LEMMA MapLastIs ==
  ASSUME NEW ranges \in Seq(SubRanges), NEW n \in Nat, n = Len(ranges)
  PROVE  /\ MapLast(ranges) \in [1..(n + 1) -> Nat]
         /\ MapLast(ranges)[1] = 1
         /\ \A k \in 1..n : /\ Length(ranges[k]) \in Nat
                            /\ MapLast(ranges)[k + 1] = MapLast(ranges)[k] + Length(ranges[k])
<1>1. \A k \in 1..n : Length(ranges[k]) \in Nat
  <2>1. ASSUME NEW k \in 1..n PROVE Length(ranges[k]) \in Nat
    <3>1. ranges[k] \in SubRanges
      BY ElementOfSeq
    <3> QED
      BY <3>1 DEF SubRanges, Length
  <2> QED
    BY <2>1
<1> DEFINE Is(f) == f = [k \in 1..(n + 1) |-> IF k = 1 THEN 1 ELSE f[k - 1] + Length(ranges[k - 1])]
<1>2. MapLast(ranges) = CHOOSE f : Is(f)
  BY DEF MapLast
<1>3. \E f : Is(f)
  <2> DEFINE round == [k \in 1..n |-> [m \in Nat |-> m + Length(ranges[k])]]
  <2>1. round \in [1..n -> [Nat -> Nat]]
    BY <1>1
  <2>2. \A k \in 1..n, m \in Nat : round[k][m] = m + Length(ranges[k])
    OBVIOUS
  <2> HIDE DEF round
  <2>3. PICK f \in [1..(n + 1) -> Nat] : f[1] = 1 /\ \A k \in 1..n : f[k + 1] = round[k][f[k]]
    <3>1. round \in Loops(n, Nat) /\ 1 \in Nat
      BY <2>1 DEF Loops
    <3>2. \E f \in Traces(n, Nat) : IsTrace(f, n, 1, round)
      BY <3>1, LoopTrace
    <3> QED
      BY <3>2 DEF Traces, IsTrace
  <2>4. ASSUME NEW k \in 1..(n + 1)
        PROVE  f[k] = IF k = 1 THEN 1 ELSE f[k - 1] + Length(ranges[k - 1])
    <3>1. CASE k = 1
      BY <2>3, <3>1
    <3>2. CASE k # 1
      <4>1. k - 1 \in 1..n /\ k - 1 \in 1..(n + 1) /\ (k - 1) + 1 = k
        BY <3>2
      <4>2. f[k - 1] \in Nat
        BY <4>1
      <4>3. f[(k - 1) + 1] = f[k - 1] + Length(ranges[k - 1])
        BY <2>2, <2>3, <4>1, <4>2
      <4> QED
        BY <3>2, <4>1, <4>3
    <3> QED
      BY <3>1, <3>2
  <2>5. Is(f)
    BY <2>4
  <2> QED
    BY <2>5
<1>4. Is(MapLast(ranges))
  <2> HIDE DEF Is
  <2> QED
    BY <1>2, <1>3
<1>5. PICK last : last = MapLast(ranges)
  OBVIOUS
<1>6. last = [k \in 1..(n + 1) |-> IF k = 1 THEN 1 ELSE last[k - 1] + Length(ranges[k - 1])]
  BY <1>4, <1>5
<1>7. ASSUME NEW k \in 1..(n + 1)
      PROVE  last[k] = IF k = 1 THEN 1 ELSE last[k - 1] + Length(ranges[k - 1])
  BY <1>6
<1>8. last[1] = 1 /\ \A k \in 1..n : last[k + 1] = last[k] + Length(ranges[k])
  <2>1. 1 \in 1..(n + 1)
    OBVIOUS
  <2>2. ASSUME NEW k \in 1..n PROVE last[k + 1] = last[k] + Length(ranges[k])
    <3>1. k + 1 \in 1..(n + 1) /\ k + 1 # 1 /\ (k + 1) - 1 = k
      OBVIOUS
    <3>2. last[k + 1] = last[(k + 1) - 1] + Length(ranges[(k + 1) - 1])
      BY <1>7, <3>1
    <3> QED
      BY <3>1, <3>2
  <2> QED
    BY <1>7, <2>1, <2>2
<1>9. \A k \in 1..(n + 1) : last[k] \in Nat
  <2> DEFINE G == {k \in 1..(n + 1) : last[k] \in Nat}
  <2>1. 1 \in G
    BY <1>8
  <2>2. ASSUME NEW k \in 1..n, k \in G PROVE k + 1 \in G
    <3>1. last[k] \in Nat /\ Length(ranges[k]) \in Nat /\ k + 1 \in 1..(n + 1)
      BY <1>1, <2>2
    <3> QED
      BY <1>8, <3>1
  <2>3. \A k \in 1..(n + 1) : k \in G
    <3> HIDE DEF G
    <3> QED
      BY <2>1, <2>2, UpTo
  <2> QED
    BY <2>3
<1>10. last \in [1..(n + 1) -> Nat]
  BY <1>6, <1>9
<1> QED
  BY <1>1, <1>5, <1>8, <1>10

(* The ends of the pieces of a map never go down.                          *)
LEMMA MapLastGrows ==
  ASSUME NEW ranges \in Seq(SubRanges), NEW n \in Nat, n = Len(ranges),
         NEW i \in 1..(n + 1), NEW j \in 1..(n + 1), i <= j
  PROVE  MapLast(ranges)[i] <= MapLast(ranges)[j]
<1>1. PICK last \in [1..(n + 1) -> Nat] : last = MapLast(ranges)
  BY MapLastIs
<1>2. \A k \in 1..n : last[k] <= last[k + 1]
  <2>1. ASSUME NEW k \in 1..n PROVE last[k] <= last[k + 1]
    <3>1. Length(ranges[k]) \in Nat /\ last[k + 1] = last[k] + Length(ranges[k])
      BY <1>1, MapLastIs
    <3>2. k \in 1..(n + 1)
      OBVIOUS
    <3>3. last[k] \in Nat
      BY <3>2
    <3> QED
      BY <3>1, <3>3
  <2> QED
    BY <2>1
<1> DEFINE G == {k \in 1..(n + 1) : i <= k => last[i] <= last[k]}
<1>3. 1 \in G
  <2>1. 1 \in 1..(n + 1) /\ last[1] \in Nat /\ (i <= 1 => i = 1)
    OBVIOUS
  <2> QED
    BY <2>1
<1>4. ASSUME NEW k \in 1..n, k \in G PROVE k + 1 \in G
  <2>1. k \in 1..(n + 1) /\ k + 1 \in 1..(n + 1)
    OBVIOUS
  <2>2. last[i] \in Nat /\ last[k] \in Nat /\ last[k + 1] \in Nat
    BY <2>1
  <2>3. i <= k => last[i] <= last[k]
    BY <1>4
  <2>4. i <= k + 1 => i <= k \/ i = k + 1
    BY <2>1
  <2>5. last[k] <= last[k + 1]
    BY <1>2
  <2>6. i <= k + 1 => last[i] <= last[k + 1]
    BY <2>2, <2>3, <2>4, <2>5
  <2> QED
    BY <2>1, <2>6
<1>5. \A k \in 1..(n + 1) : k \in G
  <2> HIDE DEF G
  <2> QED
    BY <1>3, <1>4, UpTo
<1> QED
  BY <1>1, <1>5

(* Where the pieces of a map lie: the first is the ID of the user, every   *)
(* other one starts where the one before it ends.                          *)
PieceStart(ranges, j) == IF j = 1 THEN 0 ELSE MapLast(ranges)[j - 1]
PieceEnd(ranges, j) == MapLast(ranges)[j]

LEMMA MapPieces ==
  ASSUME NEW id \in Nat, NEW ranges \in Seq(SubRanges), NEW n \in Nat, n = Len(ranges),
         NEW j \in 1..(n + 1)
  PROVE  /\ NewugidmapArgs(id, ranges)[j].container = PieceStart(ranges, j)
         /\ NewugidmapArgs(id, ranges)[j].container + NewugidmapArgs(id, ranges)[j].size = PieceEnd(ranges, j)
         /\ NewugidmapArgs(id, ranges)[j].host = IF j = 1 THEN id ELSE Start(ranges[j - 1])
         /\ NewugidmapArgs(id, ranges)[j].size = IF j = 1 THEN 1 ELSE Length(ranges[j - 1])
         /\ PieceStart(ranges, j) \in Nat /\ PieceEnd(ranges, j) \in Nat
<1>1. PICK last \in [1..(n + 1) -> Nat] : last = MapLast(ranges)
  BY MapLastIs
<1>2. NewugidmapArgs(id, ranges)[j] =
        IF j = 1 THEN Triple(0, id, 1) ELSE Triple(last[j - 1], Start(ranges[j - 1]), Length(ranges[j - 1]))
  BY <1>1 DEF NewugidmapArgs
<1>3. CASE j = 1
  <2>1. NewugidmapArgs(id, ranges)[j] = Triple(0, id, 1)
    BY <1>2, <1>3
  <2>2. PieceEnd(ranges, j) = 1 /\ PieceStart(ranges, j) = 0
    BY <1>3, MapLastIs DEF PieceEnd, PieceStart
  <2> QED
    BY <1>3, <2>1, <2>2 DEF Triple
<1>4. CASE j # 1
  <2>1. NewugidmapArgs(id, ranges)[j] = Triple(last[j - 1], Start(ranges[j - 1]), Length(ranges[j - 1]))
    BY <1>2, <1>4
  <2>2. j - 1 \in 1..n /\ j - 1 \in 1..(n + 1) /\ (j - 1) + 1 = j
    BY <1>4
  <2>3. last[j] = last[j - 1] + Length(ranges[j - 1])
    <3>1. last[(j - 1) + 1] = last[j - 1] + Length(ranges[j - 1])
      BY <1>1, <2>2, MapLastIs
    <3> QED
      BY <2>2, <3>1
  <2>4. last[j - 1] \in Nat /\ last[j] \in Nat
    BY <2>2
  <2>5. PieceStart(ranges, j) = last[j - 1] /\ PieceEnd(ranges, j) = last[j]
    BY <1>1, <1>4 DEF PieceStart, PieceEnd
  <2> QED
    BY <1>4, <2>1, <2>3, <2>4, <2>5 DEF Triple
<1> QED
  BY <1>3, <1>4

(* A container ID is in one piece at most, and in one if it is below the   *)
(* end of the last.                                                        *)
InPiece(ranges, j, c) == PieceStart(ranges, j) <= c /\ c < PieceEnd(ranges, j)

LEMMA OnePiece ==
  ASSUME NEW ranges \in Seq(SubRanges), NEW n \in Nat, n = Len(ranges), NEW c \in Nat,
         NEW i \in 1..(n + 1), NEW j \in 1..(n + 1),
         InPiece(ranges, i, c), InPiece(ranges, j, c)
  PROVE  i = j
<1>1. ASSUME NEW a \in 1..(n + 1), NEW b \in 1..(n + 1), a < b, InPiece(ranges, a, c), InPiece(ranges, b, c)
      PROVE  FALSE
  <2>1. b - 1 \in 1..(n + 1) /\ a <= b - 1 /\ b # 1
    BY <1>1
  <2>2. MapLast(ranges)[a] <= MapLast(ranges)[b - 1]
    BY <2>1, MapLastGrows
  <2>3. c < MapLast(ranges)[a] /\ MapLast(ranges)[b - 1] <= c
    BY <1>1, <2>1 DEF InPiece, PieceStart, PieceEnd
  <2>4. MapLast(ranges)[a] \in Nat /\ MapLast(ranges)[b - 1] \in Nat
    <3>1. PICK last \in [1..(n + 1) -> Nat] : last = MapLast(ranges)
      BY MapLastIs
    <3> QED
      BY <2>1, <3>1
  <2> QED
    BY <2>2, <2>3, <2>4
<1>2. ~(i < j) /\ ~(j < i)
  BY <1>1
<1> QED
  BY <1>2

LEMMA SomePiece ==
  ASSUME NEW ranges \in Seq(SubRanges), NEW n \in Nat, n = Len(ranges), NEW c \in Nat
  PROVE  c < MapLast(ranges)[n + 1] <=> \E j \in 1..(n + 1) : InPiece(ranges, j, c)
<1>1. PICK last \in [1..(n + 1) -> Nat] : last = MapLast(ranges) /\ last[1] = 1
  BY MapLastIs
<1>2. ASSUME c < last[n + 1] PROVE \E j \in 1..(n + 1) : InPiece(ranges, j, c)
  <2> DEFINE T == {k \in 1..(n + 1) : c < last[k]}
  <2>1. T \in SUBSET Nat /\ n + 1 \in T
    BY <1>2
  <2>2. \A k \in T : k \in 1..(n + 1) /\ c < last[k]
    OBVIOUS
  <2>3. \A k \in 1..(n + 1) : k \notin T => last[k] <= c
    BY <1>1
  <2> HIDE DEF T
  <2>4. PICK m \in T : \A k \in T : m <= k
    BY <2>1, LeastNat
  <2>5. m \in 1..(n + 1) /\ c < last[m]
    BY <2>2
  <2>6. CASE m = 1
    <3>1. PieceStart(ranges, m) = 0 /\ PieceEnd(ranges, m) = last[m] /\ 0 <= c
      BY <1>1, <2>6 DEF PieceStart, PieceEnd
    <3> QED
      BY <2>5, <3>1 DEF InPiece
  <2>7. CASE m # 1
    <3>1. m - 1 \in 1..(n + 1) /\ ~(m <= m - 1)
      BY <2>5, <2>7
    <3>2. last[m - 1] <= c
      BY <2>3, <2>4, <3>1
    <3>3. PieceStart(ranges, m) = last[m - 1] /\ PieceEnd(ranges, m) = last[m]
      BY <1>1, <2>7 DEF PieceStart, PieceEnd
    <3> QED
      BY <2>5, <3>2, <3>3 DEF InPiece
  <2> QED
    BY <2>6, <2>7
<1>3. ASSUME NEW j \in 1..(n + 1), InPiece(ranges, j, c) PROVE c < last[n + 1]
  <2>1. n + 1 \in 1..(n + 1) /\ j <= n + 1
    OBVIOUS
  <2>2. last[j] <= last[n + 1]
    BY <1>1, <2>1, MapLastGrows
  <2>3. last[j] \in Nat /\ last[n + 1] \in Nat
    BY <2>1
  <2>4. c < last[j]
    BY <1>1, <1>3 DEF InPiece, PieceEnd
  <2> QED
    BY <2>2, <2>3, <2>4
<1> QED
  BY <1>1, <1>2, <1>3

(* The map covers the container IDs from 0 on, as many as the ranges hold  *)
(* and one for the user, each once and no other, whatever the ranges are;  *)
(* ID 0 is the user (parent.go:401-433).                                   *)
THEOREM MapTiles ==
  ASSUME NEW id \in Nat, NEW ranges \in Seq(SubRanges)
  PROVE  /\ Tiles(NewugidmapArgs(id, ranges), MapLast(ranges)[Len(ranges) + 1])
         /\ HostsOf(NewugidmapArgs(id, ranges), 0) = {id}
<1>1. PICK n \in Nat : n = Len(ranges)
  BY LenProperties
<1>2. PICK args : args = NewugidmapArgs(id, ranges)
  OBVIOUS
<1>3. DOMAIN args = 1..(n + 1)
  BY <1>1, <1>2 DEF NewugidmapArgs
<1>4. ASSUME NEW c \in Nat, NEW j \in 1..(n + 1)
      PROVE  args[j].container <= c /\ c < args[j].container + args[j].size <=> InPiece(ranges, j, c)
  BY <1>1, <1>2, MapPieces, SMTT(30) DEF InPiece
<1>5. ASSUME NEW c \in Nat
      PROVE  HostsOf(args, c) = {args[j].host + (c - args[j].container) :
                                   j \in {i \in 1..(n + 1) : InPiece(ranges, i, c)}}
  <2>1. {j \in DOMAIN args : args[j].container <= c /\ c < args[j].container + args[j].size}
          = {i \in 1..(n + 1) : InPiece(ranges, i, c)}
    BY <1>3, <1>4
  <2> QED
    BY <2>1 DEF HostsOf
<1>6. ASSUME NEW c \in Nat, NEW j \in 1..(n + 1), InPiece(ranges, j, c)
      PROVE  HostsOf(args, c) = {args[j].host + (c - args[j].container)}
  <2>1. {i \in 1..(n + 1) : InPiece(ranges, i, c)} = {j}
    BY <1>1, <1>6, OnePiece
  <2> QED
    BY <1>5, <2>1
<1>7. ASSUME NEW c \in Nat
      PROVE  Cardinality(HostsOf(args, c)) = IF c < MapLast(ranges)[n + 1] THEN 1 ELSE 0
  <2>1. CASE c < MapLast(ranges)[n + 1]
    <3>1. PICK j \in 1..(n + 1) : InPiece(ranges, j, c)
      BY <1>1, <2>1, SomePiece
    <3> QED
      BY <1>6, <2>1, <3>1, FS_Singleton
  <2>2. CASE ~(c < MapLast(ranges)[n + 1])
    <3>1. {i \in 1..(n + 1) : InPiece(ranges, i, c)} = {}
      BY <1>1, <2>2, SomePiece
    <3>2. HostsOf(args, c) = {}
      BY <1>5, <3>1
    <3> QED
      BY <2>2, <3>2, FS_EmptySet
  <2> QED
    BY <2>1, <2>2
<1>8. Tiles(args, MapLast(ranges)[n + 1])
  <2>1. MapLast(ranges)[n + 1] \in Nat
    <3>1. n + 1 \in 1..(n + 1)
      OBVIOUS
    <3> QED
      BY <1>1, <3>1, MapLastIs
  <2>2. \A c \in 0..(MapLast(ranges)[n + 1] + 1) : c \in Nat
    BY <2>1
  <2> QED
    BY <1>7, <2>2 DEF Tiles
<1>9. HostsOf(args, 0) = {id}
  <2>1. 1 \in 1..(n + 1) /\ 0 \in Nat
    OBVIOUS
  <2>2. args[1].container = 0 /\ args[1].container + args[1].size = 1 /\ args[1].host = id
    BY <1>2 DEF NewugidmapArgs, Triple
  <2>3. InPiece(ranges, 1, 0)
    BY <1>4, <2>1, <2>2
  <2>4. HostsOf(args, 0) = {args[1].host + (0 - args[1].container)}
    BY <1>6, <2>1, <2>3
  <2> QED
    BY <2>2, <2>4
<1> QED
  BY <1>1, <1>2, <1>8, <1>9

(* The host IDs of a range.                                                *)
HostSet(r) == {h \in Nat : Start(r) <= h /\ h < Start(r) + Length(r)}

(* If ranges that differ are disjoint, none holds the ID of the user, and  *)
(* none is listed twice, then no two container IDs share a host ID.        *)
THEOREM MapInjective ==
  ASSUME NEW id \in Nat, NEW ranges \in Seq(SubRanges), NEW hosts \in SUBSET Nat,
         \A i \in 1..Len(ranges) : id \notin HostSet(ranges[i]),
         \A i, j \in 1..Len(ranges) : ranges[i] # ranges[j] => HostSet(ranges[i]) \cap HostSet(ranges[j]) = {},
         \A i, j \in 1..Len(ranges) : ranges[i] = ranges[j] => i = j
  PROVE  Injective(NewugidmapArgs(id, ranges), hosts)
<1>1. PICK n \in Nat : n = Len(ranges)
  BY LenProperties
<1>2. PICK args : args = NewugidmapArgs(id, ranges)
  OBVIOUS
<1>3. DOMAIN args = 1..(n + 1)
  BY <1>1, <1>2 DEF NewugidmapArgs
<1> DEFINE Holds(h, j) == args[j].host <= h /\ h < args[j].host + args[j].size
<1>4. ASSUME NEW h \in Nat, NEW j \in 1..(n + 1), Holds(h, j)
      PROVE  IF j = 1 THEN h = id ELSE j - 1 \in 1..n /\ h \in HostSet(ranges[j - 1])
  <2>1. CASE j = 1
    <3>1. args[j].host = id /\ args[j].size = 1
      BY <1>1, <1>2, <2>1, MapPieces
    <3> QED
      BY <1>4, <2>1, <3>1
  <2>2. CASE j # 1
    <3>1. args[j].host = Start(ranges[j - 1]) /\ args[j].size = Length(ranges[j - 1])
      <4>1. args[j] = Triple(MapLast(ranges)[j - 1], Start(ranges[j - 1]), Length(ranges[j - 1]))
        BY <1>1, <1>2, <2>2 DEF NewugidmapArgs
      <4> QED
        BY <4>1 DEF Triple
    <3>2. j - 1 \in 1..n
      BY <2>2
    <3> QED
      BY <1>4, <2>2, <3>1, <3>2 DEF HostSet
  <2> QED
    BY <2>1, <2>2
<1>5. ASSUME NEW h \in Nat, NEW i \in 1..(n + 1), NEW j \in 1..(n + 1), Holds(h, i), Holds(h, j)
      PROVE  i = j
  <2>1. CASE i = 1 /\ j = 1
    BY <2>1
  <2>2. CASE i = 1 /\ j # 1
    BY <1>1, <1>4, <1>5, <2>2
  <2>3. CASE i # 1 /\ j = 1
    BY <1>1, <1>4, <1>5, <2>3
  <2>4. CASE i # 1 /\ j # 1
    <3>1. i - 1 \in 1..n /\ j - 1 \in 1..n /\ h \in HostSet(ranges[i - 1]) /\ h \in HostSet(ranges[j - 1])
      BY <1>4, <1>5, <2>4
    <3>2. ranges[i - 1] = ranges[j - 1]
      BY <1>1, <3>1
    <3>3. i - 1 = j - 1
      BY <1>1, <3>1, <3>2
    <3> QED
      BY <3>3
  <2> QED
    BY <2>1, <2>2, <2>3, <2>4
<1>6. ASSUME NEW h \in Nat PROVE Cardinality(ContainersOf(args, h)) <= 1
  <2>1. {j \in DOMAIN args : args[j].host <= h /\ h < args[j].host + args[j].size}
          = {j \in 1..(n + 1) : Holds(h, j)}
    BY <1>3
  <2>2. CASE \E j \in 1..(n + 1) : Holds(h, j)
    <3>1. PICK j \in 1..(n + 1) : Holds(h, j)
      BY <2>2
    <3>2. {i \in 1..(n + 1) : Holds(h, i)} = {j}
      BY <1>5, <3>1
    <3>3. ContainersOf(args, h) = {args[j].container + (h - args[j].host)}
      BY <2>1, <3>2 DEF ContainersOf
    <3>4. Cardinality(ContainersOf(args, h)) = 1
      BY <3>3, FS_Singleton
    <3> QED
      BY <3>4
  <2>3. CASE ~ \E j \in 1..(n + 1) : Holds(h, j)
    <3>1. {i \in 1..(n + 1) : Holds(h, i)} = {}
      BY <2>3
    <3>2. ContainersOf(args, h) = {}
      BY <2>1, <3>1 DEF ContainersOf
    <3> QED
      BY <3>2, FS_EmptySet
  <2> QED
    BY <2>2, <2>3
<1> QED
  BY <1>2, <1>6 DEF Injective

(* A list with an item added, unless it is there.                          *)
Added(l, x) == IF \E i \in 1..Len(l) : l[i] = x THEN l ELSE Append(l, x)

(* The loop of withoutDuplicates keeps the first occurrence of every item. *)
LEMMA DistinctIs ==
  ASSUME NEW S, NEW s \in Seq(S), NEW n \in Nat, n = Len(s)
  PROVE  /\ Distinct(s)[1] = <<>>
         /\ \A k \in 1..n : Distinct(s)[k + 1] = Added(Distinct(s)[k], s[k])
<1>1. \A k \in 1..n : s[k] \in S
  BY ElementOfSeq
<1> DEFINE Add(l, x) == IF \E i \in 1..Len(l) : l[i] = x THEN l ELSE Append(l, x)
           Is(f) == f = [k \in 1..(n + 1) |-> IF k = 1 THEN <<>> ELSE Add(f[k - 1], s[k - 1])]
<1>2. Distinct(s) = CHOOSE f : Is(f)
  BY DEF Distinct
<1>3. ASSUME NEW l \in Seq(S), NEW x \in S PROVE Add(l, x) \in Seq(S)
  BY AppendProperties
<1> HIDE DEF Add
<1>4. \E f : Is(f)
  <2>1. PICK L : L = Seq(S)
    OBVIOUS
  <2>2. \A l \in L, x \in S : Add(l, x) \in L
    BY <1>3, <2>1
  <2> DEFINE round == [k \in 1..n |-> [l \in L |-> Add(l, s[k])]]
  <2>3. round \in [1..n -> [L -> L]]
    BY <1>1, <2>2
  <2>4. \A k \in 1..n, l \in L : round[k][l] = Add(l, s[k])
    OBVIOUS
  <2> HIDE DEF round
  <2>5. PICK f \in [1..(n + 1) -> L] : f[1] = <<>> /\ \A k \in 1..n : f[k + 1] = round[k][f[k]]
    <3>1. round \in Loops(n, L) /\ <<>> \in L
      BY <2>1, <2>3, EmptySeq DEF Loops
    <3>2. \E f \in Traces(n, L) : IsTrace(f, n, <<>>, round)
      BY <3>1, LoopTrace
    <3> QED
      BY <3>2 DEF Traces, IsTrace
  <2>6. ASSUME NEW k \in 1..(n + 1)
        PROVE  f[k] = IF k = 1 THEN <<>> ELSE Add(f[k - 1], s[k - 1])
    <3>1. CASE k = 1
      BY <2>5, <3>1
    <3>2. CASE k # 1
      <4>1. k - 1 \in 1..n /\ k - 1 \in 1..(n + 1) /\ (k - 1) + 1 = k
        BY <3>2
      <4>2. f[k - 1] \in L
        BY <4>1
      <4>3. f[(k - 1) + 1] = Add(f[k - 1], s[k - 1])
        BY <2>4, <2>5, <4>1, <4>2
      <4> QED
        BY <3>2, <4>1, <4>3
    <3> QED
      BY <3>1, <3>2
  <2>7. Is(f)
    BY <2>6
  <2> QED
    BY <2>7
<1>5. Is(Distinct(s))
  <2> HIDE DEF Is
  <2> QED
    BY <1>2, <1>4
<1>6. PICK list : list = Distinct(s)
  OBVIOUS
<1>7. list = [k \in 1..(n + 1) |-> IF k = 1 THEN <<>> ELSE Add(list[k - 1], s[k - 1])]
  BY <1>5, <1>6
<1>8. ASSUME NEW k \in 1..(n + 1)
      PROVE  list[k] = IF k = 1 THEN <<>> ELSE Add(list[k - 1], s[k - 1])
  BY <1>7
<1>9. list[1] = <<>>
  <2>1. 1 \in 1..(n + 1)
    OBVIOUS
  <2> QED
    BY <1>8, <2>1
<1>10. ASSUME NEW k \in 1..n PROVE list[k + 1] = Add(list[k], s[k])
  <2>1. k + 1 \in 1..(n + 1) /\ k + 1 # 1 /\ (k + 1) - 1 = k
    OBVIOUS
  <2>2. list[k + 1] = Add(list[(k + 1) - 1], s[(k + 1) - 1])
    BY <1>8, <2>1
  <2> QED
    BY <2>1, <2>2
<1> QED
  BY <1>6, <1>9, <1>10 DEF Add, Added

(* withoutDuplicates returns every item once (dynidtools.go:17-27).        *)
THEOREM EveryItemOnce ==
  ASSUME NEW S, NEW s \in Seq(S)
  PROVE  /\ WithoutDuplicates(s) \in Seq(S)
         /\ \A x \in S : (\E i \in 1..Len(s) : s[i] = x) <=>
                         (\E i \in 1..Len(WithoutDuplicates(s)) : WithoutDuplicates(s)[i] = x)
         /\ \A i, j \in 1..Len(WithoutDuplicates(s)) :
              WithoutDuplicates(s)[i] = WithoutDuplicates(s)[j] => i = j
<1>1. PICK n \in Nat : n = Len(s)
  BY LenProperties
<1>2. PICK list : list = Distinct(s)
  OBVIOUS
<1>3. /\ list[1] = <<>>
      /\ \A k \in 1..n : list[k + 1] = Added(list[k], s[k])
  BY <1>1, <1>2, DistinctIs
<1> DEFINE Among(l, x) == \E i \in 1..Len(l) : l[i] = x
           Once(l) == \A i, j \in 1..Len(l) : l[i] = l[j] => i = j
           G == {k \in 1..(n + 1) : /\ list[k] \in Seq(S) /\ Once(list[k])
                              /\ \A x \in S : (\E i \in 1..(k - 1) : s[i] = x) <=> Among(list[k], x)}
<1>4. 1 \in G
  <2>1. <<>> \in Seq(S)
    BY EmptySeq
  <2>2. 1..Len(<<>>) = {} /\ 1..(1 - 1) = {}
    OBVIOUS
  <2>3. Once(<<>>) /\ \A x \in S : ~Among(<<>>, x)
    BY <2>2
  <2>4. \A x \in S : ~(\E i \in 1..(1 - 1) : s[i] = x)
    BY <2>2
  <2>5. 1 \in 1..(n + 1)
    OBVIOUS
  <2> HIDE DEF Once, Among
  <2> QED
    BY <1>3, <2>1, <2>3, <2>4, <2>5
<1>5. ASSUME NEW k \in 1..n, k \in G PROVE k + 1 \in G
  <2>1. PICK l \in Seq(S) : l = list[k]
    BY <1>5
  <2>2. Once(l) /\ \A x \in S : (\E i \in 1..(k - 1) : s[i] = x) <=> Among(l, x)
    BY <1>5, <2>1
  <2>3. s[k] \in S /\ k + 1 \in 1..(n + 1) /\ (k + 1) - 1 = k
    BY <1>1, ElementOfSeq
  <2>4. \A x \in S : (\E i \in 1..k : s[i] = x) <=> (x = s[k] \/ \E i \in 1..(k - 1) : s[i] = x)
    <3>1. \A i \in 1..k : i = k \/ i \in 1..(k - 1)
      OBVIOUS
    <3>2. k \in 1..k /\ \A i \in 1..(k - 1) : i \in 1..k
      OBVIOUS
    <3> QED
      BY <3>1, <3>2, Zenon
  <2>5. CASE Among(l, s[k])
    <3>1. list[k + 1] = l
      BY <1>3, <2>1, <2>5 DEF Added
    <3>2. \A x \in S : (\E i \in 1..k : s[i] = x) <=> Among(l, x)
      <4> HIDE DEF Among
      <4> QED
        BY <2>2, <2>3, <2>4, <2>5
    <3> HIDE DEF Among, Once
    <3> QED
      BY <2>2, <2>3, <3>1, <3>2
  <2>6. CASE ~Among(l, s[k])
    <3>1. PICK m \in Nat : m = Len(l)
      BY LenProperties
    <3>2. PICK a \in Seq(S) : a = Append(l, s[k])
      BY <2>3, AppendProperties
    <3>3. /\ Len(a) = m + 1 /\ a[m + 1] = s[k]
          /\ \A i \in 1..m : a[i] = l[i]
      BY <2>3, <3>1, <3>2, AppendProperties
    <3>4. list[k + 1] = a
      BY <1>3, <2>1, <2>6, <3>2 DEF Added
    <3>5. Once(a)
      <4>1. \A i \in 1..(m + 1) : i = m + 1 \/ i \in 1..m
        OBVIOUS
      <4>2. \A i \in 1..m : a[i] # s[k]
        BY <2>6, <3>1, <3>3
      <4>3. \A i, j \in 1..m : a[i] = a[j] => i = j
        BY <2>2, <3>1, <3>3
      <4>4. \A i, j \in 1..(m + 1) : a[i] = a[j] => i = j
        BY <3>3, <4>1, <4>2, <4>3, Zenon
      <4> QED
        BY <3>3, <4>4
    <3>6. \A x \in S : Among(a, x) <=> (x = s[k] \/ Among(l, x))
      <4>1. \A i \in 1..(m + 1) : i = m + 1 \/ i \in 1..m
        OBVIOUS
      <4>2. m + 1 \in 1..(m + 1) /\ \A i \in 1..m : i \in 1..(m + 1)
        OBVIOUS
      <4>3. \A x \in S : (\E i \in 1..(m + 1) : a[i] = x) <=> (x = s[k] \/ \E i \in 1..m : l[i] = x)
        BY <3>3, <4>1, <4>2, Zenon
      <4> QED
        BY <3>1, <3>3, <4>3
    <3>7. \A x \in S : (\E i \in 1..k : s[i] = x) <=> Among(a, x)
      <4> HIDE DEF Among
      <4> QED
        BY <2>2, <2>4, <3>6
    <3> HIDE DEF Among, Once
    <3> QED
      BY <2>3, <3>4, <3>5, <3>7
  <2> QED
    BY <2>5, <2>6
<1>6. \A k \in 1..(n + 1) : k \in G
  <2> HIDE DEF G
  <2> QED
    BY <1>4, <1>5, UpTo
<1>7. n + 1 \in G /\ (n + 1) - 1 = n
  <2>1. n + 1 \in 1..(n + 1) /\ (n + 1) - 1 = n
    OBVIOUS
  <2> QED
    BY <1>6, <2>1
<1> QED
  BY <1>1, <1>2, <1>7 DEF WithoutDuplicates

(* The loop of parseSubidFile collects the ranges of the user's lines.     *)
LEMMA RangeListIs ==
  ASSUME NEW R, NEW lines, NEW n \in Nat, n = Len(lines),
         \A k \in 1..n : Mine(lines[k]) => lines[k].range \in R
  PROVE  RangeList(lines)[n + 1] \in Seq(R)
<1> DEFINE Add(l, x) == IF Mine(x) THEN Append(l, x.range) ELSE l
           Is(f) == f = [k \in 1..(n + 1) |-> IF k = 1 THEN <<>> ELSE Add(f[k - 1], lines[k - 1])]
<1>1. RangeList(lines) = CHOOSE f : Is(f)
  BY DEF RangeList
<1>2. PICK L : L = Seq(R)
  OBVIOUS
<1>3. ASSUME NEW l \in L, NEW k \in 1..n PROVE Add(l, lines[k]) \in L
  <2>1. Mine(lines[k]) => lines[k].range \in R
    OBVIOUS
  <2> QED
    BY <1>2, <2>1, AppendProperties
<1> HIDE DEF Add
<1>4. <<>> \in L
  BY <1>2, EmptySeq
<1>5. \E f : Is(f)
  <2> DEFINE round == [k \in 1..n |-> [l \in L |-> Add(l, lines[k])]]
  <2>1. round \in [1..n -> [L -> L]]
    BY <1>3
  <2>2. \A k \in 1..n, l \in L : round[k][l] = Add(l, lines[k])
    OBVIOUS
  <2> HIDE DEF round
  <2>3. PICK f \in [1..(n + 1) -> L] : f[1] = <<>> /\ \A k \in 1..n : f[k + 1] = round[k][f[k]]
    <3>1. round \in Loops(n, L)
      BY <2>1 DEF Loops
    <3>2. \E f \in Traces(n, L) : IsTrace(f, n, <<>>, round)
      BY <1>4, <3>1, LoopTrace
    <3> QED
      BY <3>2 DEF Traces, IsTrace
  <2>4. ASSUME NEW k \in 1..(n + 1)
        PROVE  f[k] = IF k = 1 THEN <<>> ELSE Add(f[k - 1], lines[k - 1])
    <3>1. CASE k = 1
      BY <2>3, <3>1
    <3>2. CASE k # 1
      <4>1. k - 1 \in 1..n /\ k - 1 \in 1..(n + 1) /\ (k - 1) + 1 = k
        BY <3>2
      <4>2. f[k - 1] \in L
        BY <4>1
      <4>3. f[(k - 1) + 1] = Add(f[k - 1], lines[k - 1])
        BY <2>2, <2>3, <4>1, <4>2
      <4> QED
        BY <3>2, <4>1, <4>3
    <3> QED
      BY <3>1, <3>2
  <2>5. Is(f)
    BY <2>4
  <2> QED
    BY <2>5
<1>6. Is(RangeList(lines))
  <2> HIDE DEF Is
  <2> QED
    BY <1>1, <1>5
<1>7. PICK list : list = RangeList(lines)
  OBVIOUS
<1>8. list = [k \in 1..(n + 1) |-> IF k = 1 THEN <<>> ELSE Add(list[k - 1], lines[k - 1])]
  BY <1>6, <1>7
<1>9. ASSUME NEW k \in 1..(n + 1)
      PROVE  list[k] = IF k = 1 THEN <<>> ELSE Add(list[k - 1], lines[k - 1])
  BY <1>8
<1> DEFINE G == {k \in 1..(n + 1) : list[k] \in L}
<1>10. 1 \in G
  <2>1. 1 \in 1..(n + 1)
    OBVIOUS
  <2>2. list[1] = <<>>
    BY <1>9, <2>1
  <2> QED
    BY <1>4, <2>1, <2>2
<1>11. ASSUME NEW k \in 1..n, k \in G PROVE k + 1 \in G
  <2>1. k + 1 \in 1..(n + 1) /\ k + 1 # 1 /\ (k + 1) - 1 = k /\ list[k] \in L
    BY <1>11
  <2>2. Add(list[k], lines[k]) \in L
    BY <1>3, <2>1
  <2>3. list[k + 1] = Add(list[(k + 1) - 1], lines[(k + 1) - 1])
    BY <1>9, <2>1
  <2> QED
    BY <2>1, <2>2, <2>3
<1>12. \A k \in 1..(n + 1) : k \in G
  <2> HIDE DEF G
  <2> QED
    BY <1>10, <1>11, UpTo
<1>13. n + 1 \in 1..(n + 1)
  OBVIOUS
<1> QED
  BY <1>2, <1>7, <1>12, <1>13

-----------------------------------------------------------------------------
(* What the files and getsubids may say: any lines, with ranges of D.    *)
LineOf(D) == [who : {"malformed", "blank", "other", "uid", "name"}, range : D \cup {Unparsable}]
Answer(D) == [exit0 : BOOLEAN, lines : Seq(D \cup {Unparsable})]
Envs(D) == [subuid : Seq(LineOf(D)), subgid : Seq(LineOf(D)), getsubids : BOOLEAN,
            uName : Answer(D), uUID : Answer(D), gName : Answer(D), gUID : Answer(D)]

(* A file that is read without an error gives ranges.                      *)
LEMMA ParsedFile ==
  ASSUME NEW D, NEW lines \in Seq(LineOf(D)), ParseSubidFile(lines).ok
  PROVE  ParseSubidFile(lines).ranges \in Seq(D)
<1>1. PICK n \in Nat : n = Len(lines)
  BY LenProperties
<1>2. \A k \in 1..n : lines[k] \in LineOf(D)
  BY <1>1, ElementOfSeq
<1>3. ParseSubidFile(lines) =
        IF \E i \in 1..n : lines[i].who = "malformed" \/ (Mine(lines[i]) /\ lines[i].range = Unparsable)
        THEN Error ELSE [ok |-> TRUE, ranges |-> RangeList(lines)[n + 1]]
  BY <1>1 DEF ParseSubidFile
<1>4. \A k \in 1..n : ~(Mine(lines[k]) /\ lines[k].range = Unparsable)
  BY <1>3 DEF Error
<1>5. ASSUME NEW k \in 1..n, Mine(lines[k]) PROVE lines[k].range \in D
  <2>1. lines[k].range \in D \cup {Unparsable}
    BY <1>2 DEF LineOf
  <2> QED
    BY <1>4, <1>5, <2>1
<1>6. RangeList(lines)[n + 1] \in Seq(D)
  BY <1>1, <1>5, RangeListIs
<1>7. ParseSubidFile(lines).ranges = RangeList(lines)[n + 1]
  BY <1>3 DEF Error
<1> QED
  BY <1>6, <1>7

(* What is taken from an answer of getsubids are ranges.                   *)
LEMMA TakenAnswer ==
  ASSUME NEW D, NEW out \in Answer(D)
  PROVE  ExecGetsubids(out).ranges \in Seq(D)
<1>1. CASE ~out.exit0
  BY <1>1, EmptySeq DEF ExecGetsubids
<1>2. CASE out.exit0
  <2>1. PICK lines \in Seq(D \cup {Unparsable}) : lines = out.lines
    BY DEF Answer
  <2>2. PICK n \in Nat : n = Len(lines) /\ DOMAIN lines = 1..n
    BY LenProperties
  <2> DEFINE bad == {i \in DOMAIN lines : lines[i] = Unparsable}
             last == IF bad = {} THEN n ELSE Min(bad) - 1
  <2>3. \A i \in 1..n : lines[i] \in D \cup {Unparsable}
    BY <2>2, ElementOfSeq
  <2>4. bad \in SUBSET Nat /\ \A i \in bad : i \in 1..n
    BY <2>2
  <2>5. \A i \in 1..n : i \notin bad => lines[i] \in D
    BY <2>2, <2>3
  <2>6. ExecGetsubids(out).ranges = SubSeq(lines, 1, last)
    BY <1>2, <2>1, <2>2 DEF ExecGetsubids
  <2> HIDE DEF bad
  <2>7. last \in Int /\ \A i \in 1..last : i \in 1..n /\ i \notin bad
    <3>1. CASE bad = {}
      BY <3>1
    <3>2. CASE bad # {}
      <4>1. \E m \in bad : \A k \in bad : m <= k
        BY <2>4, <3>2, LeastNat
      <4>2. Min(bad) \in bad /\ \A k \in bad : Min(bad) <= k
        BY <4>1 DEF Min
      <4>3. PICK m \in 1..n : m = Min(bad)
        BY <2>4, <4>2
      <4>4. ASSUME NEW i \in 1..(m - 1) PROVE i \in 1..n /\ i \notin bad
        BY <4>2, <4>3
      <4> QED
        BY <3>2, <4>3, <4>4
    <3> QED
      BY <3>1, <3>2
  <2> HIDE DEF last
  <2>8. \A i \in 1..last : lines[i] \in D
    BY <2>5, <2>7
  <2>9. SubSeq(lines, 1, last) \in Seq(D)
    BY <2>7, <2>8, SubSeqProperties
  <2> QED
    BY <2>6, <2>9
<1> QED
  BY <1>1, <1>2 DEF Answer

(* The end of a map is one more than what the ranges hold.                 *)
LEMMA MapTotal ==
  ASSUME NEW ranges \in Seq(SubRanges), NEW n \in Nat, n = Len(ranges)
  PROVE  MapLast(ranges)[n + 1] = 1 + Total(ranges)
<1>1. PICK last \in [1..(n + 1) -> Nat] : last = MapLast(ranges)
  BY MapLastIs
<1>2. /\ last[1] = 1
      /\ \A k \in 1..n : Length(ranges[k]) \in Nat /\ last[k + 1] = last[k] + Length(ranges[k])
  BY <1>1, MapLastIs
<1> DEFINE Is(f) == f = [k \in 1..(n + 1) |-> IF k = 1 THEN 0 ELSE f[k - 1] + Length(ranges[k - 1])]
<1>3. Total(ranges) = (CHOOSE f : Is(f))[n + 1]
  BY DEF Total
<1>4. \E f : Is(f)
  <2> DEFINE f == [k \in 1..(n + 1) |-> last[k] - 1]
  <2>1. ASSUME NEW k \in 1..(n + 1) PROVE f[k] = IF k = 1 THEN 0 ELSE f[k - 1] + Length(ranges[k - 1])
    <3>1. CASE k = 1
      BY <1>2, <3>1
    <3>2. CASE k # 1
      <4>1. k - 1 \in 1..n /\ k - 1 \in 1..(n + 1) /\ (k - 1) + 1 = k
        BY <3>2
      <4>2. f[k - 1] = last[k - 1] - 1 /\ f[k] = last[k] - 1
        BY <4>1
      <4>3. /\ last[(k - 1) + 1] = last[k - 1] + Length(ranges[k - 1])
            /\ last[k - 1] \in Nat /\ Length(ranges[k - 1]) \in Nat
        BY <1>2, <4>1
      <4>4. last[k] = last[k - 1] + Length(ranges[k - 1])
        BY <4>1, <4>3
      <4> HIDE DEF f
      <4> QED
        BY <3>2, <4>2, <4>3, <4>4
    <3> QED
      BY <3>1, <3>2
  <2>2. f = [k \in 1..(n + 1) |-> f[k]]
    OBVIOUS
  <2> HIDE DEF f
  <2>3. Is(f)
    BY <2>1, <2>2
  <2> QED
    BY <2>3
<1>5. PICK sum : sum = CHOOSE f : Is(f)
  OBVIOUS
<1>6. Is(sum)
  <2> HIDE DEF Is
  <2> QED
    BY <1>4, <1>5
<1>7. ASSUME NEW k \in 1..(n + 1) PROVE sum[k] = IF k = 1 THEN 0 ELSE sum[k - 1] + Length(ranges[k - 1])
  BY <1>6
<1> DEFINE G == {k \in 1..(n + 1) : sum[k] \in Nat /\ last[k] = 1 + sum[k]}
<1>8. 1 \in G
  <2>1. 1 \in 1..(n + 1)
    OBVIOUS
  <2>2. sum[1] = 0
    BY <1>7, <2>1
  <2> QED
    BY <1>2, <2>1, <2>2
<1>9. ASSUME NEW k \in 1..n, k \in G PROVE k + 1 \in G
  <2>1. /\ k + 1 \in 1..(n + 1) /\ k + 1 # 1 /\ (k + 1) - 1 = k
        /\ sum[k] \in Nat /\ last[k] = 1 + sum[k]
    BY <1>9
  <2>2. sum[k + 1] = sum[(k + 1) - 1] + Length(ranges[(k + 1) - 1])
    BY <1>7, <2>1
  <2>3. Length(ranges[k]) \in Nat /\ last[k + 1] = last[k] + Length(ranges[k])
    BY <1>2
  <2> QED
    BY <2>1, <2>2, <2>3
<1>10. \A k \in 1..(n + 1) : k \in G
  <2> HIDE DEF G
  <2> QED
    BY <1>8, <1>9, UpTo
<1>11. n + 1 \in 1..(n + 1)
  OBVIOUS
<1> QED
  BY <1>1, <1>3, <1>5, <1>10, <1>11

(* The static source gives ranges of both kinds, or an error.              *)
LEMMA StaticRanges ==
  ASSUME NEW D, NEW env \in Envs(D), StaticSubIDRanges(env).ok
  PROVE  /\ StaticSubIDRanges(env).u \in Seq(D) /\ StaticSubIDRanges(env).g \in Seq(D)
         /\ StaticSubIDRanges(env).u # <<>> /\ StaticSubIDRanges(env).g # <<>>
<1>1. PICK us \in Seq(LineOf(D)), gs \in Seq(LineOf(D)) : us = env.subuid /\ gs = env.subgid
  BY DEF Envs
<1>2. /\ ParseSubidFile(us).ok /\ ParseSubidFile(gs).ok
      /\ ParseSubidFile(us).ranges # <<>> /\ ParseSubidFile(gs).ranges # <<>>
  BY <1>1 DEF StaticSubIDRanges, Error
<1>3. StaticSubIDRanges(env) = Ranges(ParseSubidFile(us).ranges, ParseSubidFile(gs).ranges)
  BY <1>1, <1>2 DEF StaticSubIDRanges
<1>4. ParseSubidFile(us).ranges \in Seq(D) /\ ParseSubidFile(gs).ranges \in Seq(D)
  BY <1>2, ParsedFile
<1> QED
  BY <1>2, <1>3, <1>4 DEF Ranges

(* The dynamic source gives ranges, each once, or an error.                *)
Listed(s) == \A i, j \in 1..Len(s) : s[i] = s[j] => i = j

LEMMA DynamicRanges ==
  ASSUME NEW D, NEW env \in Envs(D), DynamicSubIDRanges(env).ok
  PROVE  /\ DynamicSubIDRanges(env).u \in Seq(D) /\ DynamicSubIDRanges(env).g \in Seq(D)
         /\ Listed(DynamicSubIDRanges(env).u) /\ Listed(DynamicSubIDRanges(env).g)
<1>1. /\ env.uName \in Answer(D) /\ env.uUID \in Answer(D)
      /\ env.gName \in Answer(D) /\ env.gUID \in Answer(D)
  BY DEF Envs
<1>2. PICK a \in Seq(D), b \in Seq(D), c \in Seq(D), d \in Seq(D) :
        /\ a = ExecGetsubids(env.uName).ranges /\ b = ExecGetsubids(env.uUID).ranges
        /\ c = ExecGetsubids(env.gName).ranges /\ d = ExecGetsubids(env.gUID).ranges
  BY <1>1, TakenAnswer
<1>3. DynamicSubIDRanges(env) = Ranges(WithoutDuplicates(a \o b), WithoutDuplicates(c \o d))
  BY <1>2 DEF DynamicSubIDRanges, Error
<1>4. a \o b \in Seq(D) /\ c \o d \in Seq(D)
  BY ConcatProperties
<1>5. PICK x \in Seq(D), y \in Seq(D) : x = a \o b /\ y = c \o d
  BY <1>4
<1>6. /\ WithoutDuplicates(x) \in Seq(D) /\ Listed(WithoutDuplicates(x))
      /\ WithoutDuplicates(y) \in Seq(D) /\ Listed(WithoutDuplicates(y))
  BY EveryItemOnce DEF Listed
<1> QED
  BY <1>3, <1>5, <1>6 DEF Ranges

(* Whatever the source, what is used are ranges; "auto" uses one source    *)
(* for both kinds, the files if getsubids has nothing for one of them.     *)
Sources == {"static", "dynamic", "auto"}

LEMMA UsedRanges ==
  ASSUME NEW D, NEW source \in Sources, NEW env \in Envs(D)
  PROVE  /\ GetSubIDRanges(source, env).ok =>
              GetSubIDRanges(source, env).u \in Seq(D) /\ GetSubIDRanges(source, env).g \in Seq(D)
         /\ GetSubIDRanges(source, env) = DynamicSubIDRanges(env) /\ GetSubIDRanges(source, env).ok =>
              Listed(GetSubIDRanges(source, env).u) /\ Listed(GetSubIDRanges(source, env).g)
         /\ source = "auto" =>
              /\ StaticSubIDRanges(env).ok => GetSubIDRanges(source, env).ok
              /\ GetSubIDRanges(source, env) \in {DynamicSubIDRanges(env), StaticSubIDRanges(env)}
              /\ GetSubIDRanges(source, env).ok =>
                   GetSubIDRanges(source, env).u # <<>> /\ GetSubIDRanges(source, env).g # <<>>
<1>1. GetSubIDRanges(source, env) \in {DynamicSubIDRanges(env), StaticSubIDRanges(env)}
  BY DEF GetSubIDRanges, Sources
<1>2. ASSUME GetSubIDRanges(source, env).ok
      PROVE  GetSubIDRanges(source, env).u \in Seq(D) /\ GetSubIDRanges(source, env).g \in Seq(D)
  BY <1>1, <1>2, StaticRanges, DynamicRanges
<1>3. ASSUME GetSubIDRanges(source, env) = DynamicSubIDRanges(env), GetSubIDRanges(source, env).ok
      PROVE  Listed(GetSubIDRanges(source, env).u) /\ Listed(GetSubIDRanges(source, env).g)
  BY <1>3, DynamicRanges
<1>4. ASSUME source = "auto"
      PROVE  /\ StaticSubIDRanges(env).ok => GetSubIDRanges(source, env).ok
             /\ GetSubIDRanges(source, env).ok =>
                  GetSubIDRanges(source, env).u # <<>> /\ GetSubIDRanges(source, env).g # <<>>
  <2>1. GetSubIDRanges(source, env) =
          IF DynamicSubIDRanges(env).ok
             /\ (DynamicSubIDRanges(env).ok => DynamicSubIDRanges(env).u # <<>> /\ DynamicSubIDRanges(env).g # <<>>)
          THEN DynamicSubIDRanges(env) ELSE StaticSubIDRanges(env)
    BY <1>4 DEF GetSubIDRanges
  <2> QED
    BY <2>1, StaticRanges
<1> QED
  BY <1>1, <1>2, <1>3, <1>4

LEMMA MapLength ==
  ASSUME NEW id \in Nat, NEW ranges \in Seq(SubRanges), ranges # <<>>
  PROVE  Len(NewugidmapArgs(id, ranges)) > 1
<1>1. PICK n \in Nat : n = Len(ranges) /\ n > 0
  BY EmptySeq, LenProperties
<1>2. PICK args : args = NewugidmapArgs(id, ranges)
  OBVIOUS
<1>3. args \in [1..(n + 1) -> {args[i] : i \in 1..(n + 1)}]
  BY <1>1, <1>2 DEF NewugidmapArgs
<1>4. n + 1 \in Nat
  OBVIOUS
<1>5. args \in Seq({args[i] : i \in 1..(n + 1)})
  BY <1>3, <1>4, SeqDef
<1>6. Len(args) \in Nat /\ 1..Len(args) = 1..(n + 1)
  BY <1>3, <1>5, LenProperties
<1>7. n + 1 \in 1..(n + 1)
  OBVIOUS
<1>8. n + 1 \in 1..Len(args)
  BY <1>6, <1>7
<1> QED
  BY <1>1, <1>2, <1>6, <1>8

(* No two of the ranges share an ID, and none holds the user's.            *)
Separate(D, id) ==
  /\ \A a \in D : id \notin HostSet(a)
  /\ \A a, b \in D : a # b => HostSet(a) \cap HostSet(b) = {}

(* Whatever the files say and getsubids answers, in whatever order and     *)
(* however often: the maps are usable, provided that the ranges which are  *)
(* delegated to the user do not overlap (parent.go:363-432,                *)
(* dynidtools.go:17-71, idtools.go:22-83).                                 *)
THEOREM AnyMapsUsable ==
  ASSUME NEW D \in SUBSET SubRanges, NEW uid \in Nat, NEW gid \in Nat,
         Separate(D, uid), Separate(D, gid),
         NEW source \in Sources, NEW env \in Envs(D), NEW hosts \in SUBSET Nat
  PROVE  MapsUsable(UGIDMapArgs(uid, gid, source, env), uid, gid, source, env, hosts)
<1>1. PICK r : r = GetSubIDRanges(source, env)
  OBVIOUS
<1>2. PICK out : out = UGIDMapArgs(uid, gid, source, env)
  OBVIOUS
<1>3. /\ out.ok <=> r.ok
      /\ r.ok => out.u = NewugidmapArgs(uid, r.u) /\ out.g = NewugidmapArgs(gid, r.g)
  BY <1>1, <1>2 DEF UGIDMapArgs, Error
<1>4. r.ok => r.u \in Seq(D) /\ r.g \in Seq(D)
  BY <1>1, UsedRanges
<1>5. ASSUME NEW s \in Seq(D) PROVE s \in Seq(SubRanges) /\ \A i \in 1..Len(s) : s[i] \in D
  <2>1. Seq(D) \subseteq Seq(SubRanges)
    BY SeqMonotonic
  <2> QED
    BY <2>1, ElementOfSeq
<1>6. ASSUME NEW s \in Seq(D), NEW id \in Nat, Separate(D, id)
      PROVE  /\ Tiles(NewugidmapArgs(id, s), 1 + Total(s)) /\ HostsOf(NewugidmapArgs(id, s), 0) = {id}
             /\ Listed(s) => Injective(NewugidmapArgs(id, s), hosts)
             /\ s # <<>> => Len(NewugidmapArgs(id, s)) > 1
  <2>1. s \in Seq(SubRanges)
    BY <1>5
  <2>2. Tiles(NewugidmapArgs(id, s), 1 + Total(s)) /\ HostsOf(NewugidmapArgs(id, s), 0) = {id}
    <3>1. PICK n \in Nat : n = Len(s)
      BY <2>1, LenProperties
    <3>2. MapLast(s)[Len(s) + 1] = 1 + Total(s)
      BY <2>1, <3>1, MapTotal
    <3> QED
      BY <2>1, <3>2, MapTiles
  <2>3. s # <<>> => Len(NewugidmapArgs(id, s)) > 1
    BY <2>1, MapLength
  <2>4. ASSUME Listed(s) PROVE Injective(NewugidmapArgs(id, s), hosts)
    <3>1. \A i \in 1..Len(s) : id \notin HostSet(s[i])
      BY <1>5, <1>6 DEF Separate
    <3>2. \A i, j \in 1..Len(s) : s[i] # s[j] => HostSet(s[i]) \cap HostSet(s[j]) = {}
      BY <1>5, <1>6 DEF Separate
    <3>3. \A i, j \in 1..Len(s) : s[i] = s[j] => i = j
      BY <2>4 DEF Listed
    <3> QED
      BY <2>1, <3>1, <3>2, <3>3, MapInjective
  <2> QED
    BY <2>2, <2>3, <2>4
<1>7. ASSUME out.ok
      PROVE  /\ Tiles(out.u, 1 + Total(r.u)) /\ Tiles(out.g, 1 + Total(r.g))
             /\ HostsOf(out.u, 0) = {uid} /\ HostsOf(out.g, 0) = {gid}
             /\ r = DynamicSubIDRanges(env) => Injective(out.u, hosts) /\ Injective(out.g, hosts)
             /\ r.u # <<>> => Len(out.u) > 1
             /\ r.g # <<>> => Len(out.g) > 1
  <2>1. PICK us \in Seq(D), gs \in Seq(D) : us = r.u /\ gs = r.g
    BY <1>3, <1>4, <1>7
  <2>2. r.ok /\ out.u = NewugidmapArgs(uid, us) /\ out.g = NewugidmapArgs(gid, gs)
    BY <1>3, <1>7, <2>1
  <2>3. r = DynamicSubIDRanges(env) => Listed(us) /\ Listed(gs)
    BY <1>1, <2>1, <2>2, UsedRanges
  <2> QED
    BY <1>6, <2>1, <2>2, <2>3
<1>8. ASSUME source = "auto"
      PROVE  /\ StaticSubIDRanges(env).ok => out.ok
             /\ out.ok => /\ r \in {DynamicSubIDRanges(env), StaticSubIDRanges(env)}
                          /\ Len(out.u) > 1 /\ Len(out.g) > 1
  <2>1. /\ StaticSubIDRanges(env).ok => r.ok
        /\ r \in {DynamicSubIDRanges(env), StaticSubIDRanges(env)}
        /\ r.ok => r.u # <<>> /\ r.g # <<>>
    BY <1>1, <1>8, UsedRanges
  <2> QED
    BY <1>3, <1>7, <2>1
<1> QED
  BY <1>1, <1>2, <1>7, <1>8 DEF MapsUsable

-----------------------------------------------------------------------------
(* The instance that the model checker enumerates.                         *)

InputInv ==
  /\ input \in IDInputs \/ input.kind \in {"port", "frames"}
  /\ computed # <<>> /\ input.kind = "id" =>
       computed = <<UGIDMapArgs(UserID, GroupID, input.source, input.env)>>

LEMMA EnumeratedInputs ==
  ASSUME NEW x \in IDInputs
  PROVE  x.source \in Sources /\ x.env \in Envs({R1, R2})
<1> DEFINE D == {R1, R2}
<1>1. \A f \in BoundedSeq(Lines, 2) \cup FewFiles : f \in Seq(LineOf(D))
  <2>1. Lines \subseteq LineOf(D)
    BY DEF Lines, LineOf, Line
  <2>2. ASSUME NEW m \in 0..2, NEW f \in [1..m -> Lines] PROVE f \in Seq(LineOf(D))
    <3>1. m \in Nat /\ f \in Seq(Lines)
      BY SeqDef
    <3> QED
      BY <2>1, <3>1, SeqMonotonic
  <2>3. BoundedSeq(Lines, 2) \subseteq Seq(LineOf(D))
    BY <2>2 DEF BoundedSeq, SeqOf
  <2>4. Line("name", R2) \in LineOf(D) /\ Line("malformed", R1) \in LineOf(D)
    BY DEF Line, LineOf
  <2>5. FewFiles \subseteq Seq(LineOf(D))
    BY <2>4, EmptySeq DEF FewFiles
  <2> QED
    BY <2>3, <2>5
<1>2. \A a \in Answers \cup FewAnswers : a \in Answer(D)
  <2> DEFINE E == D \cup {Unparsable}
  <2>1. R1 \in E /\ R2 \in E /\ Unparsable \in E
    OBVIOUS
  <2> HIDE DEF E
  <2>2. <<>> \in Seq(E) /\ <<R1>> \in Seq(E) /\ <<R2>> \in Seq(E) /\ <<R2, R1>> \in Seq(E)
        /\ <<R1, Unparsable>> \in Seq(E) /\ <<Unparsable, R1>> \in Seq(E)
    BY <2>1
  <2>3. Answer(D) = [exit0 : BOOLEAN, lines : Seq(E)]
    BY DEF Answer, E
  <2>4. \A l \in Seq(E) : [exit0 |-> TRUE, lines |-> l] \in Answer(D) /\ [exit0 |-> FALSE, lines |-> l] \in Answer(D)
    BY <2>3
  <2> QED
    BY <2>2, <2>4 DEF Answers, FewAnswers, Prints, Fails
<1>3. Fails \in Answer(D)
  BY <1>2 DEF Answers
<1>4. CASE x \in StaticInputs
  <2>1. PICK u \in Files, g \in FewFiles : x = [kind |-> "id", source |-> "static", env |-> StaticEnv(u, g)]
    BY <1>4 DEF StaticInputs
  <2>2. x.source = "static" /\ x.env = StaticEnv(u, g)
    BY <2>1
  <2>3. u \in Seq(LineOf(D)) /\ g \in Seq(LineOf(D))
    BY <1>1 DEF Files
  <2>4. StaticEnv(u, g) \in Envs(D)
    BY <1>3, <2>3 DEF StaticEnv, Env, Envs
  <2> QED
    BY <2>2, <2>4 DEF Sources
<1>5. CASE x \in DynamicInputs
  <2>1. PICK s \in {"dynamic", "auto"}, u \in FewFiles, g \in FewFiles, has \in BOOLEAN,
             a \in Answers, b \in Answers, c \in FewAnswers, d \in FewAnswers :
          x = [kind |-> "id", source |-> s, env |-> Env(u, g, has, a, b, c, d)]
    BY <1>5 DEF DynamicInputs
  <2>2. x.source = s /\ x.env = Env(u, g, has, a, b, c, d)
    BY <2>1
  <2>3. /\ u \in Seq(LineOf(D)) /\ g \in Seq(LineOf(D))
        /\ a \in Answer(D) /\ b \in Answer(D) /\ c \in Answer(D) /\ d \in Answer(D)
    BY <1>1, <1>2
  <2>4. Env(u, g, has, a, b, c, d) \in Envs(D)
    BY <2>3 DEF Env, Envs
  <2> QED
    BY <2>2, <2>4 DEF Sources
<1> QED
  BY <1>4, <1>5 DEF IDInputs

(* The maps are usable for every environment of the model-checked          *)
(* instance: a case of AnyMapsUsable (parent.go:363-432).                  *)
THEOREM IDMapsUsable == Spec => []IDMapUsable
<1>1. Init => InputInv
  BY DEF Init, IsPortInput, InputInv
<1>2. InputInv /\ [Next]_<<frameVars, inputVars>> => InputInv'
  <2>1. SUFFICES ASSUME InputInv, [Next]_<<frameVars, inputVars>> PROVE InputInv'
    OBVIOUS
  <2>2. CASE Compute
    BY <2>1, <2>2 DEF Compute, InputInv
  <2>3. CASE Exchange
    BY <2>1, <2>3 DEF Exchange, inputVars, InputInv
  <2>4. CASE UNCHANGED <<frameVars, inputVars>>
    BY <2>1, <2>4 DEF inputVars, InputInv
  <2> QED
    BY <2>1, <2>2, <2>3, <2>4 DEF Next
<1>3. InputInv => IDMapUsable
  <2>1. SUFFICES ASSUME InputInv, computed # <<>>, input.kind = "id"
                 PROVE  MapsUsable(output, UserID, GroupID, input.source, input.env, HostIDs)
    BY DEF IDMapUsable
  <2>2. output = UGIDMapArgs(UserID, GroupID, input.source, input.env)
    BY <2>1 DEF InputInv, output
  <2>3. input \in IDInputs
    BY <2>1 DEF InputInv
  <2>4. {R1, R2} \in SUBSET SubRanges /\ UserID \in Nat /\ GroupID \in Nat /\ HostIDs \in SUBSET Nat
    BY DEF R1, R2, SubIDRange, SubRanges, UserID, GroupID, HostIDs
  <2>5. Separate({R1, R2}, UserID) /\ Separate({R1, R2}, GroupID)
    <3>1. Start(R1) = 100 /\ Length(R1) = 2 /\ Start(R2) = 200 /\ Length(R2) = 3
      BY DEF R1, R2, SubIDRange, Start, Length
    <3>2. /\ \A h \in HostSet(R1) : h \in Nat /\ 100 <= h /\ h < 102
          /\ \A h \in HostSet(R2) : h \in Nat /\ 200 <= h /\ h < 203
      BY <3>1 DEF HostSet
    <3>3. HostSet(R1) \cap HostSet(R2) = {}
      BY <3>2
    <3>4. /\ UserID \notin HostSet(R1) /\ UserID \notin HostSet(R2)
          /\ GroupID \notin HostSet(R1) /\ GroupID \notin HostSet(R2)
      BY <3>2 DEF UserID, GroupID
    <3> QED
      BY <3>3, <3>4 DEF Separate
  <2>6. input.source \in Sources /\ input.env \in Envs({R1, R2})
    BY <2>3, EnumeratedInputs
  <2> QED
    BY <2>2, <2>4, <2>5, <2>6, AnyMapsUsable
<1> QED
  BY <1>1, <1>2, <1>3, PTL DEF Spec

-----------------------------------------------------------------------------
(* Port specifications.                                                    *)

LEMMA GreatestNat ==
  ASSUME NEW n \in Nat, NEW S \in SUBSET (0..n), S # {}
  PROVE  \E m \in S : \A k \in S : k <= m
<1> DEFINE U == {u \in 0..n : \A k \in S : k <= u}
<1>1. U \in SUBSET Nat /\ n \in U
  OBVIOUS
<1>2. \A u \in U : u \in 0..n /\ \A k \in S : k <= u
  OBVIOUS
<1>3. \A u \in 0..n : u \notin U => \E k \in S : ~(k <= u)
  OBVIOUS
<1> HIDE DEF U
<1>4. PICK m \in U : \A u \in U : m <= u
  BY <1>1, LeastNat
<1>5. m \in S
  <2>1. SUFFICES ASSUME m \notin S PROVE FALSE
    OBVIOUS
  <2>2. \A k \in S : k \in 0..n /\ k <= m /\ k # m
    BY <1>2, <1>4, <2>1
  <2>3. m \in 0..n /\ m # 0
    <3>1. PICK k \in S : k \in 0..n /\ k <= m /\ k # m
      BY <2>2
    <3> QED
      BY <1>2, <1>4, <3>1
  <2>4. m - 1 \in 0..n /\ ~(m <= m - 1)
    BY <2>3
  <2>5. \A k \in S : k <= m - 1
    BY <2>2, <2>3
  <2>6. m - 1 \in U
    BY <1>3, <2>4, <2>5
  <2> QED
    BY <1>4, <2>4, <2>6
<1> QED
  BY <1>2, <1>4, <1>5

LEMMA LastIndexIs ==
  ASSUME NEW T, NEW s \in Seq(T), NEW tok
  PROVE  /\ LastIndex(s, tok) \in 0..Len(s)
         /\ LastIndex(s, tok) # 0 => s[LastIndex(s, tok)] = tok
<1>1. PICK n \in Nat : n = Len(s) /\ DOMAIN s = 1..n
  BY LenProperties
<1> DEFINE S == {0} \cup {i \in DOMAIN s : s[i] = tok}
<1>2. S \in SUBSET (0..n) /\ S # {} /\ \A i \in S : i # 0 => s[i] = tok
  BY <1>1
<1>3. LastIndex(s, tok) = Max(S)
  BY DEF LastIndex
<1> HIDE DEF S
<1>4. \E m \in S : \A k \in S : k <= m
  BY <1>2, GreatestNat
<1>5. Max(S) \in S
  BY <1>4 DEF Max
<1> QED
  BY <1>1, <1>2, <1>3, <1>5

(* No port specification makes the parser slice out of bounds: a colon     *)
(* behind the last slash would be in the protocol, and is then refused     *)
(* before the slice (portutil.go:48-64).                                   *)
THEOREM NoSpecPanics ==
  ASSUME NEW T, NEW s \in Seq(T)
  PROVE  ParsePortSpec(s) # Panic
<1>1. PICK n \in Nat : n = Len(s)
  BY LenProperties
<1>2. PICK a \in 0..n : a = LastIndex(s, "/")
  BY <1>1, LastIndexIs
<1>3. PICK b \in 0..n : b = LastIndex(s, ":") /\ (b # 0 => s[b] = ":")
  BY <1>1, LastIndexIs
<1> DEFINE proto == SubSeq(s, a + 1, n)
<1>4. ASSUME ValidateProto(proto), b # 0, b > a PROVE FALSE
  <2>1. \A i \in (a + 1)..n : s[i] \in T
    BY <1>1, ElementOfSeq
  <2>2. a + 1 \in Int /\ n \in Int
    OBVIOUS
  <2>3. /\ proto \in Seq(T) /\ Len(proto) = IF a + 1 <= n THEN n - (a + 1) + 1 ELSE 0
        /\ \A i \in 1..(n - (a + 1) + 1) : proto[i] = s[(a + 1) + i - 1]
    BY <2>1, <2>2, SubSeqProperties
  <2> HIDE DEF proto
  <2>4. Len(proto) = 1 /\ Head(proto) \in Protos
    BY <1>4 DEF ValidateProto
  <2>5. n = a + 1 /\ b = n
    <3>1. a + 1 <= n
      BY <1>4
    <3>2. n - (a + 1) + 1 = 1
      BY <2>3, <2>4, <3>1
    <3> QED
      BY <1>4, <3>2
  <2>6. proto[1] = s[n]
    BY <2>3, <2>5
  <2>7. Head(proto) = proto[1]
    BY <2>3, <2>4
  <2>8. ":" \in Protos
    BY <1>3, <1>4, <2>4, <2>5, <2>6, <2>7
  <2> QED
    BY <2>8 DEF Protos
<1>5. BadSpec # Panic
  BY DEF BadSpec, Panic
<1>6. \A c, d, e, f, g : [ok |-> TRUE, proto |-> c, parentIP |-> d, parentPort |-> e,
                          childIP |-> f, childPort |-> g] # Panic
  BY DEF Panic
<1>7. ParsePortSpec(s) = Panic => ValidateProto(proto) /\ b # 0 /\ b > a
  BY <1>1, <1>2, <1>3, <1>5, <1>6 DEF ParsePortSpec
<1> QED
  BY <1>4, <1>7
=============================================================================
