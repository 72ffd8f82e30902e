------------------------------ MODULE PortSpec ------------------------------
(***************************************************************************)
(* portutil.ParsePortSpec: the strings of rootlesskit -p and rootlessctl   *)
(* add-ports, as sequences of tokens: "[", "]", ":", "/", "n" (digits),    *)
(* "ip4" (an IPv4 address), "sign" (+ or -), " " (white space or a comment *)
(* in the syntax of Go) and protocols.                                     *)
(***************************************************************************)
EXTENDS Integers, SequencesExt

Protos == {"tcp", "tcp4", "tcp6", "udp", "udp4", "udp6", "sctp", "sctp4", "sctp6"}

BadSpec == [ok |-> FALSE]
Panic   == [ok |-> FALSE, panic |-> TRUE]   \* slice bounds out of range

\* strings.LastIndex, 0 if there is none.
LastIndex(s, tok) == Max({0} \cup {i \in DOMAIN s : s[i] = tok})

\* net.ParseIP: an IPv4 address, or digits and colons with one "::" and no other empty
\* group, the last group possibly an IPv4 address.
ParseIP(s) ==
  \/ s = <<"ip4">>
  \/ LET Double(i) == i \in 1..(Len(s) - 1) /\ s[i] = ":" /\ s[i + 1] = ":"
     IN /\ \A i \in DOMAIN s : s[i] \in {":", "n"} \/ (i = Len(s) /\ i > 1 /\ s[i] = "ip4" /\ s[i - 1] = ":")
        /\ Cardinality({i \in DOMAIN s : Double(i)}) = 1
        /\ s[1] = ":" => Double(1)
        /\ s[Len(s)] = ":" => Double(Len(s) - 1)

\* strconv.Atoi: digits, with or without a sign before them.
Atoi(s) ==
  LET digits == IF s # <<>> /\ Head(s) = "sign" THEN Tail(s) ELSE s
  IN digits # <<>> /\ \A i \in DOMAIN digits : digits[i] = "n"


\* One round of the loop over "<parent IP>:<parent port>[:<child IP>]"; index
\* counts from 1, and the token after a closing bracket is skipped unread.
ScanToken(st, tok) ==
  IF st.skip THEN [st EXCEPT !.skip = FALSE]
  ELSE IF st.err \/ st.index > 4 THEN [st EXCEPT !.err = TRUE]
  ELSE IF tok = "[" THEN [st EXCEPT !.delimiter = "]"]
  ELSE IF tok = st.delimiter
       THEN [st EXCEPT !.delimiter = ":", !.index = @ + 1, !.skip = (tok = "]")]
  ELSE [st EXCEPT !.parts[st.index] = Append(@, tok)]

\* parts: parent IP, parent port, child IP, child port; the child port is set before.
\* text/scanner passes over white space and comments.
Scan(text, childPort) ==
  LET tokens == SelectSeq(text, LAMBDA t : t # " ") IN
  FoldLeft(ScanToken, [parts |-> <<<<>>, <<>>, <<>>, childPort>>, index |-> 1,
                       delimiter |-> ":", skip |-> FALSE, err |-> FALSE], tokens)

ValidateProto(proto) == Len(proto) = 1 /\ Head(proto) \in Protos

ParsePortSpec(s) ==
  LET protoPos == LastIndex(s, "/")
      proto    == SubSeq(s, protoPos + 1, Len(s))
      portPos  == LastIndex(s, ":")
      scan     == Scan(SubSeq(s, 1, portPos - 1), SubSeq(s, portPos + 1, protoPos - 1))
      p        == scan.parts
  IN IF protoPos = 0 \/ ~ValidateProto(proto) \/ portPos = 0 THEN BadSpec
     ELSE IF portPos > protoPos THEN Panic
     ELSE IF \/ scan.err
             \/ p[1] # <<>> /\ ~ParseIP(p[1])
             \/ p[3] # <<>> /\ ~ParseIP(p[3])
             \/ ~Atoi(p[2]) \/ ~Atoi(p[4])
     THEN BadSpec
     ELSE [ok |-> TRUE, proto |-> Head(proto), parentIP |-> p[1], parentPort |-> p[2],
           childIP |-> p[3], childPort |-> p[4]]
=============================================================================
