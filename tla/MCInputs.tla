------------------------------ MODULE MCInputs ------------------------------
(***************************************************************************)
(* What the parent and the child read, for TLC: the framed messages of     *)
(* Framing, and every input of the pure functions of IDMap and PortSpec    *)
(* over small sets.  A behaviour either exchanges messages or computes one *)
(* function.                                                               *)
(***************************************************************************)
EXTENDS IDMap, PortSpec, Framing

CONSTANT MaxFields   \* components of a port specification before the protocol

VARIABLES
  input,    \* the input of this behaviour
  computed  \* <<>>, or the result in a sequence
inputVars == <<input, computed>>
output == computed[1]

-----------------------------------------------------------------------------
(* Subordinate IDs: two ranges and the IDs of the user are disjoint. *)

UserID == 7
GroupID == 8
R1 == SubIDRange(100, 2)
R2 == SubIDRange(200, 3)
HostIDs == {7, 8} \cup 100..101 \cup 200..202

Line(who, range) == [who |-> who, range |-> range]
Lines == {Line("malformed", R1), Line("blank", R1), Line("other", Unparsable), Line("name", Unparsable),
          Line("name", R1), Line("uid", R1), Line("uid", R2)}
Files == BoundedSeq(Lines, 2)
FewFiles == {<<>>, <<Line("name", R2)>>, <<Line("malformed", R1)>>}
Prints(lines) == [exit0 |-> TRUE, lines |-> lines]
Fails == [exit0 |-> FALSE, lines |-> <<>>]
Answers == {Fails, Prints(<<>>), Prints(<<R1>>), Prints(<<R2, R1>>),
            Prints(<<R1, Unparsable>>), Prints(<<Unparsable, R1>>)}
FewAnswers == {Fails, Prints(<<>>), Prints(<<R2>>)}

Env(subuid, subgid, has, uName, uUID, gName, gUID) ==
  [subuid |-> subuid, subgid |-> subgid, getsubids |-> has,
   uName |-> uName, uUID |-> uUID, gName |-> gName, gUID |-> gUID]

StaticEnv(u, g) == Env(u, g, FALSE, Fails, Fails, Fails, Fails)

StaticInputs ==
  {[kind |-> "id", source |-> "static", env |-> StaticEnv(u, g)] : u \in Files, g \in FewFiles}
DynamicInputs ==
  {[kind |-> "id", source |-> s, env |-> Env(u, g, has, a, b, c, d)] :
     s \in {"dynamic", "auto"}, u \in FewFiles, g \in FewFiles, has \in BOOLEAN,
     a \in Answers, b \in Answers, c \in FewAnswers, d \in FewAnswers}
IDInputs == StaticInputs \cup DynamicInputs

-----------------------------------------------------------------------------
(* Port specifications: components joined by colons, and a suffix. *)

Component == [empty |-> <<>>, num |-> <<"n">>, signed |-> <<"sign", "n">>, spaced |-> <<"n", " ", "n">>,
              ip4 |-> <<"ip4">>, blank4 |-> <<" ", "ip4">>,
              ip6 |-> <<"[", ":", ":", "n", "]">>, open6 |-> <<"[", ":", ":", "n">>]
Endings == {<<"/", "tcp">>, <<"/", "icmp">>, <<"/", "tcp", ":", "n">>, <<"/", "n", "/", "udp6">>, <<>>}

IsPortInput ==
  \E f \in BoundedSeq(DOMAIN Component, MaxFields), x \in Endings :
    input = [kind |-> "port", fields |-> f, suffix |-> x]

Text(in) ==
  (IF in.fields = <<>> THEN <<>>
   ELSE FoldLeft(LAMBDA s, f : s \o <<":">> \o Component[f],
                 Component[Head(in.fields)], Tail(in.fields))) \o in.suffix

-----------------------------------------------------------------------------
Init ==
  /\ Quiet
  /\ input \in IDInputs \/ IsPortInput \/ input = [kind |-> "frames"]
  /\ computed = <<>>

Compute ==
  /\ computed = <<>> /\ input.kind # "frames"
  /\ computed' = <<IF input.kind = "id" THEN UGIDMapArgs(UserID, GroupID, input.source, input.env)
                                        ELSE ParsePortSpec(Text(input))>>
  /\ UNCHANGED <<frameVars, input>>

Exchange == input.kind = "frames" /\ FrameNext /\ UNCHANGED inputVars

Next == Compute \/ Exchange
Spec == Init /\ [][Next]_<<frameVars, inputVars>>

-----------------------------------------------------------------------------
(* Properties *)

(* newuidmap and newgidmap get a map they accept: container IDs from 0 on  *)
(* without gap or overlap, as many as the ranges hold, and, when the       *)
(* ranges come from getsubids, no host ID twice although the same range is *)
(* reported for the name and for the UID.  With the source "auto" both     *)
(* maps come from the same source, none is empty, and auto succeeds        *)
(* whenever the files alone would (parent.go:363-432, dynidtools.go:17-71, *)
(* idtools.go:22-83).                                                      *)
IDMapUsable ==
  computed # <<>> /\ input.kind = "id" =>
    MapsUsable(output, UserID, GroupID, input.source, input.env, HostIDs)

(* What a specification means: <parent IP>:<parent port>[:<child IP>]:     *)
(* <child port>, where a further component ends up behind the child port   *)
(* or, after a bracket that is never closed, in the child IP.              *)
Scanned(c) == SelectSeq(Component[c], LAMBDA t : t \notin {"[", "]", " "})
Unclosed(f) == Len(f) > 3 /\ f[3] = "open6"
Extra(f) == IF Len(f) = 5 THEN Scanned(f[4]) ELSE <<>>
ChildIP(f) ==
  IF Len(f) = 3 THEN <<>>
  ELSE Scanned(f[3]) \o (IF Unclosed(f) /\ Len(f) = 5 THEN <<":">> \o Extra(f) ELSE <<>>)
ChildPort(f) == Component[f[Len(f)]] \o (IF Unclosed(f) THEN <<>> ELSE Extra(f))
Meaning(f) ==
  [ok |-> TRUE, proto |-> "tcp", parentIP |-> Scanned(f[1]), parentPort |-> Scanned(f[2]),
   childIP |-> ChildIP(f), childPort |-> ChildPort(f)]

Addresses == {"empty", "ip4", "blank4", "ip6"}
Numbers == UNION {[1..k -> {"n"}] : k \in 1..3}
SignedNumbers == Numbers \cup {<<"sign">> \o x : x \in Numbers}

\* The documented format, and what the code makes of it beyond: signs, blanks before
\* the last colon, one component too many, and no bracket at the end of the child IP.
Accepted(f) ==
  /\ Len(f) \in 3..5
  /\ f[1] \in Addresses /\ f[2] \in {"num", "signed", "spaced"}
  /\ Len(f) > 3 => \/ f[3] \in Addresses
                   \/ f[3] = "open6" /\ (Len(f) = 5 => f[4] \in {"num", "spaced", "ip4", "blank4"})
  /\ ChildPort(f) \in SignedNumbers

=============================================================================
