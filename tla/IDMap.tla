-------------------------------- MODULE IDMap --------------------------------
(***************************************************************************)
(* How the parent turns the subordinate IDs of the user into the arguments *)
(* of newuidmap and newgidmap: the files /etc/subuid and /etc/subgid       *)
(* (pkg/parent/idtools), the output of getsubids (pkg/parent/dynidtools),  *)
(* the choice between the two and the map (pkg/parent/parent.go).  Pure    *)
(* functions of what the files and the program say.                        *)
(***************************************************************************)
EXTENDS Integers, SequencesExt

SubIDRange(start, length) == <<start, length>>
Start(r)   == r[1]
Length(r)  == r[2]
Unparsable == <<>>   \* what stands in the place of a range is not two numbers

Error == [ok |-> FALSE]
Ranges(u, g) == [ok |-> TRUE, u |-> u, g |-> g]

-----------------------------------------------------------------------------
(* A line of /etc/subuid is blank, malformed, or names a user and a range, *)
(* which may not be two numbers.                                           *)

\* parts[0] is the UID or the name of the user.
Mine(l) == l.who \in {"uid", "name"}

\* rangeList before round k of the loop over the lines.
RangeList(lines) ==
  LET rangeList[k \in 1..(Len(lines) + 1)] ==
        IF k = 1 THEN <<>>
        ELSE IF Mine(lines[k - 1]) THEN Append(rangeList[k - 1], lines[k - 1].range)
        ELSE rangeList[k - 1]
  IN rangeList

\* A malformed line is an error whoever it is for, bad numbers only if they are the user's.
ParseSubidFile(lines) ==
  LET Fails(l) == l.who = "malformed" \/ (Mine(l) /\ l.range = Unparsable)
  IN IF \E i \in 1..Len(lines) : Fails(lines[i]) THEN Error
     ELSE [ok |-> TRUE, ranges |-> RangeList(lines)[Len(lines) + 1]]

StaticSubIDRanges(env) ==
  LET u == ParseSubidFile(env.subuid)
      g == ParseSubidFile(env.subgid)
  IN IF u.ok /\ g.ok /\ (u.ok => u.ranges # <<>>) /\ (g.ok => g.ranges # <<>>)
     THEN Ranges(u.ranges, g.ranges) ELSE Error

-----------------------------------------------------------------------------
(* getsubids is run for the name and for the UID of the user, for UIDs and *)
(* for GIDs; it exits with status 0 or not, and prints lines with ranges.  *)

\* The ranges before the first line that cannot be parsed are kept.
ExecGetsubids(out) ==
  LET bad  == {i \in DOMAIN out.lines : out.lines[i] = Unparsable}
      last == IF bad = {} THEN Len(out.lines) ELSE Min(bad) - 1
  IN IF out.exit0 THEN [ranges |-> SubSeq(out.lines, 1, last), err |-> bad # {}]
                  ELSE [ranges |-> <<>>, err |-> TRUE]

\* Mutant: duplicates are kept.
WithoutDuplicates_Keeps(s) == s

\* list before round k of the loop over the items.
Distinct(s) ==
  LET list[k \in 1..(Len(s) + 1)] ==
        IF k = 1 THEN <<>>
        ELSE IF \E i \in 1..Len(list[k - 1]) : list[k - 1][i] = s[k - 1] THEN list[k - 1]
        ELSE Append(list[k - 1], s[k - 1])
  IN list

WithoutDuplicates(s) == Distinct(s)[Len(s) + 1]

\* One of the two answers is enough; both are used, also one with an error.
DynamicSubIDRanges(env) ==
  LET uName == ExecGetsubids(env.uName)  uUID == ExecGetsubids(env.uUID)
      gName == ExecGetsubids(env.gName)  gUID == ExecGetsubids(env.gUID)
  IN IF \/ ~env.getsubids
        \/ uName.err /\ uUID.err
        \/ gName.err /\ gUID.err
     THEN Error
     ELSE Ranges(WithoutDuplicates(uName.ranges \o uUID.ranges),
                 WithoutDuplicates(gName.ranges \o gUID.ranges))

-----------------------------------------------------------------------------
\* --subid-source; "auto" falls back to the files.
GetSubIDRanges(source, env) ==
  LET dynamic == DynamicSubIDRanges(env)
  IN CASE source = "static"  -> StaticSubIDRanges(env)
       [] source = "dynamic" -> dynamic
       [] source = "auto"    ->
            IF dynamic.ok /\ (dynamic.ok => dynamic.u # <<>> /\ dynamic.g # <<>>)
            THEN dynamic ELSE StaticSubIDRanges(env)

Triple(c, h, n) == [container |-> c, host |-> h, size |-> n]

\* uidMapLast (gidMapLast) before round k of the loop over the ranges.
MapLast(ranges) ==
  LET last[k \in 1..(Len(ranges) + 1)] == IF k = 1 THEN 1 ELSE last[k - 1] + Length(ranges[k - 1])
  IN last

\* The user becomes root, the ranges follow without gaps.
NewugidmapArgs(id, ranges) ==
  [i \in 1..(Len(ranges) + 1) |->
     IF i = 1 THEN Triple(0, id, 1)
     ELSE Triple(MapLast(ranges)[i - 1], Start(ranges[i - 1]), Length(ranges[i - 1]))]

\* newugidmapArgs: an error, or the arguments of newuidmap and of newgidmap.
UGIDMapArgs(uid, gid, source, env) ==
  LET r == GetSubIDRanges(source, env)
  IN IF ~r.ok THEN Error
     ELSE [ok |-> TRUE, u |-> NewugidmapArgs(uid, r.u), g |-> NewugidmapArgs(gid, r.g)]

-----------------------------------------------------------------------------
(* The reference: what a map is for, not how it is put together. *)

\* The host IDs that container ID c is mapped to.
HostsOf(args, c) ==
  {args[i].host + (c - args[i].container) :
     i \in {j \in DOMAIN args : args[j].container <= c /\ c < args[j].container + args[j].size}}

\* The container IDs that share host ID h.
ContainersOf(args, h) ==
  UNION {{args[i].container + (h - args[i].host)} :
     i \in {j \in DOMAIN args : args[j].host <= h /\ h < args[j].host + args[j].size}}

\* IDs 0..n-1 are mapped, each to one host ID, and no other ID is.
Tiles(args, n) ==
  \A c \in 0..(n + 1) : Cardinality(HostsOf(args, c)) = (IF c < n THEN 1 ELSE 0)

Injective(args, hosts) == \A h \in hosts : Cardinality(ContainersOf(args, h)) <= 1

\* How many IDs the ranges hold.
Total(ranges) ==
  LET sum[k \in 1..(Len(ranges) + 1)] == IF k = 1 THEN 0 ELSE sum[k - 1] + Length(ranges[k - 1])
  IN sum[Len(ranges) + 1]

\* newuidmap and newgidmap get maps they accept, from one source.
MapsUsable(out, uid, gid, source, env, hosts) ==
  LET dynamic == DynamicSubIDRanges(env)
      static  == StaticSubIDRanges(env)
      ranges  == GetSubIDRanges(source, env)
  IN /\ out.ok =>
          /\ Tiles(out.u, 1 + Total(ranges.u)) /\ Tiles(out.g, 1 + Total(ranges.g))
          /\ HostsOf(out.u, 0) = {uid} /\ HostsOf(out.g, 0) = {gid}
          /\ ranges = dynamic => Injective(out.u, hosts) /\ Injective(out.g, hosts)
     /\ source = "auto" =>
          /\ static.ok => out.ok
          /\ out.ok => ranges \in {dynamic, static} /\ Len(out.u) > 1 /\ Len(out.g) > 1
=============================================================================
