------------------------------- MODULE Reaper -------------------------------
(***************************************************************************)
(* The child process as a parent of processes: the target, the orphans     *)
(* that the kernel hands to PID 1 of the namespace, and the commands that  *)
(* the builtin port driver runs to set up transparent routing.  With       *)
(* --reaper, runAndReap (pkg/child/child.go) waits for any of them when a  *)
(* SIGCHLD arrives; setupTransparentRouting (pkg/port/builtin/child) waits *)
(* for its own command at the same time.  SIGCHLD is one pending bit, and  *)
(* a signal that finds the channel full is dropped.                        *)
(***************************************************************************)
EXTENDS Naturals

CONSTANTS
  Orphans,   \* processes that lose their parent and are adopted
  Conns,     \* TCP connect requests from other than loopback addresses
  ChanCap,   \* capacity of the signal channel (32 in the code)
  NumCmds    \* routing commands after the check of iptables (9 in the code)

ASSUME ReaperAssumption ==
  /\ ChanCap \in Nat \ {0} /\ NumCmds \in Nat
  /\ "target" \notin Orphans /\ "helper" \notin Orphans

Adopted == {"target"} \cup Orphans     \* children that nobody but PID 1 waits for
Procs   == Adopted \cup {"helper"}     \* "helper": the routing command that runs now
Exits   == {"ok", "err"}               \* exit status 0; another one, or a signal

VARIABLES
  reaper,     \* opt.Reaper
  iptables,   \* the mangle table of iptables can be listed
  main,       \* where runAndReap (or runWithoutReap) and its goroutine are
  notified,   \* signal.Notify(c, SIGCHLD) was called
  pending,    \* a SIGCHLD waits for the Go runtime
  queued,     \* signals in the channel c
  proc,       \* the process table: "none", "running", "zombie", "gone"
  status,     \* exit statuses
  found,      \* res of reap: the status of the target, if this call met it
  result,     \* what runAndReap returns
  routing,    \* state of routingSetup: "unset", "checking", "commands", "ready", "off"
  cmd,        \* number of the routing command that runs, from 1 to NumCmds
  conn        \* the connect requests: "none", "request", "transparent", "plain"

sigVars  == <<notified, pending, queued>>
reapVars == <<main, found, result>>
setVars  == <<routing, cmd, conn>>
optVars  == <<reaper, iptables>>
vars == <<optVars, sigVars, reapVars, setVars, proc, status>>

Init ==
  /\ reaper \in BOOLEAN /\ iptables \in BOOLEAN
  /\ main = "init" /\ notified = FALSE /\ pending = FALSE /\ queued = 0
  /\ proc = [p \in Procs |-> "none"] /\ status = [p \in Procs |-> "none"]
  /\ found = "none" /\ result = "none"
  /\ routing = "unset" /\ cmd = 0 /\ conn = [c \in Conns |-> "none"]

\* Child has returned: the process ends, and its PID namespace with it.
Ended == main = "returned"
Zombies == {p \in Procs : proc[p] = "zombie"}

-----------------------------------------------------------------------------
(* The kernel and the Go runtime. *)

\* The descendants of the target are adopted when their parent ends, dead or alive.
Adopt(o) ==
  /\ ~Ended /\ proc["target"] # "none" /\ proc[o] = "none"
  /\ \/ /\ proc' = [proc EXCEPT ![o] = "running"]
        /\ UNCHANGED <<status, pending>>
     \/ \E st \in Exits :
          /\ proc' = [proc EXCEPT ![o] = "zombie"]
          /\ status' = [status EXCEPT ![o] = st]
          /\ pending' = TRUE
  /\ UNCHANGED <<notified, queued, reapVars, setVars, optVars>>

Exit(p, st) ==
  /\ ~Ended /\ proc[p] = "running"
  /\ (p = "helper" /\ routing = "checking") => (st = "ok" <=> iptables)
  /\ proc' = [proc EXCEPT ![p] = "zombie"]
  /\ status' = [status EXCEPT ![p] = st]
  /\ pending' = TRUE
  /\ UNCHANGED <<notified, queued, reapVars, setVars, optVars>>

\* os/signal sends without blocking: a full channel loses the signal.
Deliver ==
  /\ ~Ended /\ pending
  /\ pending' = FALSE
  /\ queued' = IF notified /\ queued < ChanCap THEN queued + 1 ELSE queued
  /\ UNCHANGED <<notified, reapVars, setVars, optVars, proc, status>>

-----------------------------------------------------------------------------
(* runAndReap, reap and runWithoutReap. *)

Notify ==
  /\ main = "init" /\ reaper
  /\ notified' = TRUE /\ main' = "notified"
  /\ UNCHANGED <<pending, queued, found, result, setVars, optVars, proc, status>>

Start ==
  /\ main = (IF reaper THEN "notified" ELSE "init")
  /\ \/ /\ proc' = [proc EXCEPT !["target"] = "running"]
        /\ main' = "waiting" /\ UNCHANGED result
     \/ /\ main' = "returned" /\ result' = "startErr" /\ UNCHANGED proc
  /\ UNCHANGED <<sigVars, found, setVars, optVars, status>>

\* for cEntry := range c: one more call of reap.
Receive ==
  /\ main = "waiting" /\ queued > 0
  /\ queued' = queued - 1
  /\ main' = "reaping" /\ found' = "none"
  /\ UNCHANGED <<notified, pending, result, setVars, optVars, proc, status>>

\* Mutant: one process per signal.
ReapOne_NoLoop(p) ==
  /\ main = "reaping" /\ p \in Zombies
  /\ proc' = [proc EXCEPT ![p] = "gone"]
  /\ IF p = "target" THEN main' = "returned" /\ result' = status[p]
                     ELSE main' = "waiting" /\ UNCHANGED result
  /\ UNCHANGED <<sigVars, found, setVars, optVars, status>>

\* Mutant: the last status wins, whatever its PID.
ReapOne_AnyPid(p) ==
  /\ main = "reaping" /\ p \in Zombies
  /\ proc' = [proc EXCEPT ![p] = "gone"]
  /\ found' = IF proc["target"] = "gone" \/ p = "target" THEN status[p] ELSE found
  /\ UNCHANGED <<sigVars, main, result, setVars, optVars, status>>

\* Wait4(-1, WNOHANG) returns a child that has ended.
ReapOne(p) ==
  /\ main = "reaping" /\ p \in Zombies
  /\ proc' = [proc EXCEPT ![p] = "gone"]
  /\ found' = IF p = "target" THEN status[p] ELSE found
  /\ UNCHANGED <<sigVars, main, result, setVars, optVars, status>>

\* Wait4 returns 0 or ECHILD; a status of the target is sent to runAndReap.
ReapDone ==
  /\ main = "reaping" /\ Zombies = {}
  /\ IF found = "none" THEN main' = "waiting" /\ UNCHANGED result
                       ELSE main' = "returned" /\ result' = found
  /\ UNCHANGED <<sigVars, found, setVars, optVars, proc, status>>

\* cmd.Wait of runWithoutReap.
WaitTarget ==
  /\ ~reaper /\ main = "waiting" /\ proc["target"] = "zombie"
  /\ proc' = [proc EXCEPT !["target"] = "gone"]
  /\ main' = "returned" /\ result' = status["target"]
  /\ UNCHANGED <<sigVars, found, setVars, optVars, status>>

-----------------------------------------------------------------------------
(* handleConnectRequest with the option --source-ip-transparent. *)

Request(c) ==
  /\ ~Ended /\ conn[c] = "none"
  /\ conn' = [conn EXCEPT ![c] = "request"]
  /\ UNCHANGED <<sigVars, reapVars, routing, cmd, optVars, proc, status>>

\* routingSetup.Do of the first request: look for iptables, list its mangle table.
SetupRouting(c) ==
  /\ ~Ended /\ conn[c] = "request" /\ routing = "unset"
  /\ \/ /\ routing' = "checking"
        /\ proc' = [proc EXCEPT !["helper"] = "running"]
     \/ /\ ~iptables /\ routing' = "off" /\ UNCHANGED proc
  /\ UNCHANGED <<sigVars, reapVars, cmd, conn, optVars, status>>

\* CombinedOutput returns: the check decides, the results of the commands only go to the log.
NextCommand(ok) ==
  IF routing = "checking" /\ ~ok
  THEN routing' = "off" /\ proc' = [proc EXCEPT !["helper"] = "none"] /\ UNCHANGED cmd
  ELSE IF cmd < NumCmds
  THEN /\ routing' = "commands" /\ cmd' = cmd + 1
       /\ proc' = [proc EXCEPT !["helper"] = "running"]
  ELSE routing' = "ready" /\ proc' = [proc EXCEPT !["helper"] = "none"] /\ UNCHANGED cmd

HelperWaited ==
  /\ ~Ended /\ proc["helper"] = "zombie"
  /\ NextCommand(status["helper"] = "ok")
  /\ UNCHANGED <<sigVars, reapVars, conn, optVars, status>>

\* Mutant: Wait would wait for the process that the reaper took.
HelperStolen_Blocks == FALSE /\ UNCHANGED vars

\* The reaper was faster: Wait fails with ECHILD.
HelperStolen ==
  /\ ~Ended /\ proc["helper"] = "gone"
  /\ NextCommand(FALSE)
  /\ UNCHANGED <<sigVars, reapVars, conn, optVars, status>>

\* Mutant: a flag instead of sync.Once, which others do not wait for.
Dial_NoOnce(c) ==
  /\ ~Ended /\ conn[c] = "request" /\ routing # "unset"
  /\ \E d \in {"transparent", "plain"} :
       (routing = "off" => d = "plain") /\ conn' = [conn EXCEPT ![c] = d]
  /\ UNCHANGED <<sigVars, reapVars, routing, cmd, optVars, proc, status>>

\* Do has returned; a transparent dial that fails falls back to a plain one.
Dial(c) ==
  /\ ~Ended /\ conn[c] = "request" /\ routing \in {"ready", "off"}
  /\ \E d \in {"transparent", "plain"} :
       (routing = "off" => d = "plain") /\ conn' = [conn EXCEPT ![c] = d]
  /\ UNCHANGED <<sigVars, reapVars, routing, cmd, optVars, proc, status>>

-----------------------------------------------------------------------------
Reap  == Receive \/ ReapDone \/ \E p \in Procs : ReapOne(p)
Serve == HelperWaited \/ HelperStolen \/ \E c \in Conns : SetupRouting(c) \/ Dial(c)
HelperExit == \E st \in Exits : Exit("helper", st)

Next ==
  \/ Notify \/ Start \/ Deliver \/ Reap \/ WaitTarget \/ Serve
  \/ \E o \in Orphans : Adopt(o)
  \/ \E p \in Procs, st \in Exits : Exit(p, st)
  \/ \E c \in Conns : Request(c)

\* Goroutines and the signal relay run; iptables, ip and sysctl end by themselves.
Fairness ==
  /\ WF_vars(Notify) /\ WF_vars(Start) /\ WF_vars(Deliver)
  /\ WF_vars(Reap) /\ WF_vars(WaitTarget)
  /\ WF_vars(HelperWaited) /\ WF_vars(HelperStolen) /\ WF_vars(HelperExit)
  /\ \A c \in Conns : WF_vars(SetupRouting(c)) /\ WF_vars(Dial(c))

Spec == Init /\ [][Next]_vars /\ Fairness

-----------------------------------------------------------------------------
(* Properties *)

TypeOK ==
  /\ reaper \in BOOLEAN /\ iptables \in BOOLEAN
  /\ notified \in BOOLEAN /\ pending \in BOOLEAN /\ queued \in 0..ChanCap
  /\ main \in {"init", "notified", "waiting", "reaping", "returned"}
  /\ proc \in [Procs -> {"none", "running", "zombie", "gone"}]
  /\ status \in [Procs -> Exits \cup {"none"}]
  /\ found \in Exits \cup {"none"} /\ result \in Exits \cup {"none", "startErr"}
  /\ routing \in {"unset", "checking", "commands", "ready", "off"}
  /\ cmd \in 0..NumCmds
  /\ conn \in [Conns -> {"none", "request", "transparent", "plain"}]

(* What runAndReap returns is the exit status of the target, although the  *)
(* same loop collects the statuses of orphans and of routing commands, and *)
(* it returns only after the target has ended (child.go:553-598).          *)
ResultIsTargets ==
  result \in Exits => proc["target"] = "gone" /\ result = status["target"]

(* No wakeup is lost: while the reaper waits for a signal and a child that *)
(* only it can collect has ended, a SIGCHLD is on its way or queued,       *)
(* although signals are merged and dropped (child.go:554-567).             *)
NoLostWakeup ==
  reaper /\ main = "waiting" /\ (\E p \in Adopted : proc[p] = "zombie") =>
    pending \/ queued > 0

(* A connection is dialed from the address of the client only when the     *)
(* check and all routing commands are over, whichever request ran them     *)
(* (builtin/child/child.go:161-174, 226-260).                              *)
TransparentNeedsRules ==
  (\E c \in Conns : conn[c] = "transparent") =>
    routing = "ready" /\ cmd = NumCmds /\ iptables

(* Nobody waits for ever, although the reaper and the callers of Wait     *)
(* take exit statuses from each other: the end of the target ends the      *)
(* child, the reaper leaves no zombie behind, and every connect request is *)
(* dialed (child.go:544-616, builtin/child/child.go:148-182).              *)
EveryWaitEnds ==
  /\ (proc["target"] = "zombie") ~> Ended
  /\ \A o \in Orphans : (reaper /\ proc[o] = "zombie") ~> (proc[o] = "gone" \/ Ended)
  /\ \A c \in Conns :
       (conn[c] = "request") ~> (conn[c] \in {"transparent", "plain"} \/ Ended)
=============================================================================
