---------------------------- MODULE BuiltinPorts ----------------------------
(***************************************************************************)
(* The port manager of the builtin driver (builtin/parent/parent.go) under *)
(* concurrent calls of the API handlers, with the goroutines that tcp.Run  *)
(* and udp.Run start for every port.  A call of Run is a "routine" here:   *)
(* its listener, the goroutine that accepts (TCP) or reads (UDP), and the  *)
(* goroutine that waits for routineStopCh and reports on routineStoppedCh. *)
(***************************************************************************)
EXTENDS Naturals

CONSTANTS
  Callers,      \* concurrent requests of the API server
  Specs,        \* port specifications
  Key,          \* Key[s]: the strings ValidatePortSpec compares
  Addr,         \* Addr[s]: the host address the kernel binds
  Proto,        \* Proto[s]: "tcp", "udp" or "sctp"
  MaxRoutines,  \* bound on successful calls of Run
  Faults,       \* "accept", "read": Accept or ReadFromUDP may fail by itself
  NoSpec, NoRoutine

ASSUME BuiltinAssumption ==
  /\ MaxRoutines \in Nat
  /\ "free" \notin Callers
  /\ NoSpec \notin Specs
  /\ NoRoutine \notin 1..MaxRoutines
  /\ Proto \in [Specs -> {"tcp", "udp", "sctp"}]
  /\ \A s, t \in Specs : Key[s] = Key[t] => Addr[s] = Addr[t]
  /\ Faults \subseteq {"accept", "read"}

Routines == 1..MaxRoutines
Ids      == 1..MaxRoutines

VARIABLES
  mu,        \* d.mu: owner, or "free"
  ports,     \* d.ports
  stoppers,  \* d.stoppers, as the routine that the stopper stops
  nextID,    \* d.nextID
  pc, arg,   \* program counter and argument of every caller
  mine,      \* the routine that the caller started or waits for
  nextR,     \* number of routines started, plus one
  spec,      \* the specification a routine serves
  ln,        \* listener of a routine
  acc,       \* its goroutine that calls Accept (TCP) or ReadFromUDP (UDP)
  sel,       \* its goroutine that selects on newConns and stopCh
  stopCh,    \* routineStopCh is closed
  failed     \* history: routines whose Accept or ReadFromUDP failed by itself

callerVars  == <<pc, arg, mine>>
driverVars  == <<mu, ports, stoppers, nextID>>
routineVars == <<nextR, spec, ln, acc, sel, stopCh, failed>>
vars == <<mu, ports, stoppers, nextID, pc, arg, mine, nextR, spec, ln, acc, sel, stopCh, failed>>

Init ==
  /\ mu = "free" /\ nextID = 1
  /\ ports = [i \in Ids |-> NoSpec] /\ stoppers = [i \in Ids |-> NoRoutine]
  /\ pc = [t \in Callers |-> "idle"] /\ arg = [t \in Callers |-> NoSpec]
  /\ mine = [t \in Callers |-> NoRoutine]
  /\ nextR = 1
  /\ spec = [r \in Routines |-> NoSpec] /\ ln = [r \in Routines |-> "none"]
  /\ acc = [r \in Routines |-> "off"] /\ sel = [r \in Routines |-> "off"]
  /\ stopCh = [r \in Routines |-> FALSE] /\ failed = {}

\* The call returns, with a result or an error.
Returns(t) ==
  /\ pc' = [pc EXCEPT ![t] = "idle"]
  /\ arg' = [arg EXCEPT ![t] = NoSpec]

-----------------------------------------------------------------------------
(* AddPort *)

\* PostPort: decode the specification, call AddPort.
AddCall(t, s) ==
  /\ pc[t] = "idle"
  /\ pc' = [pc EXCEPT ![t] = "validate"]
  /\ arg' = [arg EXCEPT ![t] = s]
  /\ UNCHANGED <<driverVars, mine, routineVars>>

\* ValidatePortSpec, between a Lock and an Unlock.
AddValidate(t) ==
  /\ pc[t] = "validate" /\ mu = "free"
  /\ IF \E i \in Ids : ports[i] # NoSpec /\ Key[ports[i]] = Key[arg[t]]
       THEN Returns(t)
       ELSE pc' = [pc EXCEPT ![t] = "run"] /\ UNCHANGED arg
  /\ UNCHANGED <<driverVars, mine, routineVars>>

\* Mutant: the listener shares its address (SO_REUSEPORT).
AddRun_SharesAddress(t) ==
  /\ pc[t] = "run"
  /\ nextR <= MaxRoutines
  /\ Proto[arg[t]] # "sctp"
  /\ spec' = [spec EXCEPT ![nextR] = arg[t]]
  /\ ln' = [ln EXCEPT ![nextR] = "open"]
  /\ acc' = [acc EXCEPT ![nextR] = IF Proto[arg[t]] = "tcp" THEN "accept" ELSE "read"]
  /\ sel' = [sel EXCEPT ![nextR] = "select"]
  /\ mine' = [mine EXCEPT ![t] = nextR]
  /\ nextR' = nextR + 1
  /\ pc' = [pc EXCEPT ![t] = "insert"]
  /\ UNCHANGED <<driverVars, arg, stopCh, failed>>

\* tcp.Run or udp.Run, without the lock.  The kernel refuses an address that
\* a listener holds; SCTP passes the validation but is not supported.
AddRun(t) ==
  /\ pc[t] = "run"
  /\ nextR <= MaxRoutines
  /\ Proto[arg[t]] # "sctp"
  /\ \A r \in Routines : ln[r] = "open" => Addr[spec[r]] # Addr[arg[t]]
  /\ spec' = [spec EXCEPT ![nextR] = arg[t]]
  /\ ln' = [ln EXCEPT ![nextR] = "open"]
  /\ acc' = [acc EXCEPT ![nextR] = IF Proto[arg[t]] = "tcp" THEN "accept" ELSE "read"]
  /\ sel' = [sel EXCEPT ![nextR] = "select"]
  /\ mine' = [mine EXCEPT ![t] = nextR]
  /\ nextR' = nextR + 1
  /\ pc' = [pc EXCEPT ![t] = "insert"]
  /\ UNCHANGED <<driverVars, arg, stopCh, failed>>

\* Run fails: the address is in use (maybe by another process), not
\* permitted, or the protocol is not supported.
AddRunFails(t) ==
  /\ pc[t] = "run"
  /\ Returns(t)
  /\ UNCHANGED <<driverVars, mine, routineVars>>

\* Mutant: d.nextID++ is missing.
AddInsert_SameID(t) ==
  /\ pc[t] = "insert" /\ mu = "free"
  /\ ports' = [ports EXCEPT ![nextID] = arg[t]]
  /\ stoppers' = [stoppers EXCEPT ![nextID] = mine[t]]
  /\ mine' = [mine EXCEPT ![t] = NoRoutine]
  /\ Returns(t)
  /\ UNCHANGED <<mu, nextID, routineVars>>

AddInsert(t) ==
  /\ pc[t] = "insert" /\ mu = "free"
  /\ ports' = [ports EXCEPT ![nextID] = arg[t]]
  /\ stoppers' = [stoppers EXCEPT ![nextID] = mine[t]]
  /\ nextID' = nextID + 1
  /\ mine' = [mine EXCEPT ![t] = NoRoutine]
  /\ Returns(t)
  /\ UNCHANGED <<mu, routineVars>>

(* RemovePort *)

\* DeletePort: parse the ID, call RemovePort.  An unknown ID is refused; the
\* stopper of a known one is called with the lock held until it returns.
RemoveCall(t, i) ==
  /\ pc[t] = "idle" /\ mu = "free"
  /\ IF stoppers[i] = NoRoutine
       THEN /\ Returns(t)
            /\ UNCHANGED <<mu, mine, stopCh>>
       ELSE /\ mu' = t
            /\ mine' = [mine EXCEPT ![t] = stoppers[i]]
            /\ stopCh' = [stopCh EXCEPT ![stoppers[i]] = TRUE]
            /\ pc' = [pc EXCEPT ![t] = "stopping"]
            /\ UNCHANGED arg
  /\ UNCHANGED <<ports, stoppers, nextID, nextR, spec, ln, acc, sel, failed>>

\* Mutant: delete(d.ports, id) is missing.
Forget_KeepsPort(t) ==
  /\ stoppers' = [i \in Ids |-> IF stoppers[i] = mine[t] THEN NoRoutine ELSE stoppers[i]]
  /\ mine' = [mine EXCEPT ![t] = NoRoutine]
  /\ mu' = "free"
  /\ UNCHANGED ports

\* Mutant: delete(d.stoppers, id) is missing.
Forget_KeepsStopper(t) ==
  /\ ports' = [i \in Ids |-> IF stoppers[i] = mine[t] THEN NoSpec ELSE ports[i]]
  /\ mine' = [mine EXCEPT ![t] = NoRoutine]
  /\ mu' = "free"
  /\ UNCHANGED stoppers

\* Both maps forget the port, and the deferred Unlock runs.
Forget(t) ==
  /\ ports' = [i \in Ids |-> IF stoppers[i] = mine[t] THEN NoSpec ELSE ports[i]]
  /\ stoppers' = [i \in Ids |-> IF stoppers[i] = mine[t] THEN NoRoutine ELSE stoppers[i]]
  /\ mine' = [mine EXCEPT ![t] = NoRoutine]
  /\ mu' = "free"

\* <-routineStoppedCh
RemoveStopped(t) ==
  /\ pc[t] = "stopping" /\ sel[mine[t]] = "sending"
  /\ sel' = [sel EXCEPT ![mine[t]] = "done"]
  /\ Forget(t)
  /\ Returns(t)
  /\ UNCHANGED <<nextID, nextR, spec, ln, acc, stopCh, failed>>

\* Mutant: RemovePort has no deadline.
RemoveTimesOut_Never(t) == FALSE /\ UNCHANGED vars

\* <-ctx.Done(): five seconds have passed.
RemoveTimesOut(t) ==
  /\ pc[t] = "stopping"
  /\ Forget(t)
  /\ Returns(t)
  /\ UNCHANGED <<nextID, routineVars>>

-----------------------------------------------------------------------------
(* The goroutines of tcp.Run and udp.Run *)

AcceptConn(r) ==
  /\ acc[r] = "accept" /\ ln[r] = "open"
  /\ acc' = [acc EXCEPT ![r] = "handoff"]
  /\ UNCHANGED <<driverVars, callerVars, nextR, spec, ln, sel, stopCh, failed>>

\* newConns <- c: the unbuffered channel needs the other goroutine.
HandOffConn(r) ==
  /\ acc[r] = "handoff" /\ sel[r] = "select"
  /\ acc' = [acc EXCEPT ![r] = "accept"]
  /\ UNCHANGED <<driverVars, callerVars, nextR, spec, ln, sel, stopCh, failed>>

\* Accept fails: close(newConns).  ReadFromUDP fails: Run ends, and nobody else
\* hears of it.
AcceptEnds(r) ==
  /\ acc[r] \in {"accept", "read"}
  /\ ln[r] = "closed" \/ acc[r] \in Faults
  /\ acc' = [acc EXCEPT ![r] = "done"]
  /\ failed' = IF ln[r] = "open" THEN failed \cup {r} ELSE failed
  /\ UNCHANGED <<driverVars, callerVars, nextR, spec, ln, sel, stopCh>>

\* Mutant: the goroutine does not look at stopCh.
SelectEnds_IgnoresStop(r) ==
  /\ sel[r] = "select"
  /\ Proto[spec[r]] = "tcp" /\ acc[r] = "done"
  /\ ln' = [ln EXCEPT ![r] = "closed"]
  /\ sel' = [sel EXCEPT ![r] = IF Proto[spec[r]] = "udp" THEN "closing" ELSE "sending"]
  /\ UNCHANGED <<driverVars, callerVars, nextR, spec, acc, stopCh, failed>>

\* stopCh or, for TCP, newConns is closed: the listener is closed, then its result
\* is offered on stoppedCh.  The UDP goroutine must close the proxy first.
SelectEnds(r) ==
  /\ sel[r] = "select"
  /\ stopCh[r] \/ (Proto[spec[r]] = "tcp" /\ acc[r] = "done")
  /\ ln' = [ln EXCEPT ![r] = "closed"]
  /\ sel' = [sel EXCEPT ![r] = IF Proto[spec[r]] = "udp" THEN "closing" ELSE "sending"]
  /\ UNCHANGED <<driverVars, callerVars, nextR, spec, acc, stopCh, failed>>

\* UDPProxy.Close returns.
ProxyClosed(r) ==
  /\ sel[r] = "closing"
  /\ sel' = [sel EXCEPT ![r] = "sending"]
  /\ UNCHANGED <<driverVars, callerVars, nextR, spec, ln, acc, stopCh, failed>>

-----------------------------------------------------------------------------
AddStep(t) == AddValidate(t) \/ AddRun(t) \/ AddRunFails(t) \/ AddInsert(t)

RemoveStep(t) == RemoveStopped(t) \/ RemoveTimesOut(t)

RoutineStep(r) == SelectEnds(r) \/ HandOffConn(r)

Next ==
  \/ \E t \in Callers : \/ AddStep(t) \/ RemoveStep(t)
                        \/ \E s \in Specs : AddCall(t, s)
                        \/ \E i \in Ids : RemoveCall(t, i)
  \/ \E r \in Routines : RoutineStep(r) \/ AcceptConn(r) \/ AcceptEnds(r) \/ ProxyClosed(r)

Spec == Init /\ [][Next]_vars

(* A RemovePort that waits goes on, at the latest when its deadline has    *)
(* passed, and select takes the closed stopCh sometime, however many       *)
(* connections come.  Nothing is assumed of other calls, of clients that   *)
(* connect, nor of UDPProxy.Close, which waits for a dial.                 *)
FairSpec ==
  /\ Spec
  /\ \A t \in Callers : WF_vars(RemoveStep(t))
  /\ \A r \in Routines : WF_vars(SelectEnds(r))

-----------------------------------------------------------------------------
(* Properties *)

TypeOK ==
  /\ mu \in Callers \cup {"free"}
  /\ ports \in [Ids -> Specs \cup {NoSpec}]
  /\ stoppers \in [Ids -> Routines \cup {NoRoutine}]
  /\ nextID \in 1..(MaxRoutines + 1)
  /\ pc \in [Callers -> {"idle", "validate", "run", "insert", "stopping"}]
  /\ arg \in [Callers -> Specs \cup {NoSpec}]
  /\ mine \in [Callers -> Routines \cup {NoRoutine}]
  /\ nextR \in 1..(MaxRoutines + 1)
  /\ spec \in [Routines -> Specs \cup {NoSpec}]
  /\ ln \in [Routines -> {"none", "open", "closed"}]
  /\ acc \in [Routines -> {"off", "accept", "handoff", "read", "done"}]
  /\ sel \in [Routines -> {"off", "select", "closing", "sending", "done"}]
  /\ stopCh \in [Routines -> BOOLEAN] /\ failed \subseteq Routines

(* No orphan: a listener that is open belongs to a listed port, to an      *)
(* AddPort that is about to list it, or was told to stop, even after       *)
(* RemovePort timed out and forgot it (parent.go:139-215).                 *)
ListenerIsTracked ==
  \A r \in Routines : ln[r] = "open" =>
    \/ stopCh[r]
    \/ \E i \in Ids : stoppers[i] = r /\ ports[i] = spec[r]
    \/ \E t \in Callers : pc[t] = "insert" /\ mine[t] = r

(* A port that ListPorts shows is served: its listener is open and a       *)
(* goroutine accepts or reads, unless RemovePort is at work on it.  The    *)
(* only other way to lose that goroutine is a failure of Accept or of      *)
(* ReadFromUDP itself; nothing takes the port off the list then, and only  *)
(* a TCP port gives up its address (parent.go:120-137, tcp.go:24-33,       *)
(* udp_proxy.go:92-105).                                                   *)
ListedIsServed ==
  \A i \in Ids : ports[i] # NoSpec =>
    /\ stoppers[i] # NoRoutine
    /\ LET r == stoppers[i] IN
         \/ stopCh[r]
         \/ ln[r] = "open" /\ acc[r] \in {"accept", "handoff", "read"}
         \/ r \in failed /\ (Proto[spec[r]] = "udp" => ln[r] = "open")

(* routineStopCh is closed at most once: a second close would panic and    *)
(* take the parent down (parent.go:151).  Whoever gets the lock finds the  *)
(* stop channels of all listed ports open.                                 *)
StopsOnce ==
  mu = "free" => \A i \in Ids : stoppers[i] # NoRoutine => ~stopCh[stoppers[i]]

(* The registry that the API shows is a PortManager: AddPort and           *)
(* RemovePort are atomic for its users, although AddPort validates and     *)
(* inserts in two critical sections (parent.go:139-195).  The address that *)
(* the kernel refuses to bind twice closes the gap, so this lasts as long  *)
(* as no Accept has failed: then the address is free again while the port  *)
(* is about to be listed.  A failed ReadFromUDP does no such harm.         *)
AcceptHasFailed == \E r \in failed : Proto[spec[r]] = "tcp" /\ ~stopCh[r]
Manager == INSTANCE PortManager WITH listed <- ports, used <- 1..(nextID - 1)
IsPortManager ==
  Manager!Init /\ [][AcceptHasFailed \/ Manager!Next \/ UNCHANGED Manager!vars]_vars

(* RemovePort returns, and a routine that was told to stop closes its      *)
(* listener, timeout or not.                                               *)
RemoveReturns == \A t \in Callers : (pc[t] = "stopping") ~> (pc[t] = "idle")
StopTakesEffect == \A r \in Routines : stopCh[r] ~> ln[r] = "closed"
=============================================================================
