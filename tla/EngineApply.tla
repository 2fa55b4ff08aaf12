---------------------------- MODULE EngineApply -----------------------------
(***************************************************************************)
(* How a node takes a configuration and a user list: sing-box, an instance *)
(* in this process, and Xray, a child process, are each replaced, restored *)
(* or left running, while Xray may exit at any moment and is started again *)
(* by a goroutine of its own.                                              *)
(*                                                                         *)
(* Node: node/internal/engine/engine.go and xray.go, and the frames'       *)
(* handlers in node/internal/link/link.go.  What a replacement does to     *)
(* traffic counters is StatsReport's; here only how often books are closed *)
(* is counted.                                                             *)
(***************************************************************************)
EXTENDS Integers, FiniteSets

CONSTANTS
  SbParts, XParts,   \* what a configuration can ask of each core
  NoPart,            \* nothing for the core
  Unparsable,        \* sing-box parts this node's sing-box does not decode
  Refused,           \* Xray parts Xray's own test refuses
  Users,             \* a user with a credential; a changed one is another
  MaxFrames,         \* frames the panel sends
  MaxFaults          \* failed builds, starts and calls; Xray's own exits

ASSUME PartsAssumption ==
  /\ NoPart \notin SbParts \cup XParts
  /\ Unparsable \subseteq SbParts /\ Refused \subseteq XParts
  /\ MaxFrames \in Nat /\ MaxFaults \in Nat

VARIABLES
  sb,          \* Engine's own state: the sing-box instance and what it serves;
               \* hash is the list in place, if one is known to be
  x,           \* xrayCore, and the processes it started
  closed,      \* Engine.Close has run
  hpc,         \* the read loop: between frames, or where in a handler
  req, list,   \* the configuration, and the users, last received
  appliedRev,  \* link.Client: the configuration last accepted
  told,        \* the last state frame
  frames, faults

vars == <<sb, x, closed, hpc, req, list, appliedRev, told, frames, faults>>

Configs == [sb: SbParts, x: XParts \cup {NoPart}]
NoConfig == [sb |-> NoPart, x |-> NoPart]
Lists == SUBSET Users

Fault == faults < MaxFaults /\ faults' = faults + 1

-----------------------------------------------------------------------------
(* sing-box *)

\* Mutant: the list in place survives the instance it was given to.
InstanceKeepsHash(s, part) ==
  [s EXCEPT !.running = TRUE, !.current = part, !.users = {}, !.stats = {}]

\* A new instance knows no users, and the list in place is forgotten.
Instance(s, part) ==
  [s EXCEPT !.running = TRUE, !.current = part, !.users = {}, !.stats = {}, !.hash = {}]

\* A failed swap: the build fails and a running instance stays; or the start
\* does, and the previous configuration is started again, or cannot be.
SwapFails(s) ==
  LET err     == [s EXCEPT !.err = TRUE]
      stopped == [err EXCEPT !.running = FALSE]
  IN {stopped} \cup (IF s.running THEN {err} ELSE {})
               \cup (IF s.current # NoPart THEN {Instance(stopped, s.current)} ELSE {})

Unchanged == sb.running /\ sb.current = req.sb

-----------------------------------------------------------------------------
(* Xray *)

\* Mutant of Stopped: no check that there is a process.
StoppedBlindly(c) ==
  [c EXCEPT !.proc = 0, !.live = {}, !.gen = @ + 1,
            !.alive = @ \ {c.proc}, !.stopping = @ \cup {c.proc}]

\* stopLocked: nothing if no process is known; else its books are closed and it
\* is gone when the call returns.
Stopped(c) ==
  IF c.proc = 0 THEN c
  ELSE [c EXCEPT !.proc = 0, !.live = {}, !.gen = @ + 1,
                 !.alive = @ \ {c.proc}, !.stopping = @ \cup {c.proc}]

\* startLocked: a process with the users wanted, and a goroutine watching it.
Started(c) ==
  [c EXCEPT !.proc = c.started + 1, !.started = @ + 1, !.live = c.want,
            !.alive = @ \cup {c.started + 1}, !.watched = @ \cup {c.started + 1}]

\* A start failed, and the previous configuration is started again or is not.
RestoredXray(c) == {Stopped(c)} \cup (IF c.part = NoPart THEN {} ELSE {Started(Stopped(c))})

\* Xray exits unasked.
XrayExits ==
  /\ Fault
  /\ \E p \in x.alive : x' = [x EXCEPT !.alive = @ \ {p}]
  /\ UNCHANGED <<sb, closed, hpc, req, list, appliedRev, told, frames>>

\* Mutants of Supervise: an exit that was asked for is taken for a crash; the
\* exit is noted and nothing is started.
SuperviseAll ==
  /\ \E p \in x.watched \ x.alive :
       x' = [x EXCEPT !.watched = @ \ {p}, !.stopping = @ \ {p},
                      !.proc = 0, !.live = {}, !.gen = @ + 1, !.retrying = @ + 1]
  /\ UNCHANGED <<sb, closed, hpc, req, list, appliedRev, told, frames, faults>>
SuperviseOnly ==
  /\ \E p \in x.watched \ x.alive :
       LET seen == [x EXCEPT !.watched = @ \ {p}, !.stopping = @ \ {p}] IN
       IF closed \/ p \in x.stopping \/ x.proc # p THEN x' = seen
       ELSE x' = [seen EXCEPT !.proc = 0, !.live = {}, !.gen = @ + 1]
  /\ UNCHANGED <<sb, closed, hpc, req, list, appliedRev, told, frames, faults>>

\* The goroutine watching p learns that it is gone.
Supervise ==
  /\ \E p \in x.watched \ x.alive :
       LET seen == [x EXCEPT !.watched = @ \ {p}, !.stopping = @ \ {p}] IN
       IF closed \/ p \in x.stopping \/ x.proc # p THEN x' = seen
       ELSE x' = [seen EXCEPT !.proc = 0, !.live = {}, !.gen = @ + 1, !.retrying = @ + 1]
  /\ UNCHANGED <<sb, closed, hpc, req, list, appliedRev, told, frames, faults>>

\* Mutant of Retry: it does not look whether the engine has been closed.
RetryClosed ==
  /\ x.retrying > 0
  /\ \/ /\ x.proc # 0 \/ x.part = NoPart
        /\ x' = [x EXCEPT !.retrying = @ - 1]
        /\ UNCHANGED faults
     \/ /\ x.proc = 0 /\ x.part # NoPart
        /\ x' = [Started(x) EXCEPT !.retrying = @ - 1]
        /\ UNCHANGED faults
  /\ UNCHANGED <<sb, closed, hpc, req, list, appliedRev, told, frames>>

\* Its loop, after a pause: someone else has started Xray, or there is nothing to
\* run; or it is started now; or that fails and the loop goes on.
Retry ==
  /\ x.retrying > 0
  /\ \/ /\ closed \/ x.proc # 0 \/ x.part = NoPart
        /\ x' = [x EXCEPT !.retrying = @ - 1]
        /\ UNCHANGED faults
     \/ /\ ~closed /\ x.proc = 0 /\ x.part # NoPart
        /\ x' = [Started(x) EXCEPT !.retrying = @ - 1]
        /\ UNCHANGED faults
     \/ /\ ~closed /\ x.proc = 0 /\ x.part # NoPart
        /\ Fault
        /\ UNCHANGED x
  /\ UNCHANGED <<sb, closed, hpc, req, list, appliedRev, told, frames>>

-----------------------------------------------------------------------------
(* The read loop: a configuration *)

Receive ==
  /\ hpc = "read" /\ ~closed
  /\ frames < MaxFrames /\ frames' = frames + 1

\* ApplyConfig first asks Xray whether it would take its part; a node without
\* Xray refuses any.
ReceiveConfig ==
  /\ Receive
  /\ \E c \in Configs :
       /\ req' = c
       /\ IF c.x \in Refused
            THEN hpc' = "rejected" /\ sb' = [sb EXCEPT !.err = TRUE]
            ELSE hpc' = "singbox" /\ UNCHANGED sb
  /\ UNCHANGED <<x, closed, list, appliedRev, told, faults>>

\* applySingbox: left running, not decoded, replaced, or failed on.
ApplySingbox ==
  /\ hpc = "singbox"
  /\ \/ /\ Unchanged
        /\ sb' = [sb EXCEPT !.err = FALSE]
        /\ hpc' = "xray"
        /\ UNCHANGED faults
     \/ /\ ~Unchanged /\ req.sb \in Unparsable
        /\ hpc' = "rejected"
        /\ UNCHANGED <<sb, faults>>
     \/ /\ ~Unchanged /\ req.sb \notin Unparsable
        /\ sb' = [Instance(sb, req.sb) EXCEPT !.err = FALSE]
        /\ hpc' = "xray"
        /\ UNCHANGED faults
     \/ /\ ~Unchanged /\ req.sb \notin Unparsable
        /\ Fault
        /\ sb' \in SwapFails(sb)
        /\ hpc' = "rejected"
  /\ UNCHANGED <<x, closed, req, list, appliedRev, told, frames>>

\* Mutant of ApplyXray: its error is returned and not kept for the state frame.
ApplyXrayQuietly ==
  /\ hpc = "xray"
  /\ \/ /\ req.x = x.part /\ (x.proc # 0 \/ req.x = NoPart)
        /\ hpc' = "accepted"
        /\ UNCHANGED <<sb, x, faults>>
     \/ /\ req.x # x.part \/ (x.proc = 0 /\ req.x # NoPart)
        /\ LET empty == [Stopped(x) EXCEPT !.part = req.x] IN
           x' = IF req.x = NoPart THEN empty ELSE Started(empty)
        /\ hpc' = "accepted"
        /\ UNCHANGED <<sb, faults>>
     \/ /\ req.x # NoPart /\ (req.x # x.part \/ x.proc = 0)
        /\ Fault
        /\ x' \in RestoredXray(x)
        /\ hpc' = "rejected"
        /\ UNCHANGED sb
  /\ UNCHANGED <<closed, req, list, appliedRev, told, frames>>

\* xrayCore.apply: left running, stopped, replaced, or failed on.
ApplyXray ==
  /\ hpc = "xray"
  /\ \/ /\ req.x = x.part /\ (x.proc # 0 \/ req.x = NoPart)
        /\ hpc' = "accepted"
        /\ UNCHANGED <<sb, x, faults>>
     \/ /\ req.x # x.part \/ (x.proc = 0 /\ req.x # NoPart)
        /\ LET empty == [Stopped(x) EXCEPT !.part = req.x] IN
           x' = IF req.x = NoPart THEN empty ELSE Started(empty)
        /\ hpc' = "accepted"
        /\ UNCHANGED <<sb, faults>>
     \/ /\ req.x # NoPart /\ (req.x # x.part \/ x.proc = 0)
        /\ Fault
        /\ x' \in RestoredXray(x)
        /\ sb' = [sb EXCEPT !.err = TRUE]
        /\ hpc' = "rejected"
  /\ UNCHANGED <<closed, req, list, appliedRev, told, frames>>

\* The state frame follows every attempt.
Answer ==
  /\ hpc \in {"accepted", "rejected"}
  /\ appliedRev' = IF hpc = "accepted" THEN req ELSE appliedRev
  /\ told' = [err |-> sb.err, rev |-> appliedRev']
  /\ hpc' = "read"
  /\ UNCHANGED <<sb, x, closed, req, list, frames, faults>>

-----------------------------------------------------------------------------
(* The read loop: a user list, a welcome, and the end *)

ReceiveUsers ==
  /\ Receive
  /\ list' \in Lists
  /\ hpc' = "users"
  /\ UNCHANGED <<sb, x, closed, req, appliedRev, told, faults>>

\* UpdateUsers up to Xray's part: refused while sing-box is down, skipped if the
\* list is in place, else the inbounds and then the statistics allowlist.
UpdateSingbox ==
  /\ hpc = "users"
  /\ \/ /\ ~sb.running \/ sb.hash = {list}
        /\ hpc' = "read"
        /\ UNCHANGED <<sb, faults>>
     \/ /\ sb.running /\ sb.hash # {list}
        /\ sb' = [sb EXCEPT !.users = list, !.stats = list, !.hash = {}]
        /\ hpc' = "usersXray"
        /\ UNCHANGED faults
     \/ /\ sb.running /\ sb.hash # {list}
        /\ Fault
        /\ \E some \in {sb.users, list} : sb' = [sb EXCEPT !.users = some, !.hash = {}]
        /\ hpc' = "read"
  /\ UNCHANGED <<x, closed, req, list, appliedRev, told, frames>>

\* Removals come first, then additions, and the first error ends it.
PartlyUpdated(live) ==
  {live \ gone : gone \in SUBSET (live \ list)}
    \cup {(live \cap list) \cup new : new \in SUBSET (list \ live)}

\* updateUsers: the list is wanted from now on; a running process is brought in
\* line with it, unless a call fails, as every call to a dead one does.
UpdateXray ==
  /\ hpc = "usersXray"
  /\ hpc' = "read"
  /\ \/ /\ x.proc = 0 \/ x.live = list \/ x.proc \in x.alive
        /\ x' = [x EXCEPT !.want = list, !.live = IF x.proc = 0 THEN @ ELSE list]
        /\ sb' = [sb EXCEPT !.hash = {list}]
        /\ UNCHANGED faults
     \/ /\ x.proc # 0 /\ x.live # list /\ x.proc \notin x.alive
        /\ x' = [x EXCEPT !.want = list]
        /\ UNCHANGED <<sb, faults>>
     \/ /\ x.proc # 0 /\ x.live # list
        /\ Fault
        /\ \E some \in PartlyUpdated(x.live) \ {list} : x' = [x EXCEPT !.want = list, !.live = some]
        /\ UNCHANGED sb
  /\ UNCHANGED <<closed, req, list, appliedRev, told, frames>>

\* A welcome with another public address: Xray is stopped and started on it.
HandleWelcome ==
  /\ Receive
  /\ x.part # NoPart
  /\ \/ x' = Started(Stopped(x)) /\ UNCHANGED faults
     \/ x' = Stopped(x) /\ Fault
  /\ UNCHANGED <<sb, closed, hpc, req, list, appliedRev, told>>

\* The node is told to end: Run has returned, so no handler is running.
Close ==
  /\ hpc = "read" /\ ~closed
  /\ closed' = TRUE
  /\ x' = Stopped(x)
  /\ sb' = [sb EXCEPT !.running = FALSE]
  /\ UNCHANGED <<hpc, req, list, appliedRev, told, frames, faults>>

-----------------------------------------------------------------------------

Init ==
  /\ sb = [running |-> FALSE, current |-> NoPart, err |-> FALSE,
           users |-> {}, stats |-> {}, hash |-> {}]
  /\ x = [part |-> NoPart, proc |-> 0, want |-> {}, live |-> {}, gen |-> 0, started |-> 0,
          alive |-> {}, watched |-> {}, stopping |-> {}, retrying |-> 0]
  /\ closed = FALSE
  /\ hpc = "read" /\ req = NoConfig /\ list = {}
  /\ appliedRev = NoConfig /\ told = [err |-> FALSE, rev |-> NoConfig]
  /\ frames = 0 /\ faults = 0

Next ==
  \/ ReceiveConfig \/ ApplySingbox \/ ApplyXray \/ Answer
  \/ ReceiveUsers \/ UpdateSingbox \/ UpdateXray \/ HandleWelcome \/ Close
  \/ XrayExits \/ Supervise \/ Retry

Spec == Init /\ [][Next]_vars

\* The goroutine that watches Xray runs; nothing else has to happen.
FairSpec == Spec /\ WF_vars(Supervise) /\ WF_vars(Retry)

-----------------------------------------------------------------------------
(* Properties *)

Rev == Configs \cup {NoConfig}

TypeOK ==
  /\ sb \in [running: BOOLEAN, current: SbParts \cup {NoPart}, err: BOOLEAN,
             users: Lists, stats: Lists, hash: {{}} \cup {{l} : l \in Lists}]
  /\ x \in [part: XParts \cup {NoPart}, proc: Nat, want: Lists, live: Lists, gen: Nat, started: Nat,
            alive: SUBSET (1..x.started), watched: SUBSET (1..x.started),
            stopping: SUBSET (1..x.started), retrying: Nat]
  /\ closed \in BOOLEAN
  /\ hpc \in {"read", "singbox", "xray", "accepted", "rejected", "users", "usersXray"}
  /\ req \in Rev /\ list \in Lists
  /\ appliedRev \in Rev /\ told \in [err: BOOLEAN, rev: Rev]
  /\ frames \in 0..MaxFrames /\ faults \in 0..MaxFaults

\* A list that would be skipped as already in place is in place: on sing-box's
\* inbounds, in its statistics, and in the Xray that runs or would be started,
\* whichever of them was replaced since it was last applied.
SkippingIsSafe ==
  \A l \in sb.hash :
    /\ sb.running => sb.users = l /\ sb.stats = l
    /\ x.want = l
    /\ x.proc # 0 => x.live = l

\* At most one Xray runs, the one the engine knows; none once it is closed,
\* whatever was being restarted then.
NoStrayXray == x.alive \subseteq (IF closed THEN {} ELSE {x.proc})

\* Every process's books are closed once, whether it was stopped, exited, or
\* exited while it was being stopped: closing them again would put traffic
\* counted by its successor on the wrong side of a reading.
RetiredOnce == x.gen + (IF x.proc = 0 THEN 0 ELSE 1) = x.started

\* What the panel shows as up to date, a state frame without error that carries
\* the revision, is what both cores were last given.
UpToDateIsServed ==
  hpc = "read" /\ ~closed /\ ~told.err /\ told.rev # NoConfig =>
    sb.running /\ sb.current = told.rev.sb /\ x.part = told.rev.x

\* An Xray that exits unasked is started again unless a handler stops it first or
\* nothing is left for it to serve, also when starts fail and configurations and
\* restarts come in between (stated of the first MaxFrames processes).
XrayReturns ==
  \A p \in 1..MaxFrames :
    (x.proc = p /\ p \notin x.alive) ~>
      (p \in x.stopping \/ x.proc \in x.alive \/ x.part = NoPart \/ closed)

=============================================================================
