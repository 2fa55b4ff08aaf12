------------------------------ MODULE HubPush -------------------------------
(***************************************************************************)
(* How an edit on the panel reaches a node: panel/internal/hub/hub.go from *)
(* the Notifier calls of the service to the frames of a control channel,   *)
(* and the read loop of node/internal/link/link.go that applies them.      *)
(*                                                                         *)
(* A service call writes the database, then notifies the hub.  The hub     *)
(* collapses notifications with a timer, and a flush pushes the state the  *)
(* database has by then over the connection registered for the node; a     *)
(* hello makes the goroutine serving a connection push everything.  Calls, *)
(* timers, flushes, pushes and connections all run concurrently, and a new *)
(* connection is registered before the old one is known to be dead.        *)
(*                                                                         *)
(* One node stands for all: a flush runs one goroutine per connection, and *)
(* connections share nothing but the pending set.  Configurations and user *)
(* lists are revision numbers.                                             *)
(***************************************************************************)
EXTENDS Integers, Sequences

CONSTANTS
  MaxUserEdits,   \* service calls that change the users
  MaxConfigEdits, \* service calls that change the node's configuration
  MaxQueue,       \* frames under way to the node
  MaxFaults,      \* dropped connections, restarts of either process, failed pushes
  Coalesce,       \* the coalescing window, in ticks of its own clock
  MaxCoalesce     \* how long notifications may go on restarting it

ASSUME HubAssumption ==
  /\ MaxUserEdits \in Nat /\ MaxConfigEdits \in Nat /\ MaxQueue \in Nat \ {0} /\ MaxFaults \in Nat
  /\ Coalesce \in Nat \ {0} /\ MaxCoalesce \in Nat \ {0}

VARIABLES
  \* the database: what the node's configuration and user list are now
  cfgDb, usersDb,
  \* service calls that have written and not yet notified
  editing,
  \* Hub.pend*: what the next flush takes, its timer and how long it is held
  pendUsers, pendConfig, pendTimer, pendAge,
  \* timers armed again after they fired, and no longer Hub.pendTimer
  strays,
  \* flushes: fired, and past pendMu with what they took
  fired, taken,
  \* pushTo calls, from flushes and from hellos
  pushes,
  \* Hub.conns, the connections being served, and the last one accepted
  registered, serving, lastConn,
  \* the node's session: its connection, whether its hello has been handled,
  \* and the frames under way to it
  session, greeted, down,
  \* history: what a push that failed left out, and none has built since on
  \* this connection
  unsent,
  \* the node: what it was told and runs
  welcomed, nodeCfg, nodeXray, nodeUsers, populated,
  faults

dbVars   == <<cfgDb, usersDb, editing>>
pendVars == <<pendUsers, pendConfig, pendTimer, pendAge, strays, fired>>
connVars == <<registered, serving, lastConn>>
linkVars == <<session, greeted, down, unsent>>
nodeVars == <<welcomed, nodeCfg, nodeXray, nodeUsers, populated>>
vars == <<dbVars, pendVars, taken, pushes, connVars, linkVars, nodeVars, faults>>

None == 0                       \* no connection
NoTimer == -1
Frame(type, rev, xray) == [type |-> type, rev |-> rev, xray |-> xray]
Welcome == Frame("welcome", 0, FALSE)

-----------------------------------------------------------------------------
(* The service *)

WriteUsers ==
  /\ usersDb <= MaxUserEdits
  /\ usersDb' = usersDb + 1
  /\ editing' = editing \cup {"users"}
  /\ UNCHANGED <<cfgDb, pendVars, taken, pushes, connVars, linkVars, nodeVars, faults>>

WriteConfig ==
  /\ cfgDb <= MaxConfigEdits
  /\ cfgDb' = cfgDb + 1
  /\ editing' = editing \cup {"config"}
  /\ UNCHANGED <<usersDb, pendVars, taken, pushes, connVars, linkVars, nodeVars, faults>>

\* Mutant of schedule: every notification restarts the timer.
scheduleUncapped(config) ==
  /\ pendUsers' = TRUE /\ pendConfig' = (pendConfig \/ config)
  /\ pendTimer' = Coalesce
  /\ pendAge' = IF pendTimer = NoTimer THEN 0 ELSE pendAge
  /\ UNCHANGED <<strays, fired>>

\* UsersChanged and ConfigChanged.  The first notification starts the timer, a
\* later one restarts it until the oldest has been held for maxCoalesce.
schedule(config) ==
  /\ pendUsers' = TRUE
  /\ pendConfig' = (pendConfig \/ config)
  /\ IF pendTimer = NoTimer
       THEN pendTimer' = Coalesce /\ pendAge' = 0
     ELSE IF pendAge < MaxCoalesce
       THEN pendTimer' = Coalesce /\ UNCHANGED pendAge
     ELSE UNCHANGED <<pendTimer, pendAge>>
  /\ UNCHANGED <<strays, fired>>

Notify ==
  /\ \E call \in editing : schedule(call = "config") /\ editing' = editing \ {call}
  /\ UNCHANGED <<cfgDb, usersDb, taken, pushes, connVars, linkVars, nodeVars, faults>>

-----------------------------------------------------------------------------
(* The coalescing timer and flush *)

\* Time passes while a timer runs; one that runs out starts a flush.
Elapse ==
  /\ fired = 0
  /\ pendTimer > 0 \/ strays # {}
  /\ pendTimer' = IF pendTimer > 0 THEN pendTimer - 1 ELSE pendTimer
  /\ pendAge' = IF pendTimer = NoTimer THEN pendAge ELSE pendAge + 1
  /\ strays' = {t - 1 : t \in strays \ {1}}
  /\ fired' = (IF pendTimer = 1 THEN 1 ELSE 0) + (IF 1 \in strays THEN 1 ELSE 0)
  /\ UNCHANGED <<pendUsers, pendConfig, dbVars, taken, pushes, connVars, linkVars, nodeVars, faults>>

\* What is pending is taken under pendMu.  A timer restarted after it fired
\* goes on running, no longer known to the hub.
FlushTakes ==
  /\ fired > 0
  /\ fired' = fired - 1
  /\ taken' = taken \cup {[config |-> pendConfig, users |-> pendUsers]}
  /\ pendUsers' = FALSE /\ pendConfig' = FALSE /\ pendTimer' = NoTimer /\ pendAge' = 0
  /\ strays' = IF pendTimer > 0 THEN strays \cup {pendTimer} ELSE strays
  /\ UNCHANGED <<dbVars, pushes, connVars, linkVars, nodeVars, faults>>

\* The connections are read later, under another lock, and pushed to each in a
\* goroutine of its own.
FlushPushes ==
  /\ \E t \in taken :
       /\ taken' = taken \ {t}
       /\ pushes' = IF registered # None /\ (t.config \/ t.users)
                      THEN pushes \cup {[conn |-> registered, config |-> t.config, users |-> t.users,
                                         at |-> "lock", rev |-> 0, xray |-> FALSE]}
                      ELSE pushes
  /\ UNCHANGED <<dbVars, pendVars, connVars, linkVars, nodeVars, faults>>

-----------------------------------------------------------------------------
(* pushTo: under the connection's pushMu, each part is built and then sent *)

Becomes(p, q) == pushes' = (pushes \ {p}) \cup {q}
Ends(p) == pushes' = pushes \ {p}

\* Mutant of PushLocks: no pushMu, so two pushes to one node interleave.
PushStarts ==
  /\ \E p \in pushes :
       /\ p.at = "lock"
       /\ Becomes(p, [p EXCEPT !.at = IF p.config THEN "config" ELSE "users"])
  /\ UNCHANGED <<dbVars, pendVars, taken, connVars, linkVars, nodeVars, faults>>

PushLocks ==
  /\ \E p \in pushes :
       /\ p.at = "lock"
       /\ \A q \in pushes : q.conn = p.conn => q.at = "lock"
       /\ Becomes(p, [p EXCEPT !.at = IF p.config THEN "config" ELSE "users"])
  /\ UNCHANGED <<dbVars, pendVars, taken, connVars, linkVars, nodeVars, faults>>

\* What is read now includes what an earlier push left out.
MakesUpFor(p, part) ==
  unsent' = IF p.conn = session THEN unsent \ {part} ELSE unsent

\* The Xray part only if this connection's hello has offered xray.
PushBuilds ==
  /\ \E p \in pushes :
       \/ /\ p.at = "config"
          /\ Becomes(p, [p EXCEPT !.at = "sendConfig", !.rev = cfgDb,
                                  !.xray = p.conn = session /\ greeted])
          /\ MakesUpFor(p, "config")
       \/ /\ p.at = "users"
          /\ Becomes(p, [p EXCEPT !.at = "sendUsers", !.rev = usersDb])
          /\ MakesUpFor(p, "users")
  /\ UNCHANGED <<dbVars, pendVars, taken, connVars, session, greeted, down, nodeVars, faults>>

\* A write waits for room, and fails on a connection that is gone.
PushSends ==
  /\ \E p \in pushes :
       \/ /\ p.at = "sendConfig" /\ p.conn = session
          /\ Len(down) < MaxQueue
          /\ down' = Append(down, Frame("config", p.rev, p.xray))
          /\ IF p.users THEN Becomes(p, [p EXCEPT !.at = "users"]) ELSE Ends(p)
       \/ /\ p.at = "sendUsers" /\ p.conn = session
          /\ Len(down) < MaxQueue
          /\ down' = Append(down, Frame("users", p.rev, FALSE))
          /\ Ends(p)
       \/ /\ p.at \in {"sendConfig", "sendUsers"} /\ p.conn # session
          /\ Ends(p)
          /\ UNCHANGED down
  /\ UNCHANGED <<dbVars, pendVars, taken, connVars, session, greeted, unsent, nodeVars, faults>>

Fault == faults < MaxFaults /\ faults' = faults + 1

LeavesOut(p) ==
  (IF p.at \in {"config", "sendConfig"} THEN {"config"} ELSE {})
    \cup (IF p.users THEN {"users"} ELSE {})

\* pushTo returns an error: the database could not be read, or the context
\* expired in the wait for pushMu.  flush and serve log it.  The connection
\* stays up, and nothing is pending that would make up for it.
PushFails ==
  /\ Fault
  /\ \E p \in pushes :
       /\ p.at # "lock"
       /\ Ends(p)
       /\ unsent' = IF p.conn = session THEN unsent \cup LeavesOut(p) ELSE unsent
  /\ UNCHANGED <<dbVars, pendVars, taken, connVars, session, greeted, down, nodeVars>>

-----------------------------------------------------------------------------
(* Connections *)

\* serve: the new connection replaces whatever is registered, before its hello
\* is read.
Connect ==
  /\ session = None
  /\ lastConn' = lastConn + 1
  /\ session' = lastConn' /\ greeted' = FALSE /\ down' = << >> /\ unsent' = {}
  /\ registered' = lastConn'
  /\ serving' = serving \cup {lastConn'}
  /\ welcomed' = FALSE
  /\ UNCHANGED <<dbVars, pendVars, taken, pushes, nodeCfg, nodeXray, nodeUsers, populated, faults>>

\* Mutant of DispatchHello: only the configuration is pushed.
DispatchHelloConfigOnly ==
  /\ session # None /\ ~greeted
  /\ Len(down) < MaxQueue
  /\ greeted' = TRUE
  /\ down' = Append(down, Welcome)
  /\ pushes' = pushes \cup {[conn |-> session, config |-> TRUE, users |-> FALSE,
                             at |-> "lock", rev |-> 0, xray |-> FALSE]}
  /\ UNCHANGED <<dbVars, pendVars, taken, connVars, session, unsent, nodeVars, faults>>

\* The welcome, and then everything.
DispatchHello ==
  /\ session # None /\ ~greeted
  /\ Len(down) < MaxQueue
  /\ greeted' = TRUE
  /\ down' = Append(down, Welcome)
  /\ pushes' = pushes \cup {[conn |-> session, config |-> TRUE, users |-> TRUE,
                             at |-> "lock", rev |-> 0, xray |-> FALSE]}
  /\ UNCHANGED <<dbVars, pendVars, taken, connVars, session, unsent, nodeVars, faults>>

\* Mutant of ServeEnds: whatever is registered is taken off.
ServeEndsBlindly ==
  /\ \E c \in serving \ {session} : serving' = serving \ {c}
  /\ registered' = None
  /\ UNCHANGED <<dbVars, pendVars, taken, pushes, lastConn, linkVars, nodeVars, faults>>

\* The goroutine serving a connection finds it closed or dead, and takes it off
\* the register if it is still the one there.
ServeEnds ==
  /\ \E c \in serving \ {session} :
       /\ serving' = serving \ {c}
       /\ registered' = IF registered = c THEN None ELSE registered
  /\ UNCHANGED <<dbVars, pendVars, taken, pushes, lastConn, linkVars, nodeVars, faults>>

EndSession == session' = None /\ greeted' = FALSE /\ down' = << >> /\ unsent' = {}

\* The node notices before the panel does.
Drop ==
  /\ session # None
  /\ Fault
  /\ EndSession
  /\ UNCHANGED <<dbVars, pendVars, taken, pushes, connVars, nodeVars>>

NodeRestart ==
  /\ Fault
  /\ EndSession
  /\ nodeCfg' = 0 /\ nodeXray' = FALSE /\ nodeUsers' = 0 /\ populated' = FALSE
  /\ welcomed' = FALSE
  /\ UNCHANGED <<dbVars, pendVars, taken, pushes, connVars>>

\* Everything of the hub's is in memory; so is a call that has not notified yet.
PanelRestart ==
  /\ Fault
  /\ EndSession
  /\ editing' = {}
  /\ pendUsers' = FALSE /\ pendConfig' = FALSE /\ pendTimer' = NoTimer /\ pendAge' = 0
  /\ strays' = {} /\ fired' = 0 /\ taken' = {} /\ pushes' = {}
  /\ registered' = None /\ serving' = {}
  /\ UNCHANGED <<cfgDb, usersDb, lastConn, nodeVars>>

-----------------------------------------------------------------------------
(* The node's read loop *)

Receive(type) ==
  /\ session # None
  /\ down # << >> /\ Head(down).type = type
  /\ down' = Tail(down)

HandleWelcome ==
  /\ Receive("welcome")
  /\ welcomed' = TRUE
  /\ UNCHANGED <<dbVars, pendVars, taken, pushes, connVars, session, greeted, unsent,
                 nodeCfg, nodeXray, nodeUsers, populated, faults>>

\* A configuration that differs rebuilds the listeners, without users until the
\* next list; the same one changes nothing.
HandleConfig ==
  /\ Receive("config")
  /\ nodeCfg' = Head(down).rev /\ nodeXray' = Head(down).xray
  /\ populated' = (populated /\ Head(down).rev = nodeCfg)
  /\ UNCHANGED <<dbVars, pendVars, taken, pushes, connVars, session, greeted, unsent,
                 welcomed, nodeUsers, faults>>

HandleUsers ==
  /\ Receive("users")
  /\ nodeUsers' = Head(down).rev
  /\ populated' = TRUE
  /\ UNCHANGED <<dbVars, pendVars, taken, pushes, connVars, session, greeted, unsent,
                 welcomed, nodeCfg, nodeXray, faults>>

-----------------------------------------------------------------------------

Init ==
  /\ cfgDb = 1 /\ usersDb = 1 /\ editing = {}
  /\ pendUsers = FALSE /\ pendConfig = FALSE /\ pendTimer = NoTimer /\ pendAge = 0
  /\ strays = {} /\ fired = 0 /\ taken = {} /\ pushes = {}
  /\ registered = None /\ serving = {} /\ lastConn = 0
  /\ session = None /\ greeted = FALSE /\ down = << >> /\ unsent = {}
  /\ welcomed = FALSE /\ nodeCfg = 0 /\ nodeXray = FALSE /\ nodeUsers = 0 /\ populated = FALSE
  /\ faults = 0

HubStep ==
  \/ Notify \/ Elapse \/ FlushTakes \/ FlushPushes
  \/ PushLocks \/ PushBuilds \/ PushSends
  \/ DispatchHello \/ ServeEnds

NodeStep == Connect \/ HandleWelcome \/ HandleConfig \/ HandleUsers

Next ==
  \/ WriteUsers \/ WriteConfig \/ HubStep \/ NodeStep
  \/ PushFails \/ Drop \/ NodeRestart \/ PanelRestart

Spec == Init /\ [][Next]_vars

\* As long as a goroutine or timer of either program can go on, one of them
\* does; edits and faults may stop.
Fairness == WF_vars(HubStep \/ NodeStep)

FairSpec == Spec /\ Fairness

-----------------------------------------------------------------------------
(* Properties *)

TypeOK ==
  /\ cfgDb \in 1..MaxConfigEdits + 1 /\ usersDb \in 1..MaxUserEdits + 1
  /\ editing \subseteq {"users", "config"}
  /\ pendUsers \in BOOLEAN /\ pendConfig \in BOOLEAN
  /\ pendTimer \in NoTimer..Coalesce /\ pendAge \in Nat
  /\ strays \subseteq 1..Coalesce /\ fired \in Nat
  /\ taken \subseteq [config: BOOLEAN, users: BOOLEAN]
  /\ pushes \subseteq [conn: Nat, config: BOOLEAN, users: BOOLEAN,
                       at: {"lock", "config", "sendConfig", "users", "sendUsers"},
                       rev: Nat, xray: BOOLEAN]
  /\ registered \in Nat /\ serving \subseteq 1..lastConn /\ lastConn \in Nat
  /\ session \in Nat /\ greeted \in BOOLEAN
  /\ down \in Seq([type: {"welcome", "config", "users"}, rev: Nat, xray: BOOLEAN])
  /\ unsent \subseteq {"config", "users"}
  /\ welcomed \in BOOLEAN /\ nodeXray \in BOOLEAN /\ populated \in BOOLEAN
  /\ nodeCfg \in Nat /\ nodeUsers \in Nat /\ faults \in Nat

\* The hub has nothing left to do for a node whose hello it has handled.
Quiet ==
  /\ editing = {} /\ ~pendUsers /\ ~pendConfig /\ fired = 0 /\ taken = {}
  /\ \A p \in pushes : p.conn # session
  /\ session # None /\ greeted /\ down = << >>

\* The node serves what the database holds, but for what a failed push left out.
UpToDate ==
  /\ "config" \in unsent \/ (nodeCfg = cfgDb /\ nodeXray)
  /\ "users" \in unsent \/ (nodeUsers = usersDb /\ populated)

\* Once nothing is pending, being pushed or under way, the node serves exactly
\* what the database holds: no interleaving of edits, flushes, reconnects and
\* hellos drops an edit, or leaves the node without users or its Xray part.
\* Only what an error in pushTo left out is missing, until a later push
\* builds that part or the node reconnects.
NothingForgotten == Quiet => UpToDate

\* A node is never put back on a list or a configuration it has moved past,
\* though flushes overlap (the purpose of conn.pushMu).
NoStepBack ==
  [][NodeRestart \/ (nodeUsers <= nodeUsers' /\ nodeCfg <= nodeCfg')]_vars

\* However many notifications keep restarting the timer, what it has run and
\* what is left of it stay within maxCoalesce and one more window.
HeldBriefly == pendTimer # NoTimer => pendAge + pendTimer < MaxCoalesce + Coalesce

\* Once edits and faults stop, the node comes to serve what the database holds
\* and stays there; a part a push left out with an error excepted, which
\* nothing brings unless there is another push or connection.
Converges == <>[]UpToDate

=============================================================================
