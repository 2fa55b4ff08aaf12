-------------------------- MODULE EngineApplyProofs --------------------------
(***************************************************************************)
(* The safety properties of EngineApply, for every set of parts and users  *)
(* and every bound.  None of them but the type is about one core alone, so *)
(* the inductive invariant is stated of both: of Xray (Tidy), of the list  *)
(* in place (Skips), and of what has been accepted (ServedInv).            *)
(***************************************************************************)
EXTENDS EngineApply, TLAPS

SbType(s) ==
  s \in [running: BOOLEAN, current: SbParts \cup {NoPart}, err: BOOLEAN,
         users: Lists, stats: Lists, hash: {{}} \cup {{l} : l \in Lists}]

XrayType(c) ==
  c \in [part: XParts \cup {NoPart}, proc: Nat, want: Lists, live: Lists, gen: Nat, started: Nat,
         alive: SUBSET (1..c.started), watched: SUBSET (1..c.started),
         stopping: SUBSET (1..c.started), retrying: Nat]

\* The process known is one that was started, the only one that may be alive, and
\* the only one whose books are open.
Tidy(c) ==
  /\ XrayType(c)
  /\ c.proc \in 0..c.started
  /\ c.alive \subseteq {c.proc}
  /\ c.gen + (IF c.proc = 0 THEN 0 ELSE 1) = c.started

\* The list in place is on the instance, running or not, and on the Xray that runs.
Skips(s, c) ==
  \A l \in s.hash :
    /\ s.users = l /\ s.stats = l
    /\ c.want = l
    /\ c.proc # 0 => c.live = l

Serves(s, c, rev) == s.running /\ s.current = rev.sb /\ c.part = rev.x

\* Once closed, no handler runs and no process is known.
ClosedInv == closed => hpc = "read" /\ x.proc = 0

\* Between the two halves of a user list, sing-box has it and none is in place.
HalfInv ==
  hpc = "usersXray" => sb.hash = {} /\ sb.users = list /\ sb.stats = list

\* Without an error the revision accepted is served, and the panel has been told both
\* unless a configuration is on its way through.
ServedInv ==
  /\ told.rev = appliedRev
  /\ hpc \in {"read", "singbox", "users", "usersXray"} => told.err = sb.err
  /\ hpc \notin {"xray", "accepted"} /\ ~closed /\ ~sb.err /\ appliedRev # NoConfig =>
       Serves(sb, x, appliedRev)
  /\ hpc = "xray" => sb.running /\ sb.current = req.sb
  /\ hpc = "accepted" => Serves(sb, x, req)
  /\ hpc \in {"singbox", "xray", "accepted", "rejected"} => req \in Configs

RestType ==
  /\ closed \in BOOLEAN
  /\ hpc \in {"read", "singbox", "xray", "accepted", "rejected", "users", "usersXray"}
  /\ req \in Rev /\ list \in Lists
  /\ appliedRev \in Rev /\ told \in [err: BOOLEAN, rev: Rev]
  /\ frames \in 0..MaxFrames /\ faults \in 0..MaxFaults

IInv ==
  /\ SbType(sb)
  /\ RestType
  /\ Tidy(x)
  /\ Skips(sb, x)
  /\ ClosedInv /\ HalfInv /\ ServedInv

-----------------------------------------------------------------------------
(* What replacing a core does *)

\* A process that is stopped leaves Xray in order, without one.
LEMMA StoppedKeeps ==
  ASSUME NEW c, Tidy(c)
  PROVE  /\ Tidy(Stopped(c))
         /\ Stopped(c).proc = 0 /\ Stopped(c).alive = {}
         /\ Stopped(c).part = c.part /\ Stopped(c).want = c.want
  <1>1. CASE c.proc = 0
    BY <1>1 DEF Tidy, XrayType, Stopped
  <1>2. CASE c.proc # 0
    <2>1. c.proc \in 1..c.started
      BY <1>2 DEF Tidy, XrayType
    <2>2. XrayType(Stopped(c))
      BY <1>2, <2>1 DEF Tidy, XrayType, Stopped, Lists
    <2>3. /\ Stopped(c).proc = 0 /\ Stopped(c).alive = {}
          /\ Stopped(c).part = c.part /\ Stopped(c).want = c.want
          /\ Stopped(c).gen = c.gen + 1 /\ Stopped(c).started = c.started
      BY <1>2 DEF Tidy, XrayType, Stopped
    <2> QED BY <1>2, <2>2, <2>3 DEF Tidy, XrayType
  <1> QED BY <1>1, <1>2

\* A process that is started where none is known leaves Xray in order, with it, and
\* with the users wanted on it.
LEMMA StartedKeeps ==
  ASSUME NEW c, Tidy(c), c.proc = 0
  PROVE  /\ Tidy(Started(c))
         /\ Started(c).proc # 0
         /\ Started(c).part = c.part /\ Started(c).want = c.want
         /\ Started(c).live = c.want
  <1>1. c.alive = {}
    BY DEF Tidy, XrayType
  <1>2. XrayType(Started(c))
    <2>1. c.started + 1 \in 1..(c.started + 1) /\ 1..c.started \subseteq 1..(c.started + 1)
      BY DEF Tidy, XrayType
    <2>2. /\ c.alive \cup {c.started + 1} \in SUBSET (1..(c.started + 1))
          /\ c.watched \cup {c.started + 1} \in SUBSET (1..(c.started + 1))
          /\ c.stopping \in SUBSET (1..(c.started + 1))
      BY <2>1 DEF Tidy, XrayType
    <2>3. c.want \in Lists /\ c.started + 1 \in Nat
      BY DEF Tidy, XrayType
    <2>4. Started(c).started = c.started + 1
      BY DEF Tidy, XrayType, Started
    <2>5. Started(c) \in
            [part: XParts \cup {NoPart}, proc: Nat, want: Lists, live: Lists, gen: Nat,
             started: Nat, alive: SUBSET (1..(c.started + 1)), watched: SUBSET (1..(c.started + 1)),
             stopping: SUBSET (1..(c.started + 1)), retrying: Nat]
      BY <2>2, <2>3 DEF Tidy, XrayType, Started
    <2> QED BY <2>4, <2>5 DEF XrayType
  <1>3. /\ Started(c).proc = c.started + 1 /\ Started(c).started = c.started + 1
        /\ Started(c).alive = {c.started + 1} /\ Started(c).gen = c.gen
        /\ Started(c).part = c.part /\ Started(c).want = c.want
        /\ Started(c).live = c.want
    BY <1>1 DEF Tidy, XrayType, Started
  <1>4. c.started \in Nat /\ c.gen = c.started
    BY DEF Tidy, XrayType
  <1> QED BY <1>2, <1>3, <1>4 DEF Tidy

\* Another part is all that distinguishes what is started from what was stopped.
LEMMA PartKeeps ==
  ASSUME NEW c, Tidy(c), NEW p \in XParts \cup {NoPart}
  PROVE  LET d == [c EXCEPT !.part = p] IN
         Tidy(d) /\ d.part = p /\ d.proc = c.proc /\ d.want = c.want /\ d.live = c.live
  BY DEF Tidy, XrayType

\* A new instance is of the type, serves its part and has no list in place.
LEMMA InstanceKeeps ==
  ASSUME NEW s, SbType(s), NEW p \in SbParts \cup {NoPart}
  PROVE  /\ SbType(Instance(s, p))
         /\ Instance(s, p).running /\ Instance(s, p).current = p
         /\ Instance(s, p).hash = {} /\ Instance(s, p).err = s.err
  BY DEF SbType, Instance, Lists

\* A swap that fails is noted, and what is in place is what was, or nothing.
LEMMA SwapFailsKeeps ==
  ASSUME NEW s, SbType(s), NEW t \in SwapFails(s)
  PROVE  /\ SbType(t) /\ t.err
         /\ t.hash = {} \/ (t.hash = s.hash /\ t.users = s.users /\ t.stats = s.stats)
  <1> DEFINE err == [s EXCEPT !.err = TRUE]
             stopped == [err EXCEPT !.running = FALSE]
  <1>1. SbType(err) /\ err.err /\ err.hash = s.hash /\ err.users = s.users /\ err.stats = s.stats
    BY DEF SbType
  <1>2. /\ SbType(stopped) /\ stopped.err
        /\ stopped.hash = s.hash /\ stopped.users = s.users /\ stopped.stats = s.stats
    BY DEF SbType
  <1>3. \/ t = stopped
        \/ t = err
        \/ s.current # NoPart /\ t = Instance(stopped, s.current)
    BY DEF SwapFails
  <1>4. s.current \in SbParts \cup {NoPart}
    BY DEF SbType
  <1> HIDE DEF err, stopped
  <1> QED BY <1>1, <1>2, <1>3, <1>4, InstanceKeeps

-----------------------------------------------------------------------------
(* Every step keeps the invariant *)

\* The bounds are kept by whoever counts.
LEMMA FaultCounts ==
  ASSUME RestType, Fault \/ UNCHANGED faults
  PROVE  faults' \in 0..MaxFaults
  BY PartsAssumption DEF RestType, Fault

\* A frame is taken when no handler runs.
LEMMA ReceiveCounts ==
  ASSUME RestType, Receive
  PROVE  hpc = "read" /\ ~closed /\ frames' \in 0..MaxFrames
  BY PartsAssumption DEF RestType, Receive

\* A step that leaves Engine's own state, and keeps or forgets the process known,
\* keeps the list in place.
LEMMA XrayStepSkips ==
  ASSUME Skips(sb, x), sb' = sb, x'.want = x.want,
         x'.proc = 0 \/ x'.live = x.want \/ (x'.proc = x.proc /\ x'.live = x.live)
  PROVE  Skips(sb, x)'
  BY DEF Skips

LEMMA XrayExitsKeeps ==
  ASSUME IInv, XrayExits
  PROVE  IInv'
  <1> USE DEF IInv, XrayExits
  <1>1. PICK p \in x.alive : x' = [x EXCEPT !.alive = @ \ {p}]
    OBVIOUS
  <1>2. /\ x'.proc = x.proc /\ x'.part = x.part /\ x'.want = x.want /\ x'.live = x.live
        /\ Tidy(x)'
    BY <1>1 DEF Tidy, XrayType
  <1>3. RestType'
    BY FaultCounts DEF RestType
  <1> QED
    BY <1>2, <1>3, XrayStepSkips DEF SbType, ClosedInv, HalfInv, ServedInv, Serves

LEMMA SuperviseKeeps ==
  ASSUME IInv, Supervise
  PROVE  IInv'
  <1> USE DEF IInv, Supervise
  <1>1. PICK p \in x.watched \ x.alive :
          LET seen == [x EXCEPT !.watched = @ \ {p}, !.stopping = @ \ {p}] IN
          IF closed \/ p \in x.stopping \/ x.proc # p THEN x' = seen
          ELSE x' = [seen EXCEPT !.proc = 0, !.live = {}, !.gen = @ + 1, !.retrying = @ + 1]
    OBVIOUS
  <1> DEFINE seen == [x EXCEPT !.watched = @ \ {p}, !.stopping = @ \ {p}]
  <1>2. /\ Tidy(seen) /\ seen.proc = x.proc /\ seen.part = x.part
        /\ seen.want = x.want /\ seen.live = x.live /\ seen.alive = x.alive
    BY DEF Tidy, XrayType
  <1>3. CASE x' = seen
    <2>1. Tidy(x)'
      BY <1>2, <1>3
    <2> QED BY <1>2, <1>3, <2>1, XrayStepSkips
      DEF SbType, RestType, ClosedInv, HalfInv, ServedInv, Serves
  <1>4. CASE /\ x.proc = p
             /\ x' = [seen EXCEPT !.proc = 0, !.live = {}, !.gen = @ + 1, !.retrying = @ + 1]
    <2>1. p # 0 /\ x.alive = {}
      BY <1>4 DEF Tidy, XrayType
    <2>2. /\ x'.proc = 0 /\ x'.part = x.part /\ x'.want = x.want
          /\ Tidy(x)'
      <3> HIDE DEF seen
      <3>1. /\ x'.proc = 0 /\ x'.part = seen.part /\ x'.want = seen.want
            /\ x'.started = seen.started /\ x'.alive = seen.alive /\ x'.gen = seen.gen + 1
        BY <1>2, <1>4 DEF Tidy, XrayType
      <3>2. {} \in Lists /\ seen.gen + 1 \in Nat /\ seen.retrying + 1 \in Nat
        BY <1>2 DEF Tidy, XrayType, Lists
      <3>3. XrayType(x)'
        BY <1>2, <1>4, <3>2 DEF Tidy, XrayType
      <3> QED BY <1>2, <1>4, <2>1, <3>1, <3>3 DEF Tidy, XrayType
    <2> QED BY <2>2, XrayStepSkips
      DEF SbType, RestType, ClosedInv, HalfInv, ServedInv, Serves
  <1> QED BY <1>1, <1>3, <1>4

LEMMA RetryKeeps ==
  ASSUME IInv, Retry
  PROVE  IInv'
  <1> USE DEF IInv, Retry
  <1>1. RestType'
    BY FaultCounts DEF RestType
  <1> DEFINE less(c) == [c EXCEPT !.retrying = @ - 1]
  <1>2. \A c : Tidy(c) /\ c.retrying > 0 =>
          /\ Tidy(less(c)) /\ less(c).proc = c.proc /\ less(c).part = c.part
          /\ less(c).want = c.want /\ less(c).live = c.live
    BY DEF Tidy, XrayType
  <1>3. CASE x' = less(x)
    <2> HIDE DEF less
    <2> QED BY <1>1, <1>2, <1>3, XrayStepSkips DEF SbType, ClosedInv, HalfInv, ServedInv, Serves
  <1>4. CASE ~closed /\ x.proc = 0 /\ x' = less(Started(x))
    <2>1. /\ Tidy(Started(x)) /\ Started(x).part = x.part
          /\ Started(x).want = x.want /\ Started(x).live = x.want
      BY <1>4, StartedKeeps
    <2>2. Started(x).retrying = x.retrying
      BY DEF Started, Tidy, XrayType
    <2> HIDE DEF less
    <2> QED BY <1>1, <1>2, <1>4, <2>1, <2>2, XrayStepSkips
      DEF SbType, ClosedInv, HalfInv, ServedInv, Serves
  <1>5. CASE UNCHANGED x
    BY <1>1, <1>5 DEF SbType, Tidy, XrayType, Skips, ClosedInv, HalfInv, ServedInv, Serves
  <1> QED BY <1>3, <1>4, <1>5

LEMMA ReceiveConfigKeeps ==
  ASSUME IInv, ReceiveConfig
  PROVE  IInv'
  <1> USE DEF IInv, ReceiveConfig
  <1>1. PICK c \in Configs :
          /\ req' = c
          /\ IF c.x \in Refused
               THEN hpc' = "rejected" /\ sb' = [sb EXCEPT !.err = TRUE]
               ELSE hpc' = "singbox" /\ UNCHANGED sb
    OBVIOUS
  <1>2. hpc = "read" /\ ~closed /\ RestType'
    BY <1>1, ReceiveCounts DEF RestType, Rev
  <1>3. CASE hpc' = "rejected" /\ sb' = [sb EXCEPT !.err = TRUE]
    <2>1. /\ SbType(sb)' /\ sb'.err
          /\ sb'.hash = sb.hash /\ sb'.users = sb.users /\ sb'.stats = sb.stats
      BY <1>3 DEF SbType
    <2> QED BY <1>1, <1>2, <1>3, <2>1
      DEF Tidy, XrayType, Skips, ClosedInv, HalfInv, ServedInv
  <1>4. CASE hpc' = "singbox" /\ UNCHANGED sb
    BY <1>1, <1>2, <1>4
      DEF SbType, Tidy, XrayType, Skips, ClosedInv, HalfInv, ServedInv, Serves
  <1> QED BY <1>1, <1>3, <1>4

LEMMA ApplySingboxKeeps ==
  ASSUME IInv, ApplySingbox
  PROVE  IInv'
  <1> USE DEF IInv, ApplySingbox
  <1>1. RestType' /\ ~closed /\ req.sb \in SbParts \cup {NoPart}
    BY FaultCounts DEF RestType, ClosedInv, ServedInv, Configs
  <1>2. Tidy(x)' /\ ClosedInv' /\ HalfInv'
    BY <1>1 DEF Tidy, XrayType, ClosedInv, HalfInv
  <1>3. CASE Unchanged /\ sb' = [sb EXCEPT !.err = FALSE] /\ hpc' = "xray"
    <2>1. /\ SbType(sb)' /\ sb'.running /\ sb'.current = req.sb
          /\ sb'.hash = sb.hash /\ sb'.users = sb.users /\ sb'.stats = sb.stats
      BY <1>3 DEF SbType, Unchanged
    <2> QED BY <1>1, <1>2, <1>3, <2>1 DEF Skips, ServedInv
  <1>4. CASE hpc' = "rejected" /\ UNCHANGED sb
    BY <1>1, <1>2, <1>4 DEF SbType, Skips, ServedInv, Serves
  <1>5. CASE sb' = [Instance(sb, req.sb) EXCEPT !.err = FALSE] /\ hpc' = "xray"
    <2> DEFINE i == Instance(sb, req.sb)
    <2>1. SbType(i) /\ i.running /\ i.current = req.sb /\ i.hash = {}
      BY <1>1, InstanceKeeps
    <2>2. SbType(sb)' /\ sb'.running /\ sb'.current = req.sb /\ sb'.hash = {}
      <3> HIDE DEF i
      <3>1. sb' = [i EXCEPT !.err = FALSE]
        BY <1>5 DEF i
      <3> QED BY <2>1, <3>1 DEF SbType
    <2> QED BY <1>1, <1>2, <1>5, <2>2 DEF Skips, ServedInv
  <1>6. CASE sb' \in SwapFails(sb) /\ hpc' = "rejected"
    <2>1. SbType(sb') /\ sb'.err
      BY <1>6, SwapFailsKeeps
    <2>2. sb'.hash = {} \/ (sb'.hash = sb.hash /\ sb'.users = sb.users /\ sb'.stats = sb.stats)
      BY <1>6, SwapFailsKeeps
    <2> QED BY <1>1, <1>2, <1>6, <2>1, <2>2 DEF SbType, Skips, ServedInv
  <1> QED BY <1>3, <1>4, <1>5, <1>6

LEMMA ApplyXrayKeeps ==
  ASSUME IInv, ApplyXray
  PROVE  IInv'
  <1> USE DEF IInv, ApplyXray
  <1>1. RestType' /\ ~closed /\ req.x \in XParts \cup {NoPart}
    BY FaultCounts DEF RestType, ClosedInv, ServedInv, Configs
  <1>2. ClosedInv' /\ HalfInv'
    BY <1>1 DEF ClosedInv, HalfInv
  <1>3. CASE req.x = x.part /\ hpc' = "accepted" /\ UNCHANGED <<sb, x>>
    BY <1>1, <1>2, <1>3 DEF SbType, Tidy, XrayType, Skips, ServedInv, Serves
  <1>4. CASE /\ LET empty == [Stopped(x) EXCEPT !.part = req.x] IN
                x' = IF req.x = NoPart THEN empty ELSE Started(empty)
             /\ hpc' = "accepted" /\ UNCHANGED sb
    <2> DEFINE empty == [Stopped(x) EXCEPT !.part = req.x]
    <2>1. Tidy(empty) /\ empty.part = req.x /\ empty.proc = 0 /\ empty.want = x.want
      BY <1>1, StoppedKeeps, PartKeeps
    <2>2. x' = empty \/ x' = Started(empty)
      BY <1>4
    <2>3. /\ Tidy(x)' /\ x'.part = req.x /\ x'.want = x.want
          /\ x'.proc = 0 \/ x'.live = x.want
      <3> HIDE DEF empty
      <3> QED BY <2>1, <2>2, StartedKeeps
    <2>4. Skips(sb, x)'
      BY <1>4, <2>3, XrayStepSkips
    <2> QED BY <1>1, <1>2, <1>4, <2>3, <2>4 DEF SbType, ServedInv, Serves
  <1>5. CASE /\ x' \in RestoredXray(x)
             /\ sb' = [sb EXCEPT !.err = TRUE]
             /\ hpc' = "rejected"
    <2>1. /\ Tidy(x)' /\ x'.want = x.want
          /\ x'.proc = 0 \/ x'.live = x.want
      BY <1>5, StoppedKeeps, StartedKeeps DEF RestoredXray
    <2>2. /\ SbType(sb)' /\ sb'.err
          /\ sb'.hash = sb.hash /\ sb'.users = sb.users /\ sb'.stats = sb.stats
      BY <1>5 DEF SbType
    <2> QED BY <1>1, <1>2, <1>5, <2>1, <2>2 DEF Skips, ServedInv
  <1> QED BY <1>3, <1>4, <1>5

LEMMA AnswerKeeps ==
  ASSUME IInv, Answer
  PROVE  IInv'
  <1> USE DEF IInv, Answer
  <1>1. RestType'
    BY DEF RestType, SbType
  <1> QED BY <1>1
    DEF RestType, SbType, Tidy, XrayType, Skips, ClosedInv, HalfInv, ServedInv, Serves

LEMMA ReceiveUsersKeeps ==
  ASSUME IInv, ReceiveUsers
  PROVE  IInv'
  <1> USE DEF IInv, ReceiveUsers
  <1>1. hpc = "read" /\ ~closed /\ RestType'
    BY ReceiveCounts DEF RestType
  <1> QED BY <1>1
    DEF SbType, Tidy, XrayType, Skips, ClosedInv, HalfInv, ServedInv, Serves

LEMMA UpdateSingboxKeeps ==
  ASSUME IInv, UpdateSingbox
  PROVE  IInv'
  <1> USE DEF IInv, UpdateSingbox
  <1>1. RestType' /\ ~closed /\ list \in Lists
    BY FaultCounts DEF RestType, ClosedInv
  <1>2. Tidy(x)' /\ ClosedInv'
    BY <1>1 DEF Tidy, XrayType, ClosedInv
  <1>3. CASE hpc' = "read" /\ UNCHANGED sb
    BY <1>1, <1>2, <1>3 DEF SbType, Skips, HalfInv, ServedInv, Serves
  <1>4. CASE /\ sb' = [sb EXCEPT !.users = list, !.stats = list, !.hash = {}]
             /\ hpc' = "usersXray"
    <2>1. /\ SbType(sb)' /\ sb'.hash = {} /\ sb'.users = list /\ sb'.stats = list
          /\ sb'.running = sb.running /\ sb'.current = sb.current /\ sb'.err = sb.err
      BY <1>1, <1>4 DEF SbType
    <2> QED BY <1>1, <1>2, <1>4, <2>1 DEF Skips, HalfInv, ServedInv, Serves
  <1>5. CASE /\ \E some \in {sb.users, list} : sb' = [sb EXCEPT !.users = some, !.hash = {}]
             /\ hpc' = "read"
    <2>1. PICK some \in {sb.users, list} : sb' = [sb EXCEPT !.users = some, !.hash = {}]
      BY <1>5
    <2>2. /\ SbType(sb)' /\ sb'.hash = {}
          /\ sb'.running = sb.running /\ sb'.current = sb.current /\ sb'.err = sb.err
      BY <1>1, <2>1 DEF SbType
    <2> QED BY <1>1, <1>2, <1>5, <2>2 DEF Skips, HalfInv, ServedInv, Serves
  <1> QED BY <1>3, <1>4, <1>5

\* What is partly updated is still a set of users.
LEMMA PartlyUpdatedType ==
  ASSUME NEW live \in Lists, list \in Lists, NEW some \in PartlyUpdated(live)
  PROVE  some \in Lists
  BY DEF PartlyUpdated, Lists

LEMMA UpdateXrayKeeps ==
  ASSUME IInv, UpdateXray
  PROVE  IInv'
  <1> USE DEF IInv, UpdateXray
  <1>1. RestType' /\ ~closed /\ list \in Lists /\ ClosedInv' /\ HalfInv'
    BY FaultCounts DEF RestType, ClosedInv, HalfInv
  <1>2. sb.hash = {} /\ sb.users = list /\ sb.stats = list
    BY DEF HalfInv
  <1>3. \A l \in Lists : LET c == [x EXCEPT !.want = list, !.live = l] IN
          Tidy(c) /\ c.part = x.part /\ c.proc = x.proc /\ c.want = list /\ c.live = l
    BY <1>1 DEF Tidy, XrayType
  <1>4. x.live \in Lists
    BY DEF Tidy, XrayType
  <1>5. CASE /\ x' = [x EXCEPT !.want = list, !.live = IF x.proc = 0 THEN @ ELSE list]
             /\ sb' = [sb EXCEPT !.hash = {list}]
    <2>1. /\ SbType(sb)' /\ sb'.hash = {list} /\ sb'.users = list /\ sb'.stats = list
          /\ sb'.running = sb.running /\ sb'.current = sb.current /\ sb'.err = sb.err
      BY <1>1, <1>2, <1>5 DEF SbType
    <2>2. PICK l \in Lists : /\ x' = [x EXCEPT !.want = list, !.live = l]
                             /\ x.proc # 0 => l = list
      BY <1>1, <1>4, <1>5
    <2>3. /\ Tidy(x)' /\ x'.part = x.part /\ x'.want = list
          /\ x'.proc # 0 => x'.live = list
      BY <1>3, <2>2
    <2> QED BY <1>1, <2>1, <2>3 DEF Skips, ServedInv, Serves
  <1>6. CASE UNCHANGED sb /\ \E l \in Lists : x' = [x EXCEPT !.want = list, !.live = l]
    <2>0. PICK l \in Lists : x' = [x EXCEPT !.want = list, !.live = l]
      BY <1>6
    <2>1. Tidy(x)' /\ x'.part = x.part
      BY <1>3, <2>0
    <2>2. SbType(sb)' /\ Skips(sb, x)'
      BY <1>2, <1>6 DEF SbType, Skips
    <2>3. ServedInv'
      BY <1>1, <1>6, <2>1 DEF ServedInv, Serves
    <2> QED BY <1>1, <2>1, <2>2, <2>3
  <1>7. CASE UNCHANGED sb /\ x' = [x EXCEPT !.want = list]
    <2>1. [x EXCEPT !.want = list] = [x EXCEPT !.want = list, !.live = x.live]
      BY DEF Tidy, XrayType
    <2> QED BY <1>4, <1>6, <1>7, <2>1
  <1>8. CASE /\ \E some \in PartlyUpdated(x.live) \ {list} :
                  x' = [x EXCEPT !.want = list, !.live = some]
             /\ UNCHANGED sb
    BY <1>1, <1>4, <1>6, <1>8, PartlyUpdatedType
  <1> QED BY <1>5, <1>7, <1>8

LEMMA HandleWelcomeKeeps ==
  ASSUME IInv, HandleWelcome
  PROVE  IInv'
  <1> USE DEF IInv, HandleWelcome
  <1>1. hpc = "read" /\ ~closed /\ RestType'
    BY ReceiveCounts, FaultCounts DEF RestType
  <1>2. /\ Tidy(x)' /\ x'.part = x.part /\ x'.want = x.want
        /\ x'.proc = 0 \/ x'.live = x.want
    BY StoppedKeeps, StartedKeeps
  <1>3. Skips(sb, x)'
    BY <1>2, XrayStepSkips
  <1> QED BY <1>1, <1>2, <1>3 DEF SbType, ClosedInv, HalfInv, ServedInv, Serves

LEMMA CloseKeeps ==
  ASSUME IInv, Close
  PROVE  IInv'
  <1> USE DEF IInv, Close
  <1>1. Tidy(x)' /\ x'.proc = 0 /\ x'.want = x.want
    BY StoppedKeeps
  <1>2. /\ SbType(sb)' /\ sb'.err = sb.err
        /\ sb'.hash = sb.hash /\ sb'.users = sb.users /\ sb'.stats = sb.stats
    BY DEF SbType
  <1> QED BY <1>1, <1>2 DEF RestType, Skips, ClosedInv, HalfInv, ServedInv

-----------------------------------------------------------------------------
(* The theorems *)

LEMMA InitHolds == Init => IInv
  <1> SUFFICES ASSUME Init PROVE IInv
    OBVIOUS
  <1> USE DEF Init
  <1>1. SbType(sb)
    BY DEF SbType, Lists
  <1>2. Tidy(x)
    <2>1. /\ x.proc = 0 /\ x.gen = 0 /\ x.started = 0 /\ x.alive = {}
          /\ x.watched = {} /\ x.stopping = {}
      OBVIOUS
    <2>2. XrayType(x)
      BY DEF XrayType, Lists
    <2> QED BY <2>1, <2>2 DEF Tidy
  <1>3. RestType
    <2>1. NoConfig \in Rev /\ {} \in Lists
      BY DEF Rev, Lists
    <2>2. frames \in 0..MaxFrames /\ faults \in 0..MaxFaults
      BY PartsAssumption
    <2> QED BY <2>1, <2>2 DEF RestType
  <1>4. Skips(sb, x) /\ ClosedInv /\ HalfInv
    BY DEF Skips, ClosedInv, HalfInv
  <1>5. ServedInv
    BY DEF ServedInv, NoConfig
  <1> QED BY <1>1, <1>2, <1>3, <1>4, <1>5 DEF IInv

LEMMA NextKeeps == IInv /\ [Next]_vars => IInv'
  <1> SUFFICES ASSUME IInv, [Next]_vars PROVE IInv'
    OBVIOUS
  <1>1. CASE Next
    BY <1>1, ReceiveConfigKeeps, ApplySingboxKeeps, ApplyXrayKeeps, AnswerKeeps,
       ReceiveUsersKeeps, UpdateSingboxKeeps, UpdateXrayKeeps, HandleWelcomeKeeps, CloseKeeps,
       XrayExitsKeeps, SuperviseKeeps, RetryKeeps DEF Next
  <1>2. CASE UNCHANGED vars
    BY <1>2 DEF vars, IInv, RestType, SbType, Tidy, XrayType, Skips, ClosedInv, HalfInv,
                ServedInv, Serves
  <1> QED BY <1>1, <1>2

\* The invariant holds of every engine, whatever it is sent and whatever fails.
THEOREM Inductive == Spec => []IInv
  BY InitHolds, NextKeeps, PTL DEF Spec

\* Every variable keeps its type.
THEOREM TypeCorrect == Spec => []TypeOK
  <1>1. IInv => TypeOK
    BY DEF IInv, TypeOK, SbType, Tidy, XrayType, RestType
  <1> QED BY <1>1, Inductive, PTL

\* UpdateUsers may skip a list it knows to be in place: it is on both cores, whichever of
\* them ApplyConfig, a restart or a crash has replaced since.
THEOREM SkippingSafe == Spec => []SkippingIsSafe
  <1>1. IInv => SkippingIsSafe
    BY DEF IInv, Skips, SkippingIsSafe
  <1> QED BY <1>1, Inductive, PTL

\* supervise never leaves a second Xray running beside the one the engine knows, nor one
\* after Close.
THEOREM NoStray == Spec => []NoStrayXray
  <1>1. IInv => NoStrayXray
    BY DEF IInv, Tidy, XrayType, ClosedInv, NoStrayXray
  <1> QED BY <1>1, Inductive, PTL

\* stopLocked and supervise between them retire the books of every Xray once.
THEOREM BooksClosedOnce == Spec => []RetiredOnce
  <1>1. IInv => RetiredOnce
    BY DEF IInv, Tidy, RetiredOnce
  <1> QED BY <1>1, Inductive, PTL

\* A node that reports a revision without an error serves it with both cores.
THEOREM ReportedIsServed == Spec => []UpToDateIsServed
  <1>1. IInv => UpToDateIsServed
    BY DEF IInv, ServedInv, Serves, UpToDateIsServed
  <1> QED BY <1>1, Inductive, PTL

=============================================================================
