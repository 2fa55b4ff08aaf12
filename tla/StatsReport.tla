---------------------------- MODULE StatsReport -----------------------------
(***************************************************************************)
(* How a byte a node carries reaches the user's account on the panel.      *)
(*                                                                         *)
(* On the node, two cores count traffic; the report goroutine of the       *)
(* control channel reads them every statsEvery (30 s) and sends a report;  *)
(* the read loop handles the panel's frames, applies configurations (which *)
(* replace a core and its counter) and settles a report when its ok        *)
(* arrives.  On the panel, one goroutine per connection commits reports to *)
(* the database.  Connections drop, both processes restart, and a frame    *)
(* the panel had already read from a dead connection is still dispatched.  *)
(*                                                                         *)
(* One user and one direction stand for all: every operation treats them   *)
(* separately.  Node: node/internal/link/link.go, engine/stats.go.         *)
(* Panel: panel/internal/hub/hub.go, service/traffic.go, store/traffic.go. *)
(***************************************************************************)
EXTENDS Counters, Sequences

CONSTANTS
  MaxUsed,        \* bytes the two cores carry
  MaxRetires,     \* core instances replaced or lost per node process
  MaxEpochs,      \* node processes
  MaxSeq,         \* reports numbered by one process
  MaxQueue,       \* frames waiting in either half of a connection
  MaxFaults,      \* dropped connections, panel restarts, failed reads and commits
  Circumstances   \* what may happen beyond the expected timing, see below

(***************************************************************************)
(* The node's report goroutine works to a 30 s timer.  Under the expected  *)
(* timing a stats tick never overtakes something that takes a moment; each *)
(* circumstance lifts one such expectation:                                *)
(*   tick_before_welcome  the panel's welcome takes longer than one tick   *)
(*   tick_inside_ok       a tick falls inside the handler of an ok         *)
(*   late_frame           a frame in the panel's hand outlasts a tick      *)
(* or admits an event:                                                     *)
(*   unread_in_flight     a core dies unread while a report is in flight   *)
(*   legacy               the panel may be one without stats_ack           *)
(*   rollback             a panel with stats_ack may be replaced by one    *)
(*                        without                                          *)
(***************************************************************************)
AllCircumstances ==
  {"tick_before_welcome", "tick_inside_ok", "late_frame",
   "unread_in_flight", "legacy", "rollback"}

ASSUME BoundsAssumption ==
  /\ MaxUsed \in Nat /\ MaxRetires \in Nat /\ MaxEpochs \in Nat
  /\ MaxSeq \in Nat /\ MaxQueue \in Nat /\ MaxFaults \in Nat
  /\ Circumstances \subseteq AllCircumstances

Cores == {"singbox", "xray"}

VARIABLES
  \* the node's cores
  running,   \* is an instance of the core up
  live,      \* the running instance's cumulative counter
  cnt,       \* the engine's books on the core (Counters)
  \* link.Client
  epoch, seq, outbox, agreed,
  \* the report goroutine: where it is, and the locals of reportStats and Stats
  rpc, ack, sbGen, xGen, xNow, sum,
  \* the read loop: between frames, or inside StatsReported
  hpc,
  \* the connection and its two halves
  conn, up, down,
  \* the panel's goroutine for it: the frame read, and conn.statsAck
  hand, statsAck,
  \* frames read from connections that have since died
  orphans,
  \* the panel's version and its database
  panel, lastEpoch, lastSeq, billed,
  \* history: bytes carried, bytes no reading will ever show, bytes sent once
  \* more the old way, faults so far
  used, lost, resent, faults

coreVars   == <<running, live, cnt>>
linkVars   == <<epoch, seq, outbox, agreed>>
reportVars == <<rpc, ack, sbGen, xGen, xNow, sum>>
netVars    == <<conn, up, down>>
serveVars  == <<hand, statsAck, orphans>>
dbVars     == <<panel, lastEpoch, lastSeq, billed>>
pastVars   == <<used, lost, resent, faults>>
vars == <<coreVars, linkVars, reportVars, hpc, netVars, serveVars, dbVars, pastVars>>

-----------------------------------------------------------------------------

NoReport == [seq |-> 0, amt |-> 0]
NoGen    == -1       \* sing-box was not running, or Xray's query failed
Down     == [k \in Cores |-> FALSE]

\* A frame.  An unnumbered report has epoch 0 and id 0.
Frame(type, e, i, a) == [type |-> type, epoch |-> e, id |-> i, amt |-> a]
NoFrame == Frame("none", 0, 0, 0)
Hello   == Frame("hello", 0, 0, 0)
Welcome == Frame("welcome", 0, 0, 0)
Ok(i)   == Frame("ok", 0, i, 0)

Numbered(f, offered) == f.id # 0 /\ f.epoch # 0 /\ offered

Fault == faults < MaxFaults /\ faults' = faults + 1

InFlight(k) == FromInstance(cnt[k]) # 0

-----------------------------------------------------------------------------
(* The cores *)

Meter(k) ==
  /\ running[k]
  /\ used["singbox"] + used["xray"] < MaxUsed
  /\ live' = [live EXCEPT ![k] = @ + 1]
  /\ used' = [used EXCEPT ![k] = @ + 1]
  /\ UNCHANGED <<running, cnt, linkVars, reportVars, hpc, netVars, serveVars, dbVars,
                 lost, resent, faults>>

\* The instance goes, read one last time or not; what it counted after that
\* reading goes with it.
Retire(k, final) ==
  /\ running[k]
  /\ cnt["singbox"].gen + cnt["xray"].gen < MaxRetires
  /\ final = NoReading => "unread_in_flight" \in Circumstances \/ ~InFlight(k)
  /\ cnt'  = [cnt EXCEPT ![k] = retire(@, final)]
  /\ live' = [live EXCEPT ![k] = 0]
  /\ lost' = lost + live[k] - (IF final = NoReading THEN Seen(cnt[k]) ELSE final)

LastReadings(k) == {NoReading} \cup (Seen(cnt[k]) .. live[k])

\* A config frame replaces sing-box; a start that fails, and whose predecessor
\* cannot be restored either, leaves it stopped.
ApplySingbox ==
  /\ conn /\ hpc = "read"
  /\ \/ \E final \in LastReadings("singbox") : Retire("singbox", final)
     \/ ~running["singbox"] /\ UNCHANGED <<live, cnt, lost>>
  /\ \E started \in BOOLEAN : running' = [running EXCEPT !["singbox"] = started]
  /\ UNCHANGED <<linkVars, reportVars, hpc, netVars, serveVars, dbVars, used, resent, faults>>

\* Xray is stopped, and comes up again or not.
RestartXray ==
  /\ \E final \in LastReadings("xray") : Retire("xray", final)
  /\ \E started \in BOOLEAN : running' = [running EXCEPT !["xray"] = started]

\* A config frame replaces Xray.
ApplyXray ==
  /\ conn /\ hpc = "read"
  /\ RestartXray
  /\ UNCHANGED <<linkVars, reportVars, hpc, netVars, serveVars, dbVars, used, resent, faults>>

\* The Xray process exits unasked, and its counters with it.
XrayExit ==
  /\ Retire("xray", NoReading)
  /\ running' = [running EXCEPT !["xray"] = FALSE]
  /\ UNCHANGED <<linkVars, reportVars, hpc, netVars, serveVars, dbVars, used, resent, faults>>

\* Started by a config frame, or again by supervise.
StartXray ==
  /\ ~running["xray"]
  /\ running' = [running EXCEPT !["xray"] = TRUE]
  /\ UNCHANGED <<live, cnt, linkVars, reportVars, hpc, netVars, serveVars, dbVars, pastVars>>

-----------------------------------------------------------------------------
(* The node's report goroutine: reportStats and, inside it, Engine.Stats *)

\* reportStats returns, and its locals with it.
Return ==
  /\ rpc' = "idle" /\ ack' = FALSE
  /\ sbGen' = NoGen /\ xGen' = NoGen /\ xNow' = NoReading /\ sum' = 0

\* What the 30 s timer is expected not to overtake.
TickInTime ==
  /\ "tick_before_welcome" \in Circumstances \/ agreed \/ panel = "legacy"
  /\ "tick_inside_ok" \in Circumstances \/ hpc = "read"
  /\ "late_frame" \in Circumstances \/ orphans = {}

Tick == conn /\ rpc = "idle" /\ TickInTime

\* No report waits: take a new reading, sing-box's generation first.
TickReads ==
  /\ Tick
  /\ outbox = NoReport
  /\ seq < MaxSeq
  /\ Len(up) < MaxQueue
  /\ rpc' = "totals"
  /\ ack' = agreed
  /\ sbGen' = IF running["singbox"] THEN cnt["singbox"].gen ELSE NoGen
  /\ UNCHANGED <<coreVars, linkVars, xGen, xNow, sum, hpc, netVars, serveVars, dbVars, pastVars>>

\* A report waits and the panel numbers reports: the same one again.
TickResends ==
  /\ Tick
  /\ outbox # NoReport
  /\ agreed
  /\ Len(up) < MaxQueue
  /\ up' = Append(up, Frame("stats", epoch, outbox.seq, outbox.amt))
  /\ UNCHANGED <<coreVars, linkVars, reportVars, hpc, conn, down, serveVars, dbVars, pastVars>>

\* A report waits and this session's panel does not (yet) number reports: it
\* goes out once more the old way and is done.
TickSendsOldWay ==
  /\ Tick
  /\ outbox # NoReport
  /\ ~agreed
  /\ Len(up) < MaxQueue
  /\ up' = Append(up, Frame("stats", 0, 0, outbox.amt))
  /\ outbox' = NoReport
  /\ rpc' = "settle" /\ sum' = outbox.amt
  /\ resent' = resent + outbox.amt
  /\ UNCHANGED <<coreVars, epoch, seq, agreed, ack, sbGen, xGen, xNow, hpc, conn, down,
                 serveVars, dbVars, used, lost, faults>>

\* Xray's reading and the generation it belongs to.  With neither core up there
\* is nothing to report.
XrayTotals ==
  /\ rpc = "totals"
  /\ \/ /\ running["xray"]
        /\ rpc' = "singbox" /\ xGen' = cnt["xray"].gen /\ xNow' = live["xray"]
        /\ UNCHANGED <<ack, sbGen, sum, faults>>
     \/ /\ running["xray"]
        /\ Fault
        /\ rpc' = "singbox" /\ xGen' = NoGen /\ xNow' = NoReading
        /\ UNCHANGED <<ack, sbGen, sum>>
     \/ /\ ~running["xray"] /\ sbGen # NoGen
        /\ rpc' = "singbox" /\ xGen' = cnt["xray"].gen /\ xNow' = NoReading
        /\ UNCHANGED <<ack, sbGen, sum, faults>>
     \/ /\ ~running["xray"] /\ sbGen = NoGen
        /\ Return
        /\ UNCHANGED faults
  /\ UNCHANGED <<coreVars, linkVars, hpc, netVars, serveVars, dbVars, used, lost, resent>>

\* sing-box's share.  Its reading may fail once the instance has been replaced.
SingboxDelta ==
  LET s == cnt["singbox"] IN
  /\ rpc = "singbox"
  /\ \/ /\ sbGen = NoGen
        /\ rpc' = "xray"
        /\ UNCHANGED <<cnt, ack, sbGen, xGen, xNow, sum>>
     \/ /\ sbGen # NoGen
        /\ sum' = Measured(s, sbGen, live["singbox"])
        /\ cnt' = [cnt EXCEPT !["singbox"] = delta(s, sbGen, live["singbox"])]
        /\ rpc' = "xray"
        /\ UNCHANGED <<ack, sbGen, xGen, xNow>>
     \/ /\ sbGen # NoGen /\ sbGen # s.gen
        /\ Return
        /\ UNCHANGED cnt
  /\ UNCHANGED <<running, live, linkVars, hpc, netVars, serveVars, dbVars, pastVars>>

\* Xray's share, and the report is complete: numbered, put in the outbox and
\* sent; or about to be sent the old way.
XrayDelta ==
  LET x      == cnt["xray"]
      amount == sum + (IF xGen = NoGen THEN 0 ELSE Measured(x, xGen, xNow))
  IN
  /\ rpc = "xray"
  /\ cnt' = [cnt EXCEPT !["xray"] = IF xGen = NoGen THEN skip(x) ELSE delta(x, xGen, xNow)]
  /\ \/ /\ ack
        /\ seq' = seq + 1
        /\ outbox' = [seq |-> seq + 1, amt |-> amount]
        /\ up' = IF conn THEN Append(up, Frame("stats", epoch, seq + 1, amount)) ELSE up
        /\ Return
     \/ /\ ~ack
        /\ rpc' = "write" /\ sum' = amount
        /\ UNCHANGED <<seq, outbox, up, ack, sbGen, xGen, xNow>>
  /\ UNCHANGED <<running, live, epoch, agreed, hpc, conn, down, serveVars, dbVars, pastVars>>

\* The old way: the report is done once it is written.  A write that fails
\* leaves the baseline where it was.
WriteUnnumbered ==
  /\ rpc = "write"
  /\ \/ /\ conn
        /\ up' = Append(up, Frame("stats", 0, 0, sum))
        /\ rpc' = "settle"
        /\ UNCHANGED <<ack, sbGen, xGen, xNow, sum>>
     \/ /\ ~conn
        /\ Return
        /\ UNCHANGED up
  /\ UNCHANGED <<coreVars, linkVars, hpc, conn, down, serveVars, dbVars, pastVars>>

\* Engine.StatsReported, called from either goroutine: sing-box's books, then
\* Xray's.
Settle(k) == cnt' = [cnt EXCEPT ![k] = commit(@)]

ReportSettles ==
  /\ \/ /\ rpc = "settle"
        /\ Settle("singbox")
        /\ rpc' = "settleXray"
        /\ UNCHANGED <<ack, sbGen, xGen, xNow, sum>>
     \/ /\ rpc = "settleXray"
        /\ Settle("xray")
        /\ Return
  /\ UNCHANGED <<running, live, linkVars, hpc, netVars, serveVars, dbVars, pastVars>>

-----------------------------------------------------------------------------
(* The node's read loop *)

\* A welcome may also tell the node a new public address of its own: Xray is
\* restarted on it.
HandleWelcome ==
  /\ conn /\ hpc = "read"
  /\ down # << >> /\ Head(down) = Welcome
  /\ down' = Tail(down)
  /\ agreed' = TRUE
  /\ RestartXray \/ UNCHANGED <<coreVars, lost>>
  /\ UNCHANGED <<epoch, seq, outbox, reportVars, hpc, conn, up, serveVars, dbVars,
                 used, resent, faults>>

\* The outbox is emptied under stateMu; StatsReported follows outside it.
HandleOk ==
  /\ conn /\ hpc = "read"
  /\ down # << >> /\ Head(down).type = "ok"
  /\ down' = Tail(down)
  /\ IF outbox # NoReport /\ outbox.seq = Head(down).id
       THEN outbox' = NoReport /\ hpc' = "settle"
       ELSE UNCHANGED <<outbox, hpc>>
  /\ UNCHANGED <<coreVars, epoch, seq, agreed, reportVars, conn, up, serveVars, dbVars, pastVars>>

HandlerSettles ==
  /\ \/ hpc = "settle"     /\ Settle("singbox") /\ hpc' = "settleXray"
     \/ hpc = "settleXray" /\ Settle("xray")    /\ hpc' = "read"
  /\ UNCHANGED <<running, live, linkVars, reportVars, netVars, serveVars, dbVars, pastVars>>

-----------------------------------------------------------------------------
(* The panel *)

PanelReads ==
  /\ conn /\ hand = NoFrame /\ up # << >>
  /\ hand' = Head(up)
  /\ up' = Tail(up)
  /\ UNCHANGED <<coreVars, linkVars, reportVars, hpc, conn, down, statsAck, orphans, dbVars, pastVars>>

\* A panel with stats_ack answers a hello with a welcome.
DispatchHello ==
  /\ hand.type = "hello"
  /\ Len(down) < MaxQueue
  /\ hand' = NoFrame
  /\ IF panel = "current"
       THEN statsAck' = TRUE /\ down' = Append(down, Welcome)
       ELSE UNCHANGED <<statsAck, down>>
  /\ UNCHANGED <<coreVars, linkVars, reportVars, hpc, conn, up, orphans, dbVars, pastVars>>

\* Mutants of AddTraffic: a repeat is not recognised; the last one is billed again.
AddTrafficTwice(f, offered) ==
  /\ billed' = billed + f.amt
  /\ IF Numbered(f, offered) THEN lastEpoch' = f.epoch /\ lastSeq' = f.id
                             ELSE UNCHANGED <<lastEpoch, lastSeq>>
  /\ UNCHANGED panel
AddTrafficOffByOne(f, offered) ==
  /\ IF Numbered(f, offered) /\ f.epoch = lastEpoch /\ f.id < lastSeq
       THEN UNCHANGED billed
       ELSE billed' = billed + f.amt
  /\ IF Numbered(f, offered) THEN lastEpoch' = f.epoch /\ lastSeq' = f.id
                             ELSE UNCHANGED <<lastEpoch, lastSeq>>
  /\ UNCHANGED panel

\* One transaction: a numbered report is billed unless it is at or below the
\* number recorded for its epoch; an unnumbered one always is.
AddTraffic(f, offered) ==
  /\ IF Numbered(f, offered)
       THEN IF f.epoch = lastEpoch /\ f.id <= lastSeq
              THEN UNCHANGED <<billed, lastEpoch, lastSeq>>
              ELSE /\ billed' = billed + f.amt
                   /\ lastEpoch' = f.epoch
                   /\ lastSeq' = f.id
       ELSE billed' = billed + f.amt /\ UNCHANGED <<lastEpoch, lastSeq>>
  /\ UNCHANGED panel

\* Mutant of DispatchStats: a report recorded already is not acknowledged again.
DispatchStatsSilently ==
  /\ hand.type = "stats"
  /\ Len(down) < MaxQueue
  /\ AddTraffic(hand, statsAck)
  /\ down' = IF Numbered(hand, statsAck) /\ billed' # billed THEN Append(down, Ok(hand.id)) ELSE down
  /\ hand' = NoFrame
  /\ UNCHANGED <<coreVars, linkVars, reportVars, hpc, conn, up, statsAck, orphans, pastVars>>

DispatchStats ==
  /\ hand.type = "stats"
  /\ Len(down) < MaxQueue
  /\ AddTraffic(hand, statsAck)
  /\ down' = IF Numbered(hand, statsAck) THEN Append(down, Ok(hand.id)) ELSE down
  /\ hand' = NoFrame
  /\ UNCHANGED <<coreVars, linkVars, reportVars, hpc, conn, up, statsAck, orphans, pastVars>>

\* The transaction fails: nothing is written and nothing is answered.
DispatchFails ==
  /\ hand.type = "stats"
  /\ Fault
  /\ hand' = NoFrame
  /\ UNCHANGED <<coreVars, linkVars, reportVars, hpc, netVars, statsAck, orphans, dbVars, used, lost, resent>>

\* A frame read from a connection that has died is dispatched all the same.
DispatchOrphan ==
  /\ \E o \in orphans :
       /\ AddTraffic(o.frame, o.statsAck)
       /\ orphans' = orphans \ {o}
  /\ UNCHANGED <<coreVars, linkVars, reportVars, hpc, netVars, hand, statsAck, pastVars>>

-----------------------------------------------------------------------------
(* Connections and processes *)

\* What is queued is lost; a report in the panel's hand is not.
Disconnect ==
  /\ conn' = FALSE
  /\ up' = << >> /\ down' = << >>
  /\ hand' = NoFrame /\ statsAck' = FALSE
  /\ orphans' = IF hand.type = "stats"
                  THEN orphans \cup {[frame |-> hand, statsAck |-> statsAck]}
                  ELSE orphans

Drop ==
  /\ conn
  /\ Fault
  /\ Disconnect
  /\ UNCHANGED <<coreVars, linkVars, reportVars, hpc, dbVars, used, lost, resent>>

\* A session starts once the last one's goroutines are done: nothing agreed,
\* a hello first.
Connect ==
  /\ ~conn /\ rpc = "idle" /\ hpc = "read"
  /\ conn' = TRUE
  /\ agreed' = FALSE
  /\ up' = <<Hello>>
  /\ UNCHANGED <<coreVars, epoch, seq, outbox, reportVars, hpc, down, serveVars, dbVars, pastVars>>

PanelRestart ==
  /\ Fault
  /\ conn' = FALSE
  /\ up' = << >> /\ down' = << >>
  /\ hand' = NoFrame /\ statsAck' = FALSE /\ orphans' = {}
  /\ panel' \in {panel, "current"} \cup (IF "rollback" \in Circumstances THEN {"legacy"} ELSE {})
  /\ UNCHANGED <<coreVars, linkVars, reportVars, hpc, lastEpoch, lastSeq, billed, used, lost, resent>>

\* Of what a report settles, the part the panel has billed already.
Acknowledgeable ==
  IF outbox # NoReport
    THEN IF lastEpoch = epoch /\ outbox.seq <= lastSeq
           THEN Sent(cnt["singbox"]) + Sent(cnt["xray"]) ELSE 0
  ELSE IF hpc = "settle" \/ rpc = "settle" THEN Sent(cnt["singbox"]) + Sent(cnt["xray"])
  ELSE IF hpc = "settleXray" \/ rpc = "settleXray" THEN Sent(cnt["xray"])
  ELSE 0

\* The traffic only this node process knows of.
Held ==
  Owed(cnt["singbox"], live["singbox"]) + Owed(cnt["xray"], live["xray"]) - Acknowledgeable

NodeCrash ==
  /\ epoch < MaxEpochs
  /\ epoch' = epoch + 1
  /\ seq' = 0 /\ outbox' = NoReport /\ agreed' = FALSE
  /\ running' = Down
  /\ live' = [k \in Cores |-> 0]
  /\ cnt' = [k \in Cores |-> newCounters]
  /\ Return
  /\ hpc' = "read"
  /\ lost' = lost + Held
  /\ Disconnect
  /\ UNCHANGED <<dbVars, used, resent, faults>>

-----------------------------------------------------------------------------

Init ==
  /\ running = Down
  /\ live = [k \in Cores |-> 0]
  /\ cnt = [k \in Cores |-> newCounters]
  /\ epoch = 1 /\ seq = 0 /\ outbox = NoReport /\ agreed = FALSE
  /\ rpc = "idle" /\ ack = FALSE /\ sbGen = NoGen /\ xGen = NoGen /\ xNow = NoReading /\ sum = 0
  /\ hpc = "read"
  /\ conn = FALSE /\ up = << >> /\ down = << >>
  /\ hand = NoFrame /\ statsAck = FALSE /\ orphans = {}
  /\ panel \in {"current"} \cup (IF "legacy" \in Circumstances THEN {"legacy"} ELSE {})
  /\ lastEpoch = 0 /\ lastSeq = 0 /\ billed = 0
  /\ used = [k \in Cores |-> 0] /\ lost = 0 /\ resent = 0 /\ faults = 0

CoreStep == (\E k \in Cores : Meter(k)) \/ ApplySingbox \/ ApplyXray \/ XrayExit \/ StartXray

ReportStep ==
  \/ TickReads \/ TickResends \/ TickSendsOldWay
  \/ XrayTotals \/ SingboxDelta \/ XrayDelta \/ WriteUnnumbered \/ ReportSettles

HandlerStep == HandleWelcome \/ HandleOk \/ HandlerSettles

PanelStep == PanelReads \/ DispatchHello \/ DispatchStats \/ DispatchFails \/ DispatchOrphan

Next == CoreStep \/ ReportStep \/ HandlerStep \/ PanelStep
        \/ Drop \/ Connect \/ PanelRestart \/ NodeCrash

Spec == Init /\ [][Next]_vars

\* The timer keeps ticking, goroutines run, the node keeps redialling and the
\* panel keeps reading.  Nothing makes traffic, faults, configurations or
\* crashes happen.
Fairness ==
  /\ WF_vars(ReportStep) /\ WF_vars(HandlerStep)
  /\ WF_vars(PanelReads) /\ WF_vars(DispatchHello) /\ WF_vars(DispatchStats) /\ WF_vars(DispatchOrphan)
  /\ WF_vars(Connect)

FairSpec == Spec /\ Fairness

-----------------------------------------------------------------------------
(* Properties *)

ReportFrames == [type: {"hello", "stats", "none"}, epoch: Nat, id: Nat, amt: Nat]

TypeOK ==
  /\ running \in [Cores -> BOOLEAN]
  /\ live \in [Cores -> Nat]
  /\ cnt \in [Cores -> CounterSet]
  /\ epoch \in Nat /\ seq \in Nat /\ outbox \in [seq: Nat, amt: Nat] /\ agreed \in BOOLEAN
  /\ rpc \in {"idle", "totals", "singbox", "xray", "write", "settle", "settleXray"}
  /\ ack \in BOOLEAN /\ sum \in Nat
  /\ sbGen \in Nat \cup {NoGen} /\ xGen \in Nat \cup {NoGen} /\ xNow \in Reading
  /\ hpc \in {"read", "settle", "settleXray"}
  /\ conn \in BOOLEAN
  /\ up \in Seq(ReportFrames)
  /\ down \in Seq([type: {"welcome", "ok"}, epoch: {0}, id: Nat, amt: {0}])
  /\ hand \in ReportFrames /\ statsAck \in BOOLEAN
  /\ orphans \in SUBSET [frame: ReportFrames, statsAck: BOOLEAN]
  /\ panel \in {"current", "legacy"}
  /\ lastEpoch \in Nat /\ lastSeq \in Nat /\ billed \in Nat
  /\ used \in [Cores -> Nat] /\ lost \in Int /\ resent \in Nat /\ faults \in Nat

Used == used["singbox"] + used["xray"]

\* No byte is billed twice, whatever is lost, repeated or restarted (what the
\* outbox, its numbers and the panel's record of them are for); a report resent
\* to a panel that cannot recognise it is the one the node's comment allows for.
AtMostOnce == billed <= Used + resent

\* Every byte carried is billed, or still owed by the node, or was never read
\* before its core or its process ended: a dropped connection, a lost ok or a
\* panel restart loses none.
NothingLost == Used <= billed + Held + lost

\* What an acknowledgement settles is what the report it acknowledges carried,
\* through any replacement of a core while the report is in flight.
SettlesWhatWasSent ==
  LET settled == Sent(cnt["singbox"]) + Sent(cnt["xray"]) IN
  /\ outbox # NoReport => settled = outbox.amt
  /\ rpc \in {"write", "settle"} => settled = sum

\* A report is not resent for ever: some report of every outbox is acknowledged
\* (or, on a panel that numbers none, sent the old way), whatever was dropped.
ReportSettled == (outbox # NoReport) ~> (outbox = NoReport)

\* The whole path implements the ledger: metering adds, billing never passes it.
Abstract == INSTANCE Ledger WITH metered <- Used
ImplementsLedger == Abstract!Spec

=============================================================================
