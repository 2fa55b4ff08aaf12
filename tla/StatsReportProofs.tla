------------------------- MODULE StatsReportProofs --------------------------
(***************************************************************************)
(* StatsReport for every value of its bounds.  First what each method of   *)
(* the engine's books does to the three quantities the accounting is       *)
(* about: what the report in flight would settle (Sent), what the panel    *)
(* has not acknowledged (Owed), and whether the books agree with the       *)
(* counter (Balanced); and that the variables keep their types under every *)
(* circumstance.                                                           *)
(*                                                                         *)
(* Then, under the expected timing (Circumstances = {}): no byte is billed *)
(* twice, none is lost, what an acknowledgement settles is what was sent,  *)
(* and the whole implements Ledger.  The inductive invariant IInv follows  *)
(* a byte through its life: the books of the cores agree with their        *)
(* counters (BooksInv); the report goroutine measures against books nobody *)
(* settles meanwhile (ReportInv); the report waiting holds exactly what    *)
(* its acknowledgement settles (SettleInv); its frames carry numbers the   *)
(* panel tells apart (NumberInv), also those that outlived their           *)
(* connection and their process (OrphanInv); so that what is billed, what  *)
(* the node owes and what is gone add up (AccountInv).                     *)
(***************************************************************************)
EXTENDS StatsReport, TLAPS

-----------------------------------------------------------------------------
(* The books of one core *)

\* New books owe nothing and settle nothing.
LEMMA NewBooks ==
  /\ newCounters \in CounterSet
  /\ Balanced(newCounters, 0)
  /\ Sent(newCounters) = 0
  /\ Owed(newCounters, 0) = 0
BY DEF newCounters, Books, CounterSet, Reading, NoReading, Balanced, Sent, FromInstance, Owed, sub

\* A report never holds more than is owed.
LEMMA SentIsOwed ==
  ASSUME NEW c \in CounterSet, NEW total \in Nat, Balanced(c, total)
  PROVE  /\ Sent(c) \in Nat
         /\ Owed(c, total) \in Nat
         /\ Sent(c) <= Owed(c, total)
BY DEF CounterSet, Reading, NoReading, Balanced, Sent, FromInstance, Owed, sub

\* A byte counted by the core is one more byte owed.
LEMMA CountingOwes ==
  ASSUME NEW c \in CounterSet, NEW total \in Nat, Balanced(c, total)
  PROVE  /\ Balanced(c, total + 1)
         /\ Owed(c, total + 1) = Owed(c, total) + 1
BY DEF CounterSet, Reading, NoReading, Balanced, Owed, sub

\* retire: replacing an instance leaves what the report in flight settles as it
\* was, and gives up only what was counted after the last reading.
LEMMA RetireKeeps ==
  ASSUME NEW c \in CounterSet, NEW total \in Nat, Balanced(c, total),
         NEW final \in Reading,
         final # NoReading => Seen(c) <= final /\ final <= total,
         final = NoReading => FromInstance(c) = 0
  PROVE  /\ retire(c, final) \in CounterSet
         /\ Balanced(retire(c, final), 0)
         /\ Sent(retire(c, final)) = Sent(c)
         /\ Owed(retire(c, final), 0) =
              Owed(c, total) - (total - (IF final = NoReading THEN Seen(c) ELSE final))
         /\ retire(c, final).gen = c.gen + 1
BY DEF CounterSet, Reading, NoReading, Balanced, Sent, FromInstance, Owed, sub, retire, Seen, Books

\* skip: a core that could not be read is left out of the report altogether.
LEMMA SkipSettlesNothing ==
  ASSUME NEW c \in CounterSet, NEW total \in Nat, Balanced(c, total)
  PROVE  /\ skip(c) \in CounterSet
         /\ Balanced(skip(c), total)
         /\ Sent(skip(c)) = 0
         /\ Owed(skip(c), total) = Owed(c, total)
         /\ skip(c).gen = c.gen
         /\ skip(c).reported = c.reported
BY DEF CounterSet, Reading, NoReading, Balanced, Sent, FromInstance, Owed, sub, skip, Books

\* delta: taking a reading settles nothing yet; acknowledging the report it
\* makes would settle exactly what it adds to that report.
LEMMA DeltaMeasures ==
  ASSUME NEW c \in CounterSet, NEW total \in Nat, Balanced(c, total),
         NEW gen \in Int, NEW now \in Reading,
         gen = c.gen /\ now # NoReading => c.reported <= now /\ now <= total
  PROVE  /\ delta(c, gen, now) \in CounterSet
         /\ Balanced(delta(c, gen, now), total)
         /\ Measured(c, gen, now) \in Nat
         /\ Sent(delta(c, gen, now)) = Measured(c, gen, now)
         /\ Owed(delta(c, gen, now), total) = Owed(c, total)
         /\ delta(c, gen, now).gen = c.gen
         /\ delta(c, gen, now).reported = c.reported
BY SkipSettlesNothing
   DEF CounterSet, Reading, NoReading, Balanced, Sent, FromInstance, Owed, sub, delta, Books, Measured

\* commit: the acknowledgement settles what the report held, and no more.
LEMMA CommitSettles ==
  ASSUME NEW c \in CounterSet, NEW total \in Nat, Balanced(c, total)
  PROVE  /\ commit(c) \in CounterSet
         /\ Balanced(commit(c), total)
         /\ Sent(commit(c)) = 0
         /\ Owed(commit(c), total) = Owed(c, total) - Sent(c)
         /\ commit(c).gen = c.gen
BY DEF CounterSet, Reading, NoReading, Balanced, Sent, FromInstance, Owed, sub, commit, Seen, Books

-----------------------------------------------------------------------------
(* Types *)

LEMMA CounterTypes ==
  ASSUME NEW c \in CounterSet, NEW gen \in Int, NEW now \in Reading
  PROVE  /\ newCounters \in CounterSet
         /\ retire(c, now) \in CounterSet
         /\ skip(c) \in CounterSet
         /\ delta(c, gen, now) \in CounterSet
         /\ commit(c) \in CounterSet
         /\ Measured(c, gen, now) \in Nat
         /\ Seen(c) \in Nat
         /\ Sent(c) \in Nat
BY DEF CounterSet, Reading, NoReading, newCounters, Books, retire, skip, delta, commit, Measured,
       Seen, Sent, FromInstance, sub

LEMMA RetiredTypes ==
  ASSUME NEW c \in CounterSet, NEW now \in Reading
  PROVE  retire(c, now) \in CounterSet
BY DEF CounterSet, Reading, NoReading, Books, retire, FromInstance, sub

LEMMA FrameTypes ==
  /\ Hello \in ReportFrames /\ NoFrame \in ReportFrames
  /\ NoReport \in [seq: Nat, amt: Nat]
  /\ Welcome \in [type: {"welcome", "ok"}, epoch: {0}, id: Nat, amt: {0}]
  /\ \A i \in Nat : Ok(i) \in [type: {"welcome", "ok"}, epoch: {0}, id: Nat, amt: {0}]
  /\ \A e, i, a \in Nat : Frame("stats", e, i, a) \in ReportFrames
BY DEF Hello, NoFrame, NoReport, Welcome, Ok, Frame, ReportFrames

LEMMA StatsFrame ==
  ASSUME NEW e \in Nat, NEW i \in Nat, NEW a \in Nat
  PROVE  Frame("stats", e, i, a) \in ReportFrames
BY DEF Frame, ReportFrames

LEMMA AppendTypes ==
  ASSUME NEW S, NEW s \in Seq(S), NEW x \in S
  PROVE  Append(s, x) \in Seq(S)
OBVIOUS

LEMMA InitTypes == Init => TypeOK
<1> SUFFICES ASSUME Init
             PROVE  TypeOK
  OBVIOUS
<1>1. newCounters \in CounterSet
  BY NewBooks
<1>2. cnt \in [Cores -> CounterSet] /\ live \in [Cores -> Nat] /\ used \in [Cores -> Nat]
  BY <1>1 DEF Init
<1>3. running \in [Cores -> BOOLEAN]
  BY DEF Init, Down
<1>4. up \in Seq(ReportFrames)
      /\ down \in Seq([type: {"welcome", "ok"}, epoch: {0}, id: Nat, amt: {0}])
  BY DEF Init
<1>5. outbox \in [seq: Nat, amt: Nat] /\ hand \in ReportFrames
  BY FrameTypes DEF Init
<1>6. orphans \in SUBSET [frame: ReportFrames, statsAck: BOOLEAN]
  BY DEF Init
<1>7. panel \in {"current", "legacy"}
  BY DEF Init
<1>8. sbGen \in Nat \cup {NoGen} /\ xGen \in Nat \cup {NoGen} /\ xNow \in Reading
  BY DEF Init, Reading
<1>9. epoch \in Nat /\ seq \in Nat /\ sum \in Nat /\ lastEpoch \in Nat /\ lastSeq \in Nat
      /\ billed \in Nat /\ lost \in Int /\ resent \in Nat /\ faults \in Nat
  BY DEF Init
<1>10. QED
  BY <1>2, <1>3, <1>4, <1>5, <1>6, <1>7, <1>8, <1>9 DEF Init, TypeOK

LEMMA RetireTypes ==
  ASSUME TypeOK, NEW k \in Cores, NEW final \in LastReadings(k), Retire(k, final)
  PROVE  live' \in [Cores -> Nat] /\ cnt' \in [Cores -> CounterSet] /\ lost' \in Int
<1>1. cnt[k] \in CounterSet /\ live[k] \in Nat /\ Seen(cnt[k]) \in Nat
  BY CounterTypes DEF TypeOK, Reading, NoReading
<1>2. final \in Reading
  BY <1>1 DEF LastReadings, Reading, NoReading
<1>3. retire(cnt[k], final) \in CounterSet
  BY <1>1, <1>2, RetiredTypes
<1>4. live' \in [Cores -> Nat] /\ cnt' \in [Cores -> CounterSet]
  BY <1>3 DEF Retire, TypeOK
<1>5. lost' \in Int
  BY <1>1, <1>2 DEF Retire, TypeOK, Reading, NoReading
<1>6. QED
  BY <1>4, <1>5

\* The cores change, and nothing else but what is given.
LEMMA CoreChangeTypes ==
  ASSUME TypeOK,
         running' \in [Cores -> BOOLEAN], live' \in [Cores -> Nat],
         cnt' \in [Cores -> CounterSet], lost' \in Int, used' \in [Cores -> Nat],
         UNCHANGED <<linkVars, reportVars, hpc, netVars, serveVars, dbVars, resent, faults>>
  PROVE  TypeOK'
BY DEF TypeOK, linkVars, reportVars, netVars, serveVars, dbVars

LEMMA CoreStepTypes == TypeOK /\ CoreStep => TypeOK'
<1> SUFFICES ASSUME TypeOK, CoreStep
             PROVE  TypeOK'
  OBVIOUS
<1>u. used \in [Cores -> Nat] /\ running \in [Cores -> BOOLEAN]
      /\ cnt \in [Cores -> CounterSet] /\ lost \in Int
  BY DEF TypeOK
<1>1. ASSUME NEW k \in Cores, Meter(k) PROVE TypeOK'
  <2>a. live \in [Cores -> Nat] /\ live[k] + 1 \in Nat /\ used[k] + 1 \in Nat
    BY <1>u DEF TypeOK
  <2>b. live' = [live EXCEPT ![k] = live[k] + 1] /\ used' = [used EXCEPT ![k] = used[k] + 1]
    BY <1>1 DEF Meter
  <2>1. live' \in [Cores -> Nat] /\ used' \in [Cores -> Nat]
    BY <1>u, <2>a, <2>b
  <2>2. running' = running /\ cnt' = cnt /\ lost' = lost
        /\ UNCHANGED <<linkVars, reportVars, hpc, netVars, serveVars, dbVars, resent, faults>>
    BY <1>1 DEF Meter
  <2>3. running' \in [Cores -> BOOLEAN] /\ cnt' \in [Cores -> CounterSet] /\ lost' \in Int
    BY <1>u, <2>2
  <2>4. QED
    BY <2>1, <2>2, <2>3, CoreChangeTypes
<1>2. CASE ApplySingbox
  <2>1. live' \in [Cores -> Nat] /\ cnt' \in [Cores -> CounterSet] /\ lost' \in Int
    BY <1>2, RetireTypes DEF ApplySingbox, TypeOK, Cores
  <2>2. running' \in [Cores -> BOOLEAN]
    BY <1>2, <1>u DEF ApplySingbox
  <2>3. QED
    BY <1>2, <1>u, <2>1, <2>2, CoreChangeTypes DEF ApplySingbox
<1>3. CASE ApplyXray
  <2>1. live' \in [Cores -> Nat] /\ cnt' \in [Cores -> CounterSet] /\ lost' \in Int
    BY <1>3, RetireTypes DEF ApplyXray, RestartXray, Cores
  <2>2. running' \in [Cores -> BOOLEAN]
    BY <1>3, <1>u DEF ApplyXray, RestartXray
  <2>3. QED
    BY <1>3, <1>u, <2>1, <2>2, CoreChangeTypes DEF ApplyXray
<1>4. CASE XrayExit
  <2>1. live' \in [Cores -> Nat] /\ cnt' \in [Cores -> CounterSet] /\ lost' \in Int
    BY <1>4, RetireTypes DEF XrayExit, Cores, LastReadings
  <2>2. running' \in [Cores -> BOOLEAN]
    BY <1>4, <1>u DEF XrayExit
  <2>3. QED
    BY <1>4, <1>u, <2>1, <2>2, CoreChangeTypes DEF XrayExit
<1>5. CASE StartXray
  BY <1>5 DEF StartXray, Cores, TypeOK, linkVars, reportVars, netVars, serveVars, dbVars, pastVars
<1>6. QED
  BY <1>1, <1>2, <1>3, <1>4, <1>5 DEF CoreStep

LEMMA ReturnTypes ==
  Return => /\ rpc' = "idle" /\ ack' \in BOOLEAN /\ sum' \in Nat
            /\ sbGen' \in Nat \cup {NoGen} /\ xGen' \in Nat \cup {NoGen} /\ xNow' \in Reading
<1> SUFFICES ASSUME Return
             PROVE  /\ rpc' = "idle" /\ ack' \in BOOLEAN /\ sum' \in Nat
                    /\ sbGen' \in Nat \cup {NoGen} /\ xGen' \in Nat \cup {NoGen} /\ xNow' \in Reading
  OBVIOUS
<1>1. ack' \in BOOLEAN
  BY Zenon DEF Return
<1>2. rpc' = "idle" /\ sum' \in Nat
  BY DEF Return
<1>3. sbGen' \in Nat \cup {NoGen} /\ xGen' \in Nat \cup {NoGen} /\ xNow' \in Reading
  BY Zenon DEF Return, Reading
<1>4. QED
  BY <1>1, <1>2, <1>3

LEMMA SettleTypes ==
  ASSUME TypeOK, NEW k \in Cores, Settle(k)
  PROVE  cnt' \in [Cores -> CounterSet]
<1>1. commit(cnt[k]) \in CounterSet
  <2>1. cnt[k] \in CounterSet /\ 0 \in Int /\ 0 \in Reading
    BY DEF TypeOK, Reading
  <2>2. QED
    BY <2>1, CounterTypes
<1>2. QED
  BY <1>1 DEF Settle, TypeOK

LEMMA ReportStepTypes == TypeOK /\ ReportStep => TypeOK'
<1> SUFFICES ASSUME TypeOK, ReportStep
             PROVE  TypeOK'
  OBVIOUS
<1> USE DEF coreVars, linkVars, reportVars, netVars, serveVars, dbVars, pastVars
<1>s. cnt["singbox"] \in CounterSet /\ cnt["xray"] \in CounterSet
      /\ live["singbox"] \in Nat /\ live["xray"] \in Nat
  BY DEF TypeOK, Cores
<1>g. cnt["singbox"].gen \in Nat /\ cnt["xray"].gen \in Nat
  BY <1>s DEF CounterSet
<1>1. CASE TickReads
  <2>1. sbGen' \in Nat \cup {NoGen}
    BY <1>1, <1>g DEF TickReads
  <2>2. QED
    BY <1>1, <2>1 DEF TickReads, TypeOK
<1>2. CASE TickResends
  <2>1. up' \in Seq(ReportFrames)
    BY <1>2, FrameTypes DEF TickResends, TypeOK
  <2>2. QED
    BY <1>2, <2>1 DEF TickResends, TypeOK
<1>3. CASE TickSendsOldWay
  <2>1. up' \in Seq(ReportFrames)
    BY <1>3, FrameTypes DEF TickSendsOldWay, TypeOK
  <2>2. outbox' \in [seq: Nat, amt: Nat]
    BY <1>3, FrameTypes DEF TickSendsOldWay
  <2>3. sum' \in Nat /\ resent' \in Nat
    BY <1>3 DEF TickSendsOldWay, TypeOK
  <2>4. QED
    BY <1>3, <2>1, <2>2, <2>3 DEF TickSendsOldWay, TypeOK
<1>4. CASE XrayTotals
  <2>1. ack' \in BOOLEAN /\ sum' \in Nat /\ sbGen' \in Nat \cup {NoGen} /\ rpc' \in {"idle", "singbox"}
    BY <1>4, ReturnTypes DEF XrayTotals, TypeOK
  <2>2. xGen' \in Nat \cup {NoGen}
    BY <1>4, <1>g, ReturnTypes DEF XrayTotals
  <2>3. xNow' \in Reading
    BY <1>4, <1>s, ReturnTypes DEF XrayTotals, Reading
  <2>4. faults' \in Nat
    BY <1>4 DEF XrayTotals, TypeOK, Fault
  <2>5. QED
    BY <1>4, <2>1, <2>2, <2>3, <2>4 DEF XrayTotals, TypeOK
<1>5. CASE SingboxDelta
  <2>1. sbGen \in Int /\ live["singbox"] \in Reading
    BY <1>s DEF TypeOK, NoGen, Reading
  <2>2. /\ delta(cnt["singbox"], sbGen, live["singbox"]) \in CounterSet
        /\ Measured(cnt["singbox"], sbGen, live["singbox"]) \in Nat
    BY <2>1, <1>s, CounterTypes
  <2>3. cnt' \in [Cores -> CounterSet] /\ sum' \in Nat
    BY <1>5, <2>2, ReturnTypes DEF SingboxDelta, TypeOK
  <2>4. xGen' \in Nat \cup {NoGen} /\ xNow' \in Reading /\ sbGen' \in Nat \cup {NoGen}
        /\ ack' \in BOOLEAN /\ rpc' \in {"idle", "xray"}
    BY <1>5, ReturnTypes DEF SingboxDelta, TypeOK
  <2>5. QED
    BY <1>5, <2>3, <2>4 DEF SingboxDelta, TypeOK
<1>6. CASE XrayDelta
  <2> DEFINE amount == sum + (IF xGen = NoGen THEN 0 ELSE Measured(cnt["xray"], xGen, xNow))
  <2>1. xGen \in Int /\ xNow \in Reading
    BY DEF TypeOK, NoGen
  <2>2. /\ delta(cnt["xray"], xGen, xNow) \in CounterSet
        /\ skip(cnt["xray"]) \in CounterSet
        /\ Measured(cnt["xray"], xGen, xNow) \in Nat
    BY <2>1, <1>s, CounterTypes
  <2>3. amount \in Nat
    BY <2>2 DEF TypeOK
  <2>4. cnt' \in [Cores -> CounterSet]
    BY <1>6, <2>2 DEF XrayDelta, TypeOK
  <2>5. Frame("stats", epoch, seq + 1, amount) \in ReportFrames
    <3>1. epoch \in Nat /\ seq + 1 \in Nat
      BY DEF TypeOK
    <3>2. QED
      BY <2>3, <3>1, StatsFrame
  <2>6. up' \in Seq(ReportFrames) /\ outbox' \in [seq: Nat, amt: Nat] /\ seq' \in Nat
    <3>1. up \in Seq(ReportFrames) /\ Append(up, Frame("stats", epoch, seq + 1, amount)) \in Seq(ReportFrames)
      BY <2>5, AppendTypes DEF TypeOK
    <3>2. up' \in Seq(ReportFrames)
      BY <1>6, <3>1 DEF XrayDelta
    <3>3. outbox' \in [seq: Nat, amt: Nat] /\ seq' \in Nat
      BY <1>6, <2>3 DEF XrayDelta, TypeOK
    <3>4. QED
      BY <3>2, <3>3
  <2>7. xGen' \in Nat \cup {NoGen} /\ xNow' \in Reading /\ sbGen' \in Nat \cup {NoGen}
        /\ ack' \in BOOLEAN /\ rpc' \in {"idle", "write"} /\ sum' \in Nat
    BY <1>6, <2>3, ReturnTypes DEF XrayDelta, TypeOK
  <2>8. QED
    BY <1>6, <2>4, <2>6, <2>7 DEF XrayDelta, TypeOK
<1>7. CASE WriteUnnumbered
  <2>1. up' \in Seq(ReportFrames)
    <3>1. up \in Seq(ReportFrames) /\ Append(up, Frame("stats", 0, 0, sum)) \in Seq(ReportFrames)
      BY StatsFrame, AppendTypes DEF TypeOK
    <3>2. QED
      BY <1>7, <3>1 DEF WriteUnnumbered
  <2>2. xGen' \in Nat \cup {NoGen} /\ xNow' \in Reading /\ sbGen' \in Nat \cup {NoGen}
        /\ ack' \in BOOLEAN /\ rpc' \in {"idle", "settle"} /\ sum' \in Nat
    BY <1>7, ReturnTypes DEF WriteUnnumbered, TypeOK
  <2>3. QED
    BY <1>7, <2>1, <2>2 DEF WriteUnnumbered, TypeOK
<1>8. CASE ReportSettles
  <2>1. cnt' \in [Cores -> CounterSet]
    BY <1>8, SettleTypes DEF ReportSettles, Cores
  <2>2. xGen' \in Nat \cup {NoGen} /\ xNow' \in Reading /\ sbGen' \in Nat \cup {NoGen}
        /\ ack' \in BOOLEAN /\ rpc' \in {"idle", "settleXray"} /\ sum' \in Nat
    BY <1>8, ReturnTypes DEF ReportSettles, TypeOK
  <2>3. QED
    BY <1>8, <2>1, <2>2 DEF ReportSettles, TypeOK
<1>9. QED
  BY <1>1, <1>2, <1>3, <1>4, <1>5, <1>6, <1>7, <1>8 DEF ReportStep

LEMMA HandlerStepTypes == TypeOK /\ HandlerStep => TypeOK'
<1> SUFFICES ASSUME TypeOK, HandlerStep
             PROVE  TypeOK'
  OBVIOUS
<1> USE DEF coreVars, linkVars, reportVars, netVars, serveVars, dbVars, pastVars
<1>1. CASE HandleWelcome
  <2>1. CASE RestartXray
    <3>1. live' \in [Cores -> Nat] /\ cnt' \in [Cores -> CounterSet] /\ lost' \in Int
      BY <2>1, RetireTypes DEF RestartXray, Cores
    <3>2. running' \in [Cores -> BOOLEAN]
      BY <2>1 DEF RestartXray, TypeOK
    <3>3. agreed' \in BOOLEAN
      BY <1>1, Zenon DEF HandleWelcome
    <3>4. down' \in Seq([type: {"welcome", "ok"}, epoch: {0}, id: Nat, amt: {0}])
      BY <1>1 DEF HandleWelcome, TypeOK
    <3>5. QED
      BY <1>1, <3>1, <3>2, <3>3, <3>4 DEF HandleWelcome, TypeOK
  <2>2. CASE UNCHANGED <<coreVars, lost>>
    BY <1>1, <2>2 DEF HandleWelcome, TypeOK
  <2>3. QED
    BY <1>1, <2>1, <2>2 DEF HandleWelcome
<1>2. CASE HandleOk
  <2>1. outbox' \in [seq: Nat, amt: Nat] /\ hpc' \in {"read", "settle"}
    BY <1>2, FrameTypes DEF HandleOk, TypeOK
  <2>2. QED
    BY <1>2, <2>1 DEF HandleOk, TypeOK
<1>3. CASE HandlerSettles
  <2>1. cnt' \in [Cores -> CounterSet]
    BY <1>3, SettleTypes DEF HandlerSettles, Cores
  <2>2. QED
    BY <1>3, <2>1 DEF HandlerSettles, TypeOK
<1>4. QED
  BY <1>1, <1>2, <1>3 DEF HandlerStep

LEMMA AddTrafficTypes ==
  ASSUME TypeOK, NEW f \in ReportFrames, NEW offered \in BOOLEAN, AddTraffic(f, offered)
  PROVE  billed' \in Nat /\ lastEpoch' \in Nat /\ lastSeq' \in Nat /\ panel' = panel
<1>1. f.amt \in Nat /\ f.epoch \in Nat /\ f.id \in Nat
  BY DEF ReportFrames
<1>t. billed \in Nat /\ lastEpoch \in Nat /\ lastSeq \in Nat
  BY DEF TypeOK
<1>2. CASE Numbered(f, offered)
  BY <1>1, <1>t, <1>2 DEF AddTraffic
<1>3. CASE ~Numbered(f, offered)
  BY <1>1, <1>t, <1>3 DEF AddTraffic
<1>4. QED
  BY <1>2, <1>3

LEMMA PanelStepTypes == TypeOK /\ PanelStep => TypeOK'
<1> SUFFICES ASSUME TypeOK, PanelStep
             PROVE  TypeOK'
  OBVIOUS
<1> USE DEF coreVars, linkVars, reportVars, netVars, serveVars, dbVars, pastVars
<1>1. CASE PanelReads
  <2>1. up' \in Seq(ReportFrames) /\ hand' \in ReportFrames
    BY <1>1 DEF PanelReads, TypeOK
  <2>2. QED
    BY <1>1, <2>1 DEF PanelReads, TypeOK
<1>2. CASE DispatchHello
  <2> DEFINE Answers == [type: {"welcome", "ok"}, epoch: {0}, id: Nat, amt: {0}]
  <2>1. Append(down, Welcome) \in Seq(Answers) /\ down \in Seq(Answers)
    BY FrameTypes, AppendTypes DEF TypeOK
  <2>2. hand' \in ReportFrames /\ down' \in Seq(Answers)
    BY <1>2, <2>1, FrameTypes DEF DispatchHello
  <2>3. statsAck' \in BOOLEAN
    BY <1>2 DEF DispatchHello, TypeOK
  <2>4. QED
    BY <1>2, <2>2, <2>3 DEF DispatchHello, TypeOK
<1>3. CASE DispatchStats
  <2>1. billed' \in Nat /\ lastEpoch' \in Nat /\ lastSeq' \in Nat /\ panel' = panel
    BY <1>3, AddTrafficTypes DEF DispatchStats, TypeOK
  <2>2. hand.id \in Nat
    BY DEF TypeOK, ReportFrames
  <2> DEFINE Answers == [type: {"welcome", "ok"}, epoch: {0}, id: Nat, amt: {0}]
  <2>3. hand' \in ReportFrames /\ down' \in Seq(Answers)
    <3>1. Append(down, Ok(hand.id)) \in Seq(Answers) /\ down \in Seq(Answers)
      BY <2>2, FrameTypes, AppendTypes DEF TypeOK
    <3>2. QED
      BY <1>3, <3>1, FrameTypes DEF DispatchStats
  <2>4. QED
    BY <1>3, <2>1, <2>3 DEF DispatchStats, TypeOK
<1>4. CASE DispatchFails
  <2>1. hand' \in ReportFrames /\ faults' \in Nat
    BY <1>4, FrameTypes DEF DispatchFails, Fault, TypeOK
  <2>2. QED
    BY <1>4, <2>1 DEF DispatchFails, TypeOK
<1>5. CASE DispatchOrphan
  <2>1. PICK o \in orphans : AddTraffic(o.frame, o.statsAck) /\ orphans' = orphans \ {o}
    BY <1>5 DEF DispatchOrphan
  <2>2. o.frame \in ReportFrames /\ o.statsAck \in BOOLEAN
    BY DEF TypeOK
  <2>3. billed' \in Nat /\ lastEpoch' \in Nat /\ lastSeq' \in Nat /\ panel' = panel
    BY <2>1, <2>2, AddTrafficTypes
  <2>4. QED
    BY <1>5, <2>1, <2>3 DEF DispatchOrphan, TypeOK
<1>6. QED
  BY <1>1, <1>2, <1>3, <1>4, <1>5 DEF PanelStep

LEMMA DisconnectTypes ==
  ASSUME TypeOK, Disconnect
  PROVE  /\ conn' \in BOOLEAN /\ up' = << >> /\ down' = << >>
         /\ hand' \in ReportFrames /\ statsAck' \in BOOLEAN
         /\ orphans' \in SUBSET [frame: ReportFrames, statsAck: BOOLEAN]
<1>1. conn' \in BOOLEAN /\ statsAck' \in BOOLEAN
  BY Zenon DEF Disconnect
<1>2. up' = << >> /\ down' = << >> /\ hand' \in ReportFrames
  BY FrameTypes DEF Disconnect
<1>3. orphans' \in SUBSET [frame: ReportFrames, statsAck: BOOLEAN]
  BY DEF Disconnect, TypeOK
<1>4. QED
  BY <1>1, <1>2, <1>3

LEMMA EmptyQueues ==
  /\ << >> \in Seq(ReportFrames)
  /\ << >> \in Seq([type: {"welcome", "ok"}, epoch: {0}, id: Nat, amt: {0}])
OBVIOUS

LEMMA HeldType == TypeOK => Held \in Int
<1> SUFFICES ASSUME TypeOK
             PROVE  Held \in Int
  OBVIOUS
<1>1. /\ cnt["singbox"] \in CounterSet /\ cnt["xray"] \in CounterSet
      /\ live["singbox"] \in Nat /\ live["xray"] \in Nat
      /\ 0 \in Int /\ 0 \in Reading
  BY DEF TypeOK, Cores, Reading
<1>2. Sent(cnt["singbox"]) \in Nat /\ Sent(cnt["xray"]) \in Nat
  BY <1>1, CounterTypes
<1>3. Owed(cnt["singbox"], live["singbox"]) \in Int /\ Owed(cnt["xray"], live["xray"]) \in Int
  BY <1>1 DEF Owed, sub, CounterSet
<1>4. Acknowledgeable \in Int
  BY <1>2 DEF Acknowledgeable
<1>5. QED
  BY <1>3, <1>4 DEF Held

LEMMA ProcessStepTypes == TypeOK /\ (Drop \/ Connect \/ PanelRestart \/ NodeCrash) => TypeOK'
<1> SUFFICES ASSUME TypeOK, Drop \/ Connect \/ PanelRestart \/ NodeCrash
             PROVE  TypeOK'
  OBVIOUS
<1> USE DEF coreVars, linkVars, reportVars, netVars, serveVars, dbVars, pastVars
<1>1. CASE Drop
  <2>1. faults' \in Nat
    BY <1>1 DEF Drop, Fault, TypeOK
  <2>2. Disconnect
    BY <1>1 DEF Drop
  <2>3. conn' \in BOOLEAN /\ statsAck' \in BOOLEAN /\ hand' \in ReportFrames
        /\ orphans' \in SUBSET [frame: ReportFrames, statsAck: BOOLEAN]
    BY <2>2, DisconnectTypes
  <2>4. up' \in Seq(ReportFrames)
        /\ down' \in Seq([type: {"welcome", "ok"}, epoch: {0}, id: Nat, amt: {0}])
    BY <2>2, DisconnectTypes, EmptyQueues
  <2>5. QED
    BY <1>1, <2>1, <2>3, <2>4 DEF Drop, TypeOK
<1>2. CASE Connect
  <2>1. up' \in Seq(ReportFrames)
    BY <1>2, FrameTypes DEF Connect
  <2>2. QED
    BY <1>2, <2>1 DEF Connect, TypeOK
<1>3. CASE PanelRestart
  <2>1. faults' \in Nat /\ panel' \in {"current", "legacy"} /\ hand' \in ReportFrames
    BY <1>3, FrameTypes DEF PanelRestart, Fault, TypeOK
  <2>2. QED
    BY <1>3, <2>1, EmptyQueues DEF PanelRestart, TypeOK
<1>4. CASE NodeCrash
  <2>1. newCounters \in CounterSet
    BY NewBooks
  <2>2. cnt' \in [Cores -> CounterSet] /\ live' \in [Cores -> Nat] /\ running' \in [Cores -> BOOLEAN]
    BY <1>4, <2>1 DEF NodeCrash, Down
  <2>3. lost' \in Int /\ outbox' \in [seq: Nat, amt: Nat] /\ epoch' \in Nat
    BY <1>4, HeldType, FrameTypes DEF NodeCrash, TypeOK
  <2>4. Disconnect /\ Return
    BY <1>4 DEF NodeCrash
  <2>5. QED
    BY <1>4, <2>2, <2>3, <2>4, DisconnectTypes, ReturnTypes, EmptyQueues DEF NodeCrash, TypeOK
<1>5. QED
  BY <1>1, <1>2, <1>3, <1>4

\* A step of any kind keeps every type.
LEMMA NextTypes == TypeOK /\ [Next]_vars => TypeOK'
<1> SUFFICES ASSUME TypeOK, [Next]_vars
             PROVE  TypeOK'
  OBVIOUS
<1>1. CASE Next
  BY <1>1, CoreStepTypes, ReportStepTypes, HandlerStepTypes, PanelStepTypes, ProcessStepTypes DEF Next
<1>2. CASE UNCHANGED vars
  BY <1>2 DEF vars, coreVars, linkVars, reportVars, netVars, serveVars, dbVars, pastVars, TypeOK
<1>3. QED
  BY <1>1, <1>2

\* Every variable keeps its type, whatever the bounds and the circumstances.
THEOREM TypeCorrect == Spec => []TypeOK
<1>1. Init => TypeOK
  BY InitTypes
<1>2. TypeOK /\ [Next]_vars => TypeOK'
  BY NextTypes
<1>3. QED
  BY <1>1, <1>2, PTL DEF Spec

-----------------------------------------------------------------------------
(* The account, under the expected timing *)

S(k) == Sent(cnt[k])
O(k) == Owed(cnt[k], live[k])

\* The frames in a queue.
Queued(q) == {q[i] : i \in 1..Len(q)}

\* The panel has recorded report i of epoch e, or a later one.
Recorded(e, i) == lastEpoch = e /\ i <= lastSeq

\* No report waits, none is being settled.
NothingSent == outbox = NoReport /\ hpc = "read"

BooksInv == \A k \in Cores : Balanced(cnt[k], live[k])

SessionInv ==
  /\ panel = "current"
  /\ conn /\ agreed => statsAck
  /\ ~conn => up = << >> /\ down = << >> /\ hand = NoFrame
  /\ Welcome \in Queued(down) => statsAck
  /\ \A f \in Queued(up) \cup {hand} : f.type = "stats" => statsAck

ReportInv ==
  /\ rpc \in {"idle", "totals", "singbox", "xray"}
  /\ rpc # "idle" => ack /\ NothingSent /\ (conn => agreed)
  /\ rpc # "xray" => sum = 0
  /\ hpc # "read" => outbox = NoReport
  /\ xGen <= cnt["xray"].gen
  /\ rpc \in {"singbox", "xray"} /\ xGen = cnt["xray"].gen /\ xNow # NoReading =>
       cnt["xray"].reported <= xNow /\ xNow <= live["xray"]

SettleInv ==
  /\ NothingSent => S("xray") = 0
  /\ NothingSent /\ rpc # "xray" => S("singbox") = 0
  /\ rpc = "xray" => S("singbox") = sum
  /\ hpc = "settleXray" => S("singbox") = 0
  /\ outbox # NoReport => /\ S("singbox") + S("xray") = outbox.amt
                          /\ outbox.seq = seq /\ 1 <= seq

\* A report on its way: numbered by this process, and recorded or still waiting.
FrameInv(f) ==
  /\ f.epoch = epoch /\ 1 <= f.id /\ f.id <= seq
  /\ Recorded(epoch, f.id) \/ (outbox # NoReport /\ f.id = outbox.seq /\ f.amt = outbox.amt)

NumberInv ==
  /\ 1 <= epoch /\ lastEpoch <= epoch
  /\ lastEpoch = epoch => lastSeq <= seq
  /\ \A f \in Queued(up) \cup {hand} : f.type = "stats" => FrameInv(f)
  /\ \A f \in Queued(down) : f.type = "ok" => Recorded(epoch, f.id) /\ 1 <= f.id /\ f.id <= seq

\* The bytes nobody will bill any more.
Adrift == Used - billed - Held

\* A report of an earlier process: this one has sent none yet, and it is
\* recorded or made of bytes adrift.
Bequeathed(f) ==
  /\ 1 <= f.epoch /\ f.epoch < epoch /\ 1 <= f.id
  /\ seq = 0 /\ rpc = "idle"
  /\ Recorded(f.epoch, f.id) \/ f.amt <= Adrift

OrphanInv ==
  /\ \A o \in orphans : o.statsAck /\ (FrameInv(o.frame) \/ Bequeathed(o.frame))
  /\ \A o, p \in orphans :
       /\ o.frame.epoch = p.frame.epoch
       /\ o.frame.epoch < epoch /\ o.frame.id # p.frame.id =>
            Recorded(o.frame.epoch, o.frame.id) \/ Recorded(p.frame.epoch, p.frame.id)

AccountInv == resent = 0 /\ 0 <= Adrift /\ Adrift <= lost

IInv ==
  /\ TypeOK /\ BooksInv /\ SessionInv /\ ReportInv
  /\ SettleInv /\ NumberInv /\ OrphanInv /\ AccountInv

-----------------------------------------------------------------------------
(* Queues, and what the books owe *)

LEMMA QueuedEmpty == Queued(<< >>) = {}
BY DEF Queued

LEMMA QueuedOne ==
  ASSUME NEW T, NEW x \in T
  PROVE  Queued(<<x>>) = {x}
BY DEF Queued

LEMMA QueuedAppend ==
  ASSUME NEW T, NEW q \in Seq(T), NEW x \in T
  PROVE  Queued(Append(q, x)) = Queued(q) \cup {x}
<1>1. Len(Append(q, x)) = Len(q) + 1 /\ Len(q) \in Nat
  OBVIOUS
<1>2. \A i \in 1..Len(q) : Append(q, x)[i] = q[i]
  OBVIOUS
<1>3. Append(q, x)[Len(q) + 1] = x
  OBVIOUS
<1>4. 1..(Len(q) + 1) = 1..Len(q) \cup {Len(q) + 1}
  BY <1>1
<1>5. QED
  BY <1>1, <1>2, <1>3, <1>4 DEF Queued

LEMMA QueuedTail ==
  ASSUME NEW T, NEW q \in Seq(T), q # << >>
  PROVE  Head(q) \in Queued(q) /\ Queued(Tail(q)) \subseteq Queued(q)
<1>1. Len(q) \in Nat /\ Len(q) >= 1 /\ Head(q) = q[1] /\ Len(Tail(q)) = Len(q) - 1
  OBVIOUS
<1>2. \A i \in 1..Len(Tail(q)) : Tail(q)[i] = q[i + 1]
  OBVIOUS
<1>3. QED
  BY <1>1, <1>2 DEF Queued

LEMMA QueuedType ==
  ASSUME NEW T, NEW q \in Seq(T)
  PROVE  Queued(q) \subseteq T
BY DEF Queued

\* What the types say of each core.
LEMMA CoreTypes ==
  ASSUME TypeOK
  PROVE  /\ cnt["singbox"] \in CounterSet /\ cnt["xray"] \in CounterSet
         /\ live["singbox"] \in Nat /\ live["xray"] \in Nat
         /\ used["singbox"] \in Nat /\ used["xray"] \in Nat
         /\ cnt["singbox"].gen \in Nat /\ cnt["xray"].gen \in Nat
BY DEF TypeOK, Cores, CounterSet

LEMMA Sums ==
  ASSUME TypeOK, BooksInv
  PROVE  /\ S("singbox") \in Nat /\ S("xray") \in Nat
         /\ O("singbox") \in Nat /\ O("xray") \in Nat
         /\ S("singbox") <= O("singbox") /\ S("xray") <= O("xray")
<1>1. Balanced(cnt["singbox"], live["singbox"]) /\ Balanced(cnt["xray"], live["xray"])
  BY DEF BooksInv, Cores
<1>2. QED
  BY <1>1, CoreTypes, SentIsOwed DEF S, O

LEMMA SumsNext ==
  ASSUME TypeOK', BooksInv'
  PROVE  /\ S("singbox")' \in Nat /\ S("xray")' \in Nat
         /\ O("singbox")' \in Nat /\ O("xray")' \in Nat
         /\ S("singbox")' <= O("singbox")' /\ S("xray")' <= O("xray")'
<1>1. Balanced(cnt["singbox"]', live["singbox"]') /\ Balanced(cnt["xray"]', live["xray"]')
  BY DEF BooksInv, Cores
<1>2. cnt["singbox"]' \in CounterSet /\ cnt["xray"]' \in CounterSet
      /\ live["singbox"]' \in Nat /\ live["xray"]' \in Nat
  BY DEF TypeOK, Cores
<1>3. QED
  BY <1>1, <1>2, SentIsOwed DEF S, O

\* Replacing a core: what the report in flight settles stays, and what is no
\* longer owed is lost.
LEMMA RetireEffect ==
  ASSUME TypeOK, BooksInv, Circumstances = {},
         NEW k \in Cores, NEW final \in LastReadings(k), Retire(k, final)
  PROVE  /\ BooksInv'
         /\ S("singbox")' = S("singbox") /\ S("xray")' = S("xray")
         /\ O("singbox")' + O("xray")' + lost' = O("singbox") + O("xray") + lost
         /\ lost <= lost'
         /\ \/ cnt["xray"].gen < cnt["xray"].gen'
            \/ cnt["xray"]' = cnt["xray"] /\ live["xray"]' = live["xray"]
<1> DEFINE c == cnt[k]
           d == live[k] - (IF final = NoReading THEN Seen(c) ELSE final)
<1>1. c \in CounterSet /\ live[k] \in Nat /\ Balanced(c, live[k]) /\ Seen(c) \in Nat /\ lost \in Int
  BY CounterTypes DEF TypeOK, BooksInv, Reading, NoReading
<1>2. final \in Reading /\ (final # NoReading => Seen(c) <= final /\ final <= live[k])
  BY <1>1 DEF LastReadings, Reading, NoReading
<1>3. final = NoReading => FromInstance(c) = 0
  BY DEF Retire, InFlight
<1>4. /\ Balanced(retire(c, final), 0)
      /\ Sent(retire(c, final)) = Sent(c)
      /\ Owed(retire(c, final), 0) = Owed(c, live[k]) - d
      /\ retire(c, final).gen = c.gen + 1
  BY <1>1, <1>2, <1>3, RetireKeeps
<1>5. d \in Nat
  BY <1>1, <1>2 DEF Balanced, Seen, CounterSet, Reading, NoReading
<1>6. cnt' = [cnt EXCEPT ![k] = retire(c, final)] /\ live' = [live EXCEPT ![k] = 0] /\ lost' = lost + d
  BY <1>1, <1>2 DEF Retire, NoReading, Reading
<1>7. /\ cnt'[k] = retire(c, final) /\ live'[k] = 0
      /\ \A j \in Cores \ {k} : cnt'[j] = cnt[j] /\ live'[j] = live[j]
  BY <1>6 DEF TypeOK
<1>8. BooksInv'
  BY <1>4, <1>7 DEF BooksInv
<1>9. \A j \in Cores : S(j)' = S(j)
  BY <1>4, <1>7 DEF S
<1>10. O(k)' = O(k) - d /\ \A j \in Cores \ {k} : O(j)' = O(j)
  BY <1>4, <1>7 DEF O
<1>11. O("singbox")' + O("xray")' = O("singbox") + O("xray") - d
  BY <1>5, <1>10, Sums DEF Cores
<1>12. QED
  BY <1>1, <1>4, <1>5, <1>6, <1>7, <1>8, <1>9, <1>11, CoreTypes, Sums DEF Cores

\* What this process holds, when no report goes out the old way.
LEMMA HeldNow ==
  ASSUME rpc \notin {"settle", "settleXray"}
  PROVE  Held = O("singbox") + O("xray") -
                  (IF outbox # NoReport
                     THEN IF Recorded(epoch, outbox.seq) THEN S("singbox") + S("xray") ELSE 0
                   ELSE IF hpc = "settle" THEN S("singbox") + S("xray")
                   ELSE IF hpc = "settleXray" THEN S("xray")
                   ELSE 0)
BY DEF Held, Acknowledgeable, Recorded, O, S

LEMMA HeldNext ==
  ASSUME rpc' \notin {"settle", "settleXray"}
  PROVE  Held' = O("singbox")' + O("xray")' -
                  (IF outbox' # NoReport
                     THEN IF Recorded(epoch, outbox.seq)' THEN S("singbox")' + S("xray")' ELSE 0
                   ELSE IF hpc' = "settle" THEN S("singbox")' + S("xray")'
                   ELSE IF hpc' = "settleXray" THEN S("xray")'
                   ELSE 0)
BY DEF Held, Acknowledgeable, Recorded, O, S

LEMMA TotalTypes ==
  ASSUME TypeOK
  PROVE  Used \in Nat /\ billed \in Nat /\ lost \in Int /\ resent \in Nat
BY CoreTypes DEF TypeOK, Used

LEMMA TotalTypesNext ==
  ASSUME TypeOK'
  PROVE  Used' \in Nat /\ billed' \in Nat /\ lost' \in Int /\ resent' \in Nat
<1>1. used["singbox"]' \in Nat /\ used["xray"]' \in Nat
  BY DEF TypeOK, Cores
<1>2. billed' \in Nat /\ lost' \in Int /\ resent' \in Nat
  BY DEF TypeOK
<1>3. QED
  BY <1>1, <1>2 DEF Used

LEMMA DriftType ==
  ASSUME TypeOK
  PROVE  Adrift \in Int /\ lost \in Int
<1>1. Held \in Int
  BY HeldType
<1>2. QED
  BY <1>1, TotalTypes DEF Adrift

LEMMA DriftTypeNext ==
  ASSUME TypeOK'
  PROVE  Adrift' \in Int
<1>1. /\ cnt["singbox"]' \in CounterSet /\ cnt["xray"]' \in CounterSet
      /\ live["singbox"]' \in Nat /\ live["xray"]' \in Nat
      /\ 0 \in Int /\ 0 \in Reading
  BY DEF TypeOK, Cores, Reading
<1>2. Sent(cnt["singbox"])' \in Nat /\ Sent(cnt["xray"])' \in Nat
  BY <1>1, CounterTypes
<1>3. Owed(cnt["singbox"], live["singbox"])' \in Int /\ Owed(cnt["xray"], live["xray"])' \in Int
  BY <1>1 DEF Owed, sub, CounterSet
<1>4. Acknowledgeable' \in Int
  BY <1>2 DEF Acknowledgeable
<1>5. Held' \in Int
  BY <1>3, <1>4 DEF Held
<1>6. QED
  BY <1>5, TotalTypesNext DEF Adrift

-----------------------------------------------------------------------------
(* Parts of the invariant a step leaves alone *)

LEMMA SessionKept ==
  ASSUME SessionInv, UNCHANGED <<panel, conn, agreed, statsAck, up, down, hand>>
  PROVE  SessionInv'
BY DEF SessionInv, Queued

LEMMA NumberKept ==
  ASSUME NumberInv, UNCHANGED <<epoch, lastEpoch, lastSeq, seq, outbox, up, down, hand>>
  PROVE  NumberInv'
BY DEF NumberInv, FrameInv, Recorded, Queued

LEMMA SettleKept ==
  ASSUME SettleInv, UNCHANGED <<outbox, hpc, rpc, sum, seq>>,
         S("singbox")' = S("singbox"), S("xray")' = S("xray")
  PROVE  SettleInv'
BY DEF SettleInv, NothingSent

\* More may be adrift, never less.
LEMMA OrphansKept ==
  ASSUME TypeOK, OrphanInv, orphans' \subseteq orphans,
         UNCHANGED <<epoch, seq, outbox, lastEpoch, lastSeq, rpc>>,
         Adrift' \in Int, Adrift <= Adrift'
  PROVE  OrphanInv'
<1>1. \A o \in orphans : o.frame.amt \in Nat
  BY DEF TypeOK, ReportFrames
<1>2. \A f : FrameInv(f)' = FrameInv(f) /\ \A e, i : Recorded(e, i)' = Recorded(e, i)
  BY DEF FrameInv, Recorded
<1>3. \A o \in orphans : Bequeathed(o.frame) => Bequeathed(o.frame)'
  BY <1>1, <1>2, DriftType DEF Bequeathed
<1>4. QED
  BY <1>2, <1>3 DEF OrphanInv

LEMMA DriftKept ==
  ASSUME TypeOK, TypeOK', ReportInv, ReportInv',
         UNCHANGED <<epoch, outbox, lastEpoch, lastSeq, hpc, billed, resent>>,
         S("singbox")' = S("singbox"), S("xray")' = S("xray"),
         Used - O("singbox") - O("xray") <= Used' - O("singbox")' - O("xray")',
         Used' - O("singbox")' - O("xray")' - lost' = Used - O("singbox") - O("xray") - lost,
         BooksInv, BooksInv', AccountInv
  PROVE  AccountInv' /\ Adrift <= Adrift'
<1>1. rpc \notin {"settle", "settleXray"} /\ rpc' \notin {"settle", "settleXray"}
  BY DEF ReportInv
<1>2. Recorded(epoch, outbox.seq)' = Recorded(epoch, outbox.seq)
  BY DEF Recorded
<1>3. Held' = Held + (O("singbox")' + O("xray")') - (O("singbox") + O("xray"))
  BY <1>1, <1>2, HeldNow, HeldNext, Sums, SumsNext
<1>4. Held \in Int /\ Used \in Nat /\ Used' \in Nat /\ billed \in Nat /\ lost \in Int /\ lost' \in Int
  <2>1. Used \in Nat /\ billed \in Nat /\ lost \in Int
    BY TotalTypes
  <2>2. Used' \in Nat /\ lost' \in Int
    BY TotalTypesNext
  <2>3. QED
    BY <2>1, <2>2, HeldType
<1>5. Adrift' - Adrift = (Used' - O("singbox")' - O("xray")') - (Used - O("singbox") - O("xray"))
  BY <1>3, <1>4, Sums, SumsNext DEF Adrift
<1>6. Adrift \in Int /\ Adrift' \in Int
  BY <1>3, <1>4, Sums, SumsNext DEF Adrift
<1>7. QED
  BY <1>4, <1>5, <1>6, Sums, SumsNext DEF AccountInv

-----------------------------------------------------------------------------
(* Steps of the cores *)

\* Counters go on or are replaced; what a report settles stays.
LEMMA CoresChange ==
  ASSUME IInv, TypeOK', BooksInv',
         UNCHANGED <<epoch, seq, outbox, reportVars, hpc, conn, orphans, dbVars, resent>>,
         agreed => agreed',
         S("singbox")' = S("singbox"), S("xray")' = S("xray"),
         Used - O("singbox") - O("xray") <= Used' - O("singbox")' - O("xray")',
         Used' - O("singbox")' - O("xray")' - lost' = Used - O("singbox") - O("xray") - lost,
         \/ cnt["xray"].gen < cnt["xray"].gen'
         \/ /\ cnt["xray"].gen' = cnt["xray"].gen /\ cnt["xray"].reported' = cnt["xray"].reported
            /\ live["xray"] <= live["xray"]'
  PROVE  ReportInv' /\ SettleInv' /\ OrphanInv' /\ AccountInv'
<1> USE DEF reportVars, dbVars
<1>i. TypeOK /\ BooksInv /\ ReportInv /\ SettleInv /\ OrphanInv /\ AccountInv
  BY DEF IInv
<1>1. ReportInv'
  <2>1. xGen \in Int /\ cnt["xray"].gen \in Nat /\ cnt["xray"].gen' \in Nat
        /\ live["xray"] \in Nat /\ live["xray"]' \in Nat /\ xNow \in Int
    <3>1. xGen \in Int /\ xNow \in Int
      BY <1>i DEF TypeOK, NoGen, Reading, NoReading
    <3>2. cnt["xray"]' \in CounterSet /\ live["xray"]' \in Nat
      BY DEF TypeOK, Cores
    <3>3. QED
      BY <1>i, <3>1, <3>2, CoreTypes DEF CounterSet
  <2>2. xGen <= cnt["xray"].gen'
    BY <1>i, <2>1 DEF ReportInv
  <2>3. ASSUME rpc \in {"singbox", "xray"}, xGen = cnt["xray"].gen', xNow # NoReading
        PROVE  cnt["xray"].reported' <= xNow /\ xNow <= live["xray"]'
    <3>1. /\ cnt["xray"].gen' = cnt["xray"].gen /\ cnt["xray"].reported' = cnt["xray"].reported
          /\ live["xray"] <= live["xray"]'
      BY <1>i, <2>1, <2>3 DEF ReportInv
    <3>2. cnt["xray"].reported <= xNow /\ xNow <= live["xray"]
      BY <1>i, <2>3, <3>1 DEF ReportInv
    <3>3. QED
      BY <2>1, <3>1, <3>2
  <2>4. QED
    BY <1>i, <2>2, <2>3 DEF ReportInv, NothingSent
<1>2. SettleInv'
  BY <1>i, SettleKept
<1>3. AccountInv' /\ Adrift <= Adrift'
  BY <1>1, <1>i, DriftKept
<1>4. Adrift' \in Int
  BY DriftTypeNext
<1>5. OrphanInv'
  BY <1>i, <1>3, <1>4, OrphansKept
<1>6. QED
  BY <1>1, <1>2, <1>3, <1>5

LEMMA MeterKeeps ==
  ASSUME IInv, TypeOK', NEW k \in Cores, Meter(k)
  PROVE  IInv'
<1>i. TypeOK /\ BooksInv /\ SessionInv /\ NumberInv
  BY DEF IInv
<1>1. cnt[k] \in CounterSet /\ live[k] \in Nat /\ Balanced(cnt[k], live[k])
  BY <1>i DEF TypeOK, BooksInv
<1>2. Balanced(cnt[k], live[k] + 1) /\ Owed(cnt[k], live[k] + 1) = Owed(cnt[k], live[k]) + 1
  BY <1>1, CountingOwes
<1>3. /\ cnt' = cnt /\ lost' = lost
      /\ live'[k] = live[k] + 1 /\ used'[k] = used[k] + 1
      /\ \A j \in Cores \ {k} : live'[j] = live[j] /\ used'[j] = used[j]
  BY <1>i DEF Meter, TypeOK
<1>4. BooksInv'
  BY <1>i, <1>2, <1>3 DEF BooksInv
<1>5. O(k)' = O(k) + 1 /\ \A j \in Cores \ {k} : O(j)' = O(j)
  BY <1>2, <1>3 DEF O
<1>6. Used' - O("singbox")' - O("xray")' = Used - O("singbox") - O("xray")
  BY <1>i, <1>3, <1>5, Sums, CoreTypes DEF Used, Cores
<1>7. S("singbox")' = S("singbox") /\ S("xray")' = S("xray")
  BY <1>3 DEF S
<1>8. live["xray"] <= live["xray"]' /\ Used - O("singbox") - O("xray") \in Int
  BY <1>i, <1>3, Sums, CoreTypes, TotalTypes DEF Cores
<1>9. ReportInv' /\ SettleInv' /\ OrphanInv' /\ AccountInv'
  <2>1. UNCHANGED <<epoch, seq, outbox, agreed, reportVars, hpc, conn, orphans, dbVars, resent>>
    BY DEF Meter, linkVars, netVars, serveVars
  <2>2. /\ Used - O("singbox") - O("xray") <= Used' - O("singbox")' - O("xray")'
        /\ Used' - O("singbox")' - O("xray")' - lost' = Used - O("singbox") - O("xray") - lost
    BY <1>3, <1>6, <1>8
  <2>3. cnt["xray"].gen' = cnt["xray"].gen /\ cnt["xray"].reported' = cnt["xray"].reported
    BY <1>3
  <2>4. QED
    BY <1>4, <1>7, <1>8, <2>1, <2>2, <2>3, CoresChange
<1>10. SessionInv' /\ NumberInv'
  BY <1>i, SessionKept, NumberKept DEF Meter, linkVars, netVars, serveVars, dbVars
<1>11. QED
  BY <1>4, <1>9, <1>10 DEF IInv

\* A core replaced, in any step that leaves the rest alone.
LEMMA RetireKeepsRest ==
  ASSUME IInv, TypeOK', Circumstances = {},
         NEW k \in Cores, NEW final \in LastReadings(k), Retire(k, final),
         UNCHANGED <<epoch, seq, outbox, reportVars, hpc, conn, orphans, dbVars, used, resent>>,
         agreed => agreed'
  PROVE  BooksInv' /\ ReportInv' /\ SettleInv' /\ OrphanInv' /\ AccountInv'
<1>i. TypeOK /\ BooksInv
  BY DEF IInv
<1>1. /\ BooksInv'
      /\ S("singbox")' = S("singbox") /\ S("xray")' = S("xray")
      /\ O("singbox")' + O("xray")' + lost' = O("singbox") + O("xray") + lost
      /\ lost <= lost'
  BY <1>i, RetireEffect
<1>2. \/ cnt["xray"].gen < cnt["xray"].gen'
      \/ /\ cnt["xray"].gen' = cnt["xray"].gen /\ cnt["xray"].reported' = cnt["xray"].reported
         /\ live["xray"] <= live["xray"]'
  BY <1>i, RetireEffect, CoreTypes
<1>3. Used' = Used
  BY DEF Used
<1>4. /\ Used - O("singbox") - O("xray") <= Used' - O("singbox")' - O("xray")'
      /\ Used' - O("singbox")' - O("xray")' - lost' = Used - O("singbox") - O("xray") - lost
  <2>1. /\ O("singbox") \in Nat /\ O("xray") \in Nat /\ O("singbox")' \in Nat /\ O("xray")' \in Nat
        /\ Used \in Nat /\ lost \in Int /\ lost' \in Int
    BY <1>i, <1>1, Sums, SumsNext, TotalTypes, TotalTypesNext
  <2>2. QED
    BY <1>1, <1>3, <2>1
<1>5. QED
  BY <1>1, <1>2, <1>4, CoresChange

LEMMA SameCores ==
  ASSUME IInv, TypeOK',
         UNCHANGED <<epoch, seq, outbox, reportVars, hpc, conn, orphans, dbVars, used, resent>>,
         UNCHANGED <<live, cnt, lost>>,
         agreed => agreed'
  PROVE  BooksInv' /\ ReportInv' /\ SettleInv' /\ OrphanInv' /\ AccountInv'
<1>i. TypeOK /\ BooksInv
  BY DEF IInv
<1>1. BooksInv'
  BY <1>i DEF BooksInv
<1>2. /\ S("singbox")' = S("singbox") /\ S("xray")' = S("xray")
      /\ O("singbox")' = O("singbox") /\ O("xray")' = O("xray") /\ Used' = Used
  BY DEF S, O, Used
<1>3. /\ Used - O("singbox") - O("xray") <= Used' - O("singbox")' - O("xray")'
      /\ Used' - O("singbox")' - O("xray")' - lost' = Used - O("singbox") - O("xray") - lost
  BY <1>i, <1>2, Sums, TotalTypes
<1>4. live["xray"] <= live["xray"]'
  BY <1>i, CoreTypes
<1>5. QED
  BY <1>1, <1>2, <1>3, <1>4, CoresChange

LEMMA CoreStepKeeps ==
  ASSUME IInv, TypeOK', Circumstances = {}, CoreStep
  PROVE  IInv'
<1>i. SessionInv /\ NumberInv
  BY DEF IInv
<1>1. CASE \E k \in Cores : Meter(k)
  BY <1>1, MeterKeeps
<1>2. ASSUME UNCHANGED <<linkVars, reportVars, hpc, netVars, serveVars, dbVars, used, resent, faults>>,
             \/ \E k \in Cores : \E final \in LastReadings(k) : Retire(k, final)
             \/ UNCHANGED <<live, cnt, lost>>
      PROVE  IInv'
  <2>1. UNCHANGED <<epoch, seq, outbox, agreed, conn, orphans>>
    BY <1>2 DEF linkVars, netVars, serveVars
  <2>2. BooksInv' /\ ReportInv' /\ SettleInv' /\ OrphanInv' /\ AccountInv'
    BY <1>2, <2>1, RetireKeepsRest, SameCores
  <2>3. SessionInv' /\ NumberInv'
    BY <1>i, <1>2, SessionKept, NumberKept DEF linkVars, netVars, serveVars, dbVars
  <2>4. QED
    BY <2>2, <2>3 DEF IInv
<1>3. CASE ApplySingbox
  BY <1>2, <1>3 DEF ApplySingbox, Cores
<1>4. CASE ApplyXray
  BY <1>2, <1>4 DEF ApplyXray, RestartXray, Cores
<1>5. CASE XrayExit
  BY <1>2, <1>5 DEF XrayExit, LastReadings, Cores
<1>6. CASE StartXray
  BY <1>2, <1>6 DEF StartXray, pastVars
<1>7. QED
  BY <1>1, <1>3, <1>4, <1>5, <1>6 DEF CoreStep

-----------------------------------------------------------------------------
(* Steps of the node's read loop *)

Answers == [type: {"welcome", "ok"}, epoch: {0}, id: Nat, amt: {0}]

\* Whatever is handled, the rest of the queue was in the queue.
LEMMA DownTail ==
  ASSUME TypeOK, down # << >>
  PROVE  Head(down) \in Queued(down) /\ Queued(Tail(down)) \subseteq Queued(down)
<1>1. down \in Seq(Answers)
  BY DEF TypeOK, Answers
<1>2. QED
  BY <1>1, QueuedTail

LEMMA WelcomeKeeps ==
  ASSUME IInv, TypeOK', Circumstances = {}, HandleWelcome
  PROVE  IInv'
<1>i. TypeOK /\ SessionInv /\ NumberInv
  BY DEF IInv
<1>1. UNCHANGED <<epoch, seq, outbox, reportVars, hpc, conn, orphans, dbVars, used, resent>> /\ agreed'
  BY DEF HandleWelcome, serveVars
<1>2. BooksInv' /\ ReportInv' /\ SettleInv' /\ OrphanInv' /\ AccountInv'
  <2>1. CASE RestartXray
    BY <1>1, <2>1, RetireKeepsRest DEF RestartXray, Cores
  <2>2. CASE UNCHANGED <<coreVars, lost>>
    BY <1>1, <2>2, SameCores DEF coreVars
  <2>3. QED
    BY <2>1, <2>2 DEF HandleWelcome
<1>3. Queued(down') \subseteq Queued(down) /\ Head(down) \in Queued(down) /\ Head(down) = Welcome
  BY <1>i, DownTail DEF HandleWelcome
<1>4. SessionInv'
  BY <1>i, <1>1, <1>3 DEF SessionInv, HandleWelcome, dbVars, serveVars, Queued
<1>5. NumberInv'
  BY <1>i, <1>1, <1>3 DEF NumberInv, FrameInv, Recorded, HandleWelcome, dbVars, serveVars, Queued
<1>6. QED
  BY <1>2, <1>4, <1>5 DEF IInv

LEMMA OkKeeps ==
  ASSUME IInv, TypeOK', HandleOk
  PROVE  IInv'
<1>i. TypeOK /\ BooksInv /\ SessionInv /\ ReportInv /\ SettleInv /\ NumberInv /\ OrphanInv /\ AccountInv
  BY DEF IInv
<1>1. Queued(down') \subseteq Queued(down) /\ Head(down) \in Queued(down) /\ Head(down).type = "ok"
  BY <1>i, DownTail DEF HandleOk
<1>2. Recorded(epoch, Head(down).id) /\ 1 <= Head(down).id
  BY <1>i, <1>1 DEF NumberInv
<1>3. UNCHANGED <<live, cnt, used, billed, lost, resent, epoch, seq, agreed, conn, up, hand, statsAck,
                  orphans, panel, lastEpoch, lastSeq, reportVars>>
  BY DEF HandleOk, coreVars, reportVars, serveVars, dbVars, pastVars
<1>4. SessionInv'
  BY <1>i, <1>1, <1>3 DEF SessionInv, Queued
<1>5. CASE outbox = NoReport \/ outbox.seq # Head(down).id
  <2>1. outbox' = outbox /\ hpc' = hpc
    BY <1>5 DEF HandleOk
  <2>2. BooksInv' /\ ReportInv' /\ SettleInv' /\ OrphanInv' /\ AccountInv'
    BY <1>i, <1>3, <2>1, SameCores DEF dbVars
  <2>3. NumberInv'
    BY <1>i, <1>1, <1>3, <2>1 DEF NumberInv, FrameInv, Recorded, Queued
  <2>4. QED
    BY <1>4, <2>2, <2>3 DEF IInv
<1>6. CASE outbox # NoReport /\ outbox.seq = Head(down).id
  <2>1. outbox' = NoReport /\ hpc' = "settle" /\ hpc = "read"
    BY <1>6 DEF HandleOk
  <2>2. BooksInv'
    BY <1>i, <1>3 DEF BooksInv
  <2>3. rpc = "idle" /\ rpc' = "idle"
    BY <1>i, <1>3, <1>6 DEF ReportInv, NothingSent, reportVars
  <2>4. ReportInv'
    BY <1>i, <1>3, <2>1, <2>3 DEF ReportInv, NothingSent, reportVars
  <2>5. SettleInv'
    BY <2>1, <2>3 DEF SettleInv, NothingSent
  <2>6. /\ S("singbox")' = S("singbox") /\ S("xray")' = S("xray")
        /\ O("singbox")' = O("singbox") /\ O("xray")' = O("xray") /\ Used' = Used
    BY <1>3 DEF S, O, Used
  <2>7. Held' = Held
    BY <1>2, <1>3, <1>6, <2>1, <2>3, <2>6, HeldNow, HeldNext
  <2>8. Adrift' = Adrift /\ AccountInv'
    BY <1>i, <1>3, <2>6, <2>7 DEF Adrift, AccountInv
  <2>9. \A f : FrameInv(f) => FrameInv(f)'
    BY <1>2, <1>3, <1>6 DEF FrameInv, Recorded
  <2>10. NumberInv'
    BY <1>i, <1>1, <1>3, <2>9 DEF NumberInv, Recorded, Queued
  <2>11. \A f : Bequeathed(f) => Bequeathed(f)'
    BY <1>3, <2>3, <2>8 DEF Bequeathed, Recorded
  <2>12. OrphanInv'
    BY <1>i, <1>3, <2>9, <2>11 DEF OrphanInv, Recorded
  <2>13. QED
    BY <1>4, <2>2, <2>4, <2>5, <2>8, <2>10, <2>12 DEF IInv
<1>7. QED
  BY <1>5, <1>6

LEMMA SettlesKeeps ==
  ASSUME IInv, TypeOK', HandlerSettles
  PROVE  IInv'
<1>i. TypeOK /\ BooksInv /\ SessionInv /\ ReportInv /\ SettleInv /\ NumberInv /\ OrphanInv /\ AccountInv
  BY DEF IInv
<1>1. UNCHANGED <<live, used, billed, lost, resent, epoch, seq, outbox, agreed, conn, up, down, hand,
                  statsAck, orphans, panel, lastEpoch, lastSeq, reportVars>>
  BY DEF HandlerSettles, linkVars, netVars, serveVars, dbVars, pastVars
<1>2. outbox = NoReport /\ rpc = "idle" /\ rpc' = "idle"
  BY <1>i, <1>1 DEF HandlerSettles, ReportInv, NothingSent, reportVars
<1>3. ASSUME NEW k \in Cores, Settle(k)
      PROVE  /\ Balanced(cnt'[k], live[k])
             /\ S(k)' = 0 /\ O(k)' = O(k) - S(k) /\ cnt'[k].gen = cnt[k].gen
             /\ \A j \in Cores \ {k} : cnt'[j] = cnt[j] /\ S(j)' = S(j) /\ O(j)' = O(j)
  <2>1. cnt[k] \in CounterSet /\ live[k] \in Nat /\ Balanced(cnt[k], live[k])
    BY <1>i DEF TypeOK, BooksInv
  <2>2. cnt'[k] = commit(cnt[k]) /\ \A j \in Cores \ {k} : cnt'[j] = cnt[j]
    BY <1>i, <1>3 DEF Settle, TypeOK
  <2>3. QED
    BY <1>1, <2>1, <2>2, CommitSettles DEF S, O
<1>4. SessionInv' /\ NumberInv'
  BY <1>i, <1>1, SessionKept, NumberKept
<1>5. ASSUME BooksInv', ReportInv', SettleInv', Held' = Held
      PROVE  IInv'
  <2>1. Adrift' = Adrift /\ AccountInv'
    BY <1>i, <1>1, <1>5 DEF Adrift, AccountInv, Used
  <2>2. OrphanInv'
    BY <1>i, <1>1, <1>2, <2>1, DriftType, OrphansKept
  <2>3. QED
    BY <1>4, <1>5, <2>1, <2>2 DEF IInv
<1>6. CASE hpc = "settle"
  <2>1. Settle("singbox") /\ hpc' = "settleXray"
    BY <1>6 DEF HandlerSettles
  <2>2. /\ S("singbox")' = 0 /\ O("singbox")' = O("singbox") - S("singbox")
        /\ cnt["xray"]' = cnt["xray"] /\ S("xray")' = S("xray") /\ O("xray")' = O("xray")
        /\ Balanced(cnt["singbox"]', live["singbox"])
    BY <1>3, <2>1 DEF Cores
  <2>3. BooksInv'
    BY <1>i, <1>1, <2>2 DEF BooksInv, Cores
  <2>4. ReportInv'
    BY <1>i, <1>1, <1>2, <2>1, <2>2 DEF ReportInv, NothingSent, reportVars
  <2>5. SettleInv'
    BY <1>i, <1>1, <1>2, <2>1, <2>2 DEF SettleInv, NothingSent
  <2>6. Held' = Held
    BY <1>i, <1>1, <1>2, <1>6, <2>1, <2>2, Sums, HeldNow, HeldNext
  <2>7. QED
    BY <1>5, <2>3, <2>4, <2>5, <2>6
<1>7. CASE hpc = "settleXray"
  <2>1. Settle("xray") /\ hpc' = "read"
    BY <1>7 DEF HandlerSettles
  <2>2. /\ S("xray")' = 0 /\ O("xray")' = O("xray") - S("xray") /\ cnt["xray"].gen' = cnt["xray"].gen
        /\ cnt["singbox"]' = cnt["singbox"] /\ S("singbox")' = S("singbox") /\ O("singbox")' = O("singbox")
        /\ Balanced(cnt["xray"]', live["xray"])
    BY <1>3, <2>1 DEF Cores
  <2>3. BooksInv'
    BY <1>i, <1>1, <2>2 DEF BooksInv, Cores
  <2>4. ReportInv'
    BY <1>i, <1>1, <1>2, <2>1, <2>2 DEF ReportInv, NothingSent, reportVars
  <2>5. SettleInv'
    BY <1>i, <1>1, <1>2, <1>7, <2>1, <2>2 DEF SettleInv, NothingSent
  <2>6. Held' = Held
    BY <1>i, <1>1, <1>2, <1>7, <2>1, <2>2, Sums, HeldNow, HeldNext
  <2>7. QED
    BY <1>5, <2>3, <2>4, <2>5, <2>6
<1>8. QED
  BY <1>6, <1>7 DEF HandlerSettles

-----------------------------------------------------------------------------
(* Steps of the panel *)

LEMMA QueuedTypes ==
  ASSUME TypeOK
  PROVE  /\ \A g \in Queued(up) \cup {hand} : g \in ReportFrames /\ g.id \in Nat
         /\ \A g \in Queued(down) : g \in Answers /\ g.id \in Nat
<1>1. Queued(up) \subseteq ReportFrames /\ Queued(down) \subseteq Answers /\ hand \in ReportFrames
  BY QueuedType DEF TypeOK, Answers
<1>2. (\A g \in ReportFrames : g.id \in Nat) /\ (\A g \in Answers : g.id \in Nat)
  BY DEF ReportFrames, Answers
<1>3. QED
  BY <1>1, <1>2

\* A report of this process reaches the database: it is the one waiting, or
\* recorded already.
LEMMA RecordKeeps ==
  ASSUME IInv, TypeOK', NEW f \in ReportFrames, FrameInv(f), AddTraffic(f, TRUE),
         UNCHANGED <<coreVars, linkVars, reportVars, hpc, conn, used, lost, resent>>,
         orphans' \subseteq orphans
  PROVE  /\ BooksInv' /\ ReportInv' /\ SettleInv' /\ OrphanInv' /\ AccountInv'
         /\ panel' = panel /\ lastEpoch' = epoch /\ lastSeq' <= seq /\ Recorded(epoch, f.id)'
         /\ \A i \in Nat : Recorded(epoch, i) => Recorded(epoch, i)'
         /\ \A g \in ReportFrames : FrameInv(g) => FrameInv(g)'
<1>i. TypeOK /\ BooksInv /\ ReportInv /\ SettleInv /\ NumberInv /\ OrphanInv /\ AccountInv
  BY DEF IInv
<1> USE DEF coreVars, linkVars
<1>t. f.id \in Nat /\ f.epoch \in Nat /\ f.amt \in Nat /\ lastSeq \in Nat /\ lastEpoch \in Nat
      /\ seq \in Nat /\ epoch \in Nat /\ billed \in Nat
  BY <1>i DEF ReportFrames, TypeOK
<1>1. Numbered(f, TRUE) /\ f.epoch = epoch
  BY <1>i, <1>t DEF Numbered, FrameInv, NumberInv
<1>2. panel' = panel
  BY DEF AddTraffic
<1>3. CASE Recorded(epoch, f.id)
  <2>1. billed' = billed /\ lastEpoch' = lastEpoch /\ lastSeq' = lastSeq
    BY <1>1, <1>3 DEF AddTraffic, Recorded
  <2>2. BooksInv' /\ ReportInv' /\ SettleInv'
    BY <1>i DEF BooksInv, ReportInv, NothingSent, SettleInv, S, reportVars
  <2>3. Adrift' = Adrift
    BY <2>1 DEF Adrift, Used, Held, Acknowledgeable, reportVars
  <2>4. OrphanInv'
    BY <1>i, <2>1, <2>3, DriftType, OrphansKept DEF reportVars
  <2>5. QED
    BY <1>i, <1>2, <1>3, <2>1, <2>2, <2>3, <2>4 DEF AccountInv, NumberInv, Recorded, FrameInv
<1>4. CASE ~Recorded(epoch, f.id)
  <2>1. billed' = billed + f.amt /\ lastEpoch' = epoch /\ lastSeq' = f.id
    BY <1>1, <1>4 DEF AddTraffic, Recorded
  <2>2. outbox # NoReport /\ f.id = outbox.seq /\ f.amt = outbox.amt /\ f.id <= seq /\ 1 <= seq
    BY <1>4, <1>i, <1>t DEF FrameInv, SettleInv
  <2>3. BooksInv' /\ ReportInv' /\ SettleInv'
    BY <1>i DEF BooksInv, ReportInv, NothingSent, SettleInv, S, reportVars
  <2>4. Recorded(epoch, f.id)' /\ \A i \in Nat : Recorded(epoch, i) => Recorded(epoch, i)'
    <3>1. lastEpoch = epoch => lastSeq < f.id
      BY <1>4, <1>t DEF Recorded
    <3>2. QED
      BY <2>1, <1>t, <3>1 DEF Recorded
  <2>5. rpc \notin {"settle", "settleXray"} /\ rpc' \notin {"settle", "settleXray"}
    BY <1>i DEF ReportInv, reportVars
  <2>6. /\ S("singbox")' = S("singbox") /\ S("xray")' = S("xray")
        /\ O("singbox")' = O("singbox") /\ O("xray")' = O("xray") /\ Used' = Used
    BY DEF S, O, Used
  <2>7. Held' = Held - f.amt
    <3>1. ~Recorded(epoch, outbox.seq) /\ Recorded(epoch, outbox.seq)'
      BY <1>4, <2>2, <2>4
    <3>2. S("singbox") + S("xray") = f.amt
      BY <1>i, <2>2 DEF SettleInv
    <3>3. QED
      BY <1>i, <1>t, <2>2, <2>5, <2>6, <3>1, <3>2, Sums, HeldNow, HeldNext
  <2>8. Adrift' = Adrift
    BY <1>i, <1>t, <2>1, <2>6, <2>7, HeldType, TotalTypes DEF Adrift
  <2>9. \A g \in ReportFrames : FrameInv(g) => FrameInv(g)'
    <3>1. \A g \in ReportFrames : g.id \in Nat
      BY DEF ReportFrames
    <3>2. QED
      BY <2>4, <3>1 DEF FrameInv
  <2>10. \A o \in orphans : FrameInv(o.frame)
    BY <1>i, <1>t, <2>2 DEF OrphanInv, Bequeathed
  <2>11. OrphanInv'
    <3>1. \A o \in orphans : o.frame \in ReportFrames
      BY <1>i DEF TypeOK
    <3>2. QED
      BY <1>i, <1>t, <2>9, <2>10, <3>1 DEF OrphanInv, FrameInv
  <2>12. QED
    BY <1>i, <1>2, <2>1, <2>2, <2>3, <2>4, <2>8, <2>9, <2>11 DEF AccountInv
<1>5. QED
  BY <1>3, <1>4

\* A report of an earlier process reaches the database: bytes adrift are billed
\* after all, and its namesakes are recorded with it.
LEMMA BequestKeeps ==
  ASSUME IInv, TypeOK', NEW o \in orphans, Bequeathed(o.frame), AddTraffic(o.frame, TRUE),
         UNCHANGED <<coreVars, linkVars, reportVars, hpc, netVars, hand, statsAck, used, lost, resent>>,
         orphans' \subseteq orphans
  PROVE  BooksInv' /\ ReportInv' /\ SettleInv' /\ NumberInv' /\ OrphanInv' /\ AccountInv' /\ panel' = panel
<1>i. TypeOK /\ BooksInv /\ ReportInv /\ SettleInv /\ NumberInv /\ OrphanInv /\ AccountInv
  BY DEF IInv
<1> USE DEF coreVars, linkVars, netVars
<1> DEFINE f == o.frame
<1>t. f.id \in Nat /\ f.epoch \in Nat /\ f.amt \in Nat /\ lastSeq \in Nat /\ lastEpoch \in Nat
      /\ epoch \in Nat /\ billed \in Nat
  BY <1>i DEF ReportFrames, TypeOK
<1>o. \A p \in orphans : p.frame.id \in Nat /\ p.frame.epoch \in Nat
  BY <1>i DEF ReportFrames, TypeOK
<1>1. /\ 1 <= f.epoch /\ f.epoch < epoch /\ 1 <= f.id /\ seq = 0 /\ rpc = "idle"
      /\ Recorded(f.epoch, f.id) \/ f.amt <= Adrift
  BY DEF Bequeathed
<1>2. panel' = panel /\ outbox = NoReport /\ Numbered(f, TRUE)
  BY <1>i, <1>t, <1>1 DEF AddTraffic, SettleInv, Numbered
<1>3. BooksInv' /\ ReportInv' /\ SettleInv'
  BY <1>i DEF BooksInv, ReportInv, NothingSent, SettleInv, S, reportVars
<1>4. CASE Recorded(f.epoch, f.id)
  <2>1. billed' = billed /\ lastEpoch' = lastEpoch /\ lastSeq' = lastSeq
    BY <1>2, <1>4 DEF AddTraffic, Recorded
  <2>2. Adrift' = Adrift
    BY <2>1 DEF Adrift, Used, Held, Acknowledgeable, reportVars
  <2>3. OrphanInv'
    BY <1>i, <2>1, <2>2, DriftType, OrphansKept DEF reportVars
  <2>4. NumberInv'
    BY <1>i, <2>1, NumberKept
  <2>5. QED
    BY <1>i, <1>2, <1>3, <2>2, <2>3, <2>4 DEF AccountInv
<1>5. CASE ~Recorded(f.epoch, f.id)
  <2>1. billed' = billed + f.amt /\ lastEpoch' = f.epoch /\ lastSeq' = f.id
    BY <1>2, <1>5 DEF AddTraffic, Recorded
  <2>2. Held' = Held /\ Used' = Used
    BY <1>1, <1>2 DEF Held, Acknowledgeable, Used, reportVars
  <2>3. AccountInv'
    BY <1>i, <1>t, <1>1, <1>5, <2>1, <2>2, HeldType, TotalTypes DEF AccountInv, Adrift
  <2>4. NumberInv'
    <3>1. \A g \in Queued(up) \cup {hand} : g.type # "stats"
      BY <1>i, <1>1, QueuedTypes DEF NumberInv, FrameInv
    <3>2. \A g \in Queued(down) : g.type # "ok"
      BY <1>i, <1>1, QueuedTypes DEF NumberInv
    <3>3. QED
      BY <1>i, <1>t, <1>1, <2>1, <3>1, <3>2 DEF NumberInv, Queued
  <2>5. \A p \in orphans : p.frame.epoch = f.epoch /\ Recorded(p.frame.epoch, p.frame.id)'
    <3> SUFFICES ASSUME NEW p \in orphans
                 PROVE  p.frame.epoch = f.epoch /\ Recorded(p.frame.epoch, p.frame.id)'
      OBVIOUS
    <3>1. p.frame.epoch = f.epoch
      BY <1>i DEF OrphanInv
    <3>2. CASE p.frame.id = f.id
      BY <1>t, <2>1, <3>1, <3>2 DEF Recorded
    <3>3. CASE p.frame.id # f.id
      <4>1. Recorded(p.frame.epoch, p.frame.id)
        BY <1>i, <1>1, <1>5, <3>1, <3>3 DEF OrphanInv
      <4>2. p.frame.id < f.id
        BY <1>t, <1>o, <1>5, <3>1, <4>1 DEF Recorded
      <4>3. QED
        BY <1>t, <1>o, <2>1, <3>1, <4>2 DEF Recorded
    <3>4. QED
      BY <3>2, <3>3
  <2>6. \A p \in orphans : p.statsAck /\ Bequeathed(p.frame)'
    <3>1. \A p \in orphans : p.statsAck /\ Bequeathed(p.frame)
      BY <1>i, <1>t, <1>1, <2>5 DEF OrphanInv, FrameInv
    <3>2. QED
      BY <2>5, <3>1 DEF Bequeathed, reportVars
  <2>7. OrphanInv'
    BY <2>5, <2>6 DEF OrphanInv
  <2>8. QED
    BY <1>2, <1>3, <2>3, <2>4, <2>7
<1>6. QED
  BY <1>4, <1>5

LEMMA PanelReadsKeeps ==
  ASSUME IInv, TypeOK', PanelReads
  PROVE  IInv'
<1>i. TypeOK /\ SessionInv /\ NumberInv
  BY DEF IInv
<1>1. up \in Seq(ReportFrames) /\ up # << >>
  BY <1>i DEF PanelReads, TypeOK
<1>2. hand' \in Queued(up) /\ Queued(up') \subseteq Queued(up)
  BY <1>1, QueuedTail DEF PanelReads
<1>3. UNCHANGED <<running, live, cnt, epoch, seq, outbox, agreed, rpc, ack, sbGen, xGen, xNow, sum, hpc, conn,
                  down, statsAck, orphans, panel, lastEpoch, lastSeq, billed, used, lost, resent>>
  BY DEF PanelReads, coreVars, linkVars, reportVars, dbVars, pastVars
<1>4. BooksInv' /\ ReportInv' /\ SettleInv' /\ OrphanInv' /\ AccountInv'
  BY <1>3, SameCores DEF reportVars, dbVars
<1>5. SessionInv'
  BY <1>i, <1>2, <1>3 DEF SessionInv, PanelReads, Queued
<1>6. NumberInv'
  BY <1>i, <1>2, <1>3 DEF NumberInv, FrameInv, Recorded, Queued
<1>7. QED
  BY <1>4, <1>5, <1>6 DEF IInv

LEMMA DispatchHelloKeeps ==
  ASSUME IInv, TypeOK', DispatchHello
  PROVE  IInv'
<1>i. TypeOK /\ SessionInv /\ NumberInv
  BY DEF IInv
<1>1. UNCHANGED <<running, live, cnt, epoch, seq, outbox, agreed, rpc, ack, sbGen, xGen, xNow, sum, hpc, conn,
                  up, orphans, panel, lastEpoch, lastSeq, billed, used, lost, resent>>
  BY DEF DispatchHello, coreVars, linkVars, reportVars, dbVars, pastVars
<1>2. hand' = NoFrame /\ statsAck' = TRUE /\ down' = Append(down, Welcome)
  BY <1>i DEF DispatchHello, SessionInv
<1>3. Queued(down') = Queued(down) \cup {Welcome}
  <2>1. down \in Seq(Answers) /\ Welcome \in Answers
    BY <1>i, FrameTypes DEF TypeOK, Answers
  <2>2. QED
    BY <1>2, <2>1, QueuedAppend
<1>4. BooksInv' /\ ReportInv' /\ SettleInv' /\ OrphanInv' /\ AccountInv'
  BY <1>1, SameCores DEF reportVars, dbVars
<1>5. conn
  BY <1>i DEF DispatchHello, SessionInv, NoFrame, Frame
<1>6. SessionInv'
  BY <1>i, <1>1, <1>2, <1>5 DEF SessionInv, Queued
<1>7. NumberInv'
  BY <1>i, <1>1, <1>2, <1>3 DEF NumberInv, FrameInv, Recorded, Queued, NoFrame, Welcome, Frame
<1>8. QED
  BY <1>4, <1>6, <1>7 DEF IInv

LEMMA DispatchStatsKeeps ==
  ASSUME IInv, TypeOK', DispatchStats
  PROVE  IInv'
<1>i. TypeOK /\ SessionInv /\ NumberInv
  BY DEF IInv
<1>0. PICK f \in ReportFrames : f = hand
  BY <1>i DEF TypeOK
<1>1. FrameInv(f) /\ statsAck = TRUE /\ f.id \in Nat /\ f.epoch \in Nat /\ epoch \in Nat
  BY <1>i, <1>0 DEF DispatchStats, TypeOK, SessionInv, NumberInv, ReportFrames
<1>2. Numbered(f, TRUE) /\ 1 <= f.id /\ f.id <= seq
  BY <1>i, <1>1 DEF Numbered, FrameInv, NumberInv
<1>3. /\ AddTraffic(f, TRUE)
      /\ UNCHANGED <<coreVars, linkVars, reportVars, hpc, conn, used, lost, resent>>
      /\ UNCHANGED <<epoch, seq, outbox, agreed, up, statsAck, orphans>>
      /\ hand' = NoFrame /\ down' = Append(down, Ok(f.id)) /\ orphans' \subseteq orphans
  BY <1>0, <1>1, <1>2 DEF DispatchStats, linkVars, pastVars
<1>4. /\ BooksInv' /\ ReportInv' /\ SettleInv' /\ OrphanInv' /\ AccountInv'
      /\ panel' = panel /\ lastEpoch' = epoch /\ lastSeq' <= seq /\ Recorded(epoch, f.id)'
      /\ \A i \in Nat : Recorded(epoch, i) => Recorded(epoch, i)'
      /\ \A g \in ReportFrames : FrameInv(g) => FrameInv(g)'
  BY <1>1, <1>3, RecordKeeps
<1>5. Queued(down') = Queued(down) \cup {Ok(f.id)}
  <2>1. down \in Seq(Answers) /\ Ok(f.id) \in Answers
    BY <1>i, <1>1, FrameTypes DEF TypeOK, Answers
  <2>2. QED
    BY <1>3, <2>1, QueuedAppend
<1>6. SessionInv'
  <2>1. Ok(f.id) # Welcome /\ NoFrame.type # "stats"
    BY DEF Ok, Welcome, NoFrame, Frame
  <2>2. conn
    BY <1>i DEF DispatchStats, SessionInv, NoFrame, Frame
  <2>3. QED
    BY <1>i, <1>1, <1>3, <1>4, <2>1, <2>2 DEF SessionInv, Queued
<1>7. NumberInv'
  <2>1. \A g \in (Queued(up) \cup {hand})' : g.type = "stats" => FrameInv(g)'
    BY <1>i, <1>3, <1>4, QueuedTypes DEF NumberInv, NoFrame, Frame, Queued
  <2>2. \A g \in Queued(down') : g.type = "ok" => Recorded(epoch, g.id)' /\ 1 <= g.id /\ g.id <= seq
    <3>1. Ok(f.id).id = f.id
      BY DEF Ok, Frame
    <3>2. QED
      BY <1>i, <1>2, <1>4, <1>5, <3>1, QueuedTypes DEF NumberInv
  <2>3. QED
    BY <1>i, <1>1, <1>3, <1>4, <2>1, <2>2 DEF NumberInv, Recorded
<1>8. QED
  BY <1>4, <1>6, <1>7 DEF IInv

LEMMA DispatchFailsKeeps ==
  ASSUME IInv, TypeOK', DispatchFails
  PROVE  IInv'
<1>i. TypeOK /\ SessionInv /\ NumberInv
  BY DEF IInv
<1>1. UNCHANGED <<running, live, cnt, epoch, seq, outbox, agreed, rpc, ack, sbGen, xGen, xNow, sum, hpc, conn,
                  up, down, statsAck, orphans, panel, lastEpoch, lastSeq, billed, used, lost, resent>>
  BY DEF DispatchFails, coreVars, linkVars, reportVars, netVars, dbVars
<1>2. hand' = NoFrame /\ NoFrame.type # "stats"
  BY DEF DispatchFails, NoFrame, Frame
<1>3. BooksInv' /\ ReportInv' /\ SettleInv' /\ OrphanInv' /\ AccountInv'
  BY <1>1, SameCores DEF reportVars, dbVars
<1>4. SessionInv' /\ NumberInv'
  BY <1>i, <1>1, <1>2 DEF SessionInv, NumberInv, FrameInv, Recorded, Queued
<1>5. QED
  BY <1>3, <1>4 DEF IInv

LEMMA DispatchOrphanKeeps ==
  ASSUME IInv, TypeOK', DispatchOrphan
  PROVE  IInv'
<1>i. TypeOK /\ SessionInv /\ NumberInv /\ OrphanInv
  BY DEF IInv
<1>1. PICK o \in orphans : AddTraffic(o.frame, o.statsAck) /\ orphans' = orphans \ {o}
  BY DEF DispatchOrphan
<1>2. o.statsAck = TRUE /\ (FrameInv(o.frame) \/ Bequeathed(o.frame)) /\ o.frame \in ReportFrames
  BY <1>i DEF OrphanInv, TypeOK
<1>3. AddTraffic(o.frame, TRUE) /\ orphans' \subseteq orphans
  BY <1>1, <1>2
<1>4. /\ UNCHANGED <<coreVars, linkVars, reportVars, hpc, netVars, conn, hand, statsAck, used, lost, resent>>
      /\ UNCHANGED <<epoch, seq, outbox, agreed, up, down>>
  BY DEF DispatchOrphan, pastVars, netVars, linkVars
<1>5. panel' = panel
  BY <1>3 DEF AddTraffic
<1>6. SessionInv'
  BY <1>i, <1>4, <1>5, SessionKept
<1>7. CASE FrameInv(o.frame)
  <2>1. /\ BooksInv' /\ ReportInv' /\ SettleInv' /\ OrphanInv' /\ AccountInv'
        /\ lastEpoch' = epoch /\ lastSeq' <= seq
        /\ \A i \in Nat : Recorded(epoch, i) => Recorded(epoch, i)'
        /\ \A g \in ReportFrames : FrameInv(g) => FrameInv(g)'
    BY <1>2, <1>3, <1>4, <1>7, RecordKeeps
  <2>2. epoch \in Nat
    BY <1>i DEF TypeOK
  <2>3. \A g \in (Queued(up) \cup {hand})' : g.type = "stats" => FrameInv(g)'
    BY <1>i, <1>4, <2>1, QueuedTypes DEF NumberInv, Queued
  <2>4. \A g \in Queued(down)' : g.type = "ok" => Recorded(epoch, g.id)' /\ 1 <= g.id /\ g.id <= seq
    BY <1>i, <1>4, <2>1, QueuedTypes DEF NumberInv, Queued
  <2>5. NumberInv'
    BY <1>i, <1>4, <2>1, <2>2, <2>3, <2>4 DEF NumberInv, Recorded
  <2>6. QED
    BY <1>6, <2>1, <2>5 DEF IInv
<1>8. CASE Bequeathed(o.frame)
  BY <1>3, <1>4, <1>6, <1>8, BequestKeeps DEF IInv
<1>9. QED
  BY <1>2, <1>7, <1>8

-----------------------------------------------------------------------------
(* Steps of the report goroutine *)

\* Under the expected timing a tick finds the session agreed, the read loop
\* between frames, and nothing left over from an earlier connection.
LEMMA TicksInTime ==
  ASSUME SessionInv, Circumstances = {}, Tick
  PROVE  conn /\ rpc = "idle" /\ agreed /\ statsAck /\ hpc = "read" /\ orphans = {}
BY DEF Tick, TickInTime, SessionInv

LEMMA TickReadsKeeps ==
  ASSUME IInv, TypeOK', Circumstances = {}, TickReads
  PROVE  IInv'
<1>i. TypeOK /\ BooksInv /\ SessionInv /\ ReportInv /\ SettleInv /\ NumberInv /\ OrphanInv /\ AccountInv
  BY DEF IInv
<1>1. conn /\ rpc = "idle" /\ agreed = TRUE /\ hpc = "read" /\ orphans = {} /\ outbox = NoReport
  BY <1>i, TicksInTime DEF TickReads, TypeOK
<1>2. UNCHANGED <<running, live, cnt, epoch, seq, outbox, agreed, xGen, xNow, sum, hpc, conn,
                  up, down, hand, statsAck, orphans, panel, lastEpoch, lastSeq, billed, used, lost, resent>>
      /\ rpc' = "totals" /\ ack' = agreed
  BY DEF TickReads, coreVars, linkVars, netVars, serveVars, dbVars, pastVars
<1>3. BooksInv' /\ SessionInv' /\ NumberInv'
  BY <1>i, <1>2, SessionKept, NumberKept DEF BooksInv
<1>4. ReportInv'
  BY <1>i, <1>1, <1>2 DEF ReportInv, NothingSent
<1>5. SettleInv'
  BY <1>i, <1>1, <1>2 DEF SettleInv, NothingSent, S
<1>6. Adrift' = Adrift
  BY <1>1, <1>2 DEF Adrift, Used, Held, Acknowledgeable
<1>7. OrphanInv' /\ AccountInv'
  BY <1>i, <1>1, <1>2, <1>6 DEF OrphanInv, AccountInv
<1>8. QED
  BY <1>3, <1>4, <1>5, <1>7 DEF IInv

\* A report on its way once more is the report waiting.
LEMMA TickResendsKeeps ==
  ASSUME IInv, TypeOK', Circumstances = {}, TickResends
  PROVE  IInv'
<1>i. TypeOK /\ SessionInv /\ SettleInv /\ NumberInv
  BY DEF IInv
<1>1. conn /\ statsAck /\ outbox # NoReport
  BY <1>i, TicksInTime DEF TickResends
<1>2. UNCHANGED <<running, live, cnt, epoch, seq, outbox, agreed, rpc, ack, sbGen, xGen, xNow, sum, hpc, conn,
                  down, hand, statsAck, orphans, panel, lastEpoch, lastSeq, billed, used, lost, resent>>
  BY DEF TickResends, coreVars, linkVars, reportVars, serveVars, dbVars, pastVars
<1> DEFINE f == Frame("stats", epoch, outbox.seq, outbox.amt)
<1>3. Queued(up') = Queued(up) \cup {f}
  <2>1. up \in Seq(ReportFrames) /\ f \in ReportFrames
    BY <1>i, StatsFrame DEF TypeOK
  <2>2. QED
    BY <2>1, QueuedAppend DEF TickResends
<1>4. BooksInv' /\ ReportInv' /\ SettleInv' /\ OrphanInv' /\ AccountInv'
  BY <1>2, SameCores DEF reportVars, dbVars
<1>5. SessionInv'
  BY <1>i, <1>1, <1>2 DEF SessionInv, Queued
<1>6. FrameInv(f)
  <2>1. f.epoch = epoch /\ f.id = outbox.seq /\ f.amt = outbox.amt
    BY DEF Frame
  <2>2. outbox.seq = seq /\ 1 <= seq /\ seq \in Nat
    BY <1>i, <1>1 DEF SettleInv, TypeOK
  <2>3. QED
    BY <1>1, <2>1, <2>2 DEF FrameInv
<1>7. NumberInv'
  <2>1. \A g : FrameInv(g)' <=> FrameInv(g)
    BY <1>2 DEF FrameInv, Recorded
  <2>2. \A g \in (Queued(up) \cup {hand})' : g.type = "stats" => FrameInv(g)'
    BY <1>i, <1>2, <1>3, <1>6, <2>1 DEF NumberInv
  <2>3. QED
    BY <1>i, <1>2, <2>2 DEF NumberInv, Recorded, Queued
<1>8. QED
  BY <1>4, <1>5, <1>7 DEF IInv

\* While a report is being put together nothing is settled.
LEMMA ReportUnderWay ==
  ASSUME ReportInv, rpc # "idle"
  PROVE  /\ ack /\ (conn => agreed) /\ outbox = NoReport /\ hpc = "read"
         /\ rpc \in {"totals", "singbox", "xray"}
BY DEF ReportInv, NothingSent

LEMMA XrayTotalsKeeps ==
  ASSUME IInv, TypeOK', XrayTotals
  PROVE  IInv'
<1>i. TypeOK /\ BooksInv /\ SessionInv /\ ReportInv /\ SettleInv /\ NumberInv /\ OrphanInv /\ AccountInv
  BY DEF IInv
<1>1. UNCHANGED <<running, live, cnt, epoch, seq, outbox, agreed, hpc, conn,
                  up, down, hand, statsAck, orphans, panel, lastEpoch, lastSeq, billed, used, lost, resent>>
  BY DEF XrayTotals, coreVars, linkVars, netVars, serveVars, dbVars
<1>2. rpc = "totals" /\ ack /\ (conn => agreed) /\ outbox = NoReport /\ hpc = "read" /\ sum = 0
  BY <1>i, ReportUnderWay DEF XrayTotals, ReportInv
<1>3. BooksInv' /\ SessionInv' /\ NumberInv'
  BY <1>i, <1>1, SessionKept, NumberKept DEF BooksInv
<1>4. rpc' \in {"idle", "singbox"} /\ sum' = 0 /\ (rpc' = "singbox" => ack')
  BY <1>2 DEF XrayTotals, Return
<1>5. xGen' <= cnt["xray"].gen /\ (rpc' = "singbox" /\ xNow' # NoReading => xNow' = live["xray"])
  BY <1>i, CoreTypes DEF XrayTotals, Return, NoGen
<1>6. cnt["xray"].reported <= live["xray"] /\ live["xray"] \in Nat
  BY <1>i, CoreTypes DEF BooksInv, Balanced, Cores
<1>7. ReportInv'
  BY <1>1, <1>2, <1>4, <1>5, <1>6 DEF ReportInv, NothingSent
<1>8. SettleInv'
  BY <1>i, <1>1, <1>2, <1>4 DEF SettleInv, NothingSent, S
<1>9. Adrift' = Adrift
  BY <1>1, <1>2, <1>4 DEF Adrift, Used, Held, Acknowledgeable
<1>10. AccountInv'
  BY <1>i, <1>1, <1>9 DEF AccountInv
<1>11. OrphanInv'
  BY <1>i, <1>1, <1>2, <1>9 DEF OrphanInv, FrameInv, Bequeathed, Recorded
<1>12. QED
  BY <1>3, <1>7, <1>8, <1>10, <1>11 DEF IInv

\* sing-box's reading is taken and measured at once.
LEMMA SingboxMeasures ==
  ASSUME NEW c \in CounterSet, NEW total \in Nat, Balanced(c, total), NEW gen \in Nat \cup {NoGen}
  PROVE  /\ Balanced(delta(c, gen, total), total)
         /\ Sent(delta(c, gen, total)) = Measured(c, gen, total)
         /\ Owed(delta(c, gen, total), total) = Owed(c, total)
<1>1. gen \in Int /\ total \in Reading /\ c.reported <= total /\ total <= total
  BY DEF NoGen, Reading, Balanced
<1>2. QED
  BY <1>1, DeltaMeasures

LEMMA SingboxDeltaKeeps ==
  ASSUME IInv, TypeOK', SingboxDelta
  PROVE  IInv'
<1>i. TypeOK /\ BooksInv /\ SessionInv /\ ReportInv /\ SettleInv /\ NumberInv /\ OrphanInv /\ AccountInv
  BY DEF IInv
<1>1. UNCHANGED <<running, live, epoch, seq, outbox, agreed, hpc, conn, up, down, hand, statsAck, orphans,
                  panel, lastEpoch, lastSeq, billed, used, lost, resent>>
  BY DEF SingboxDelta, linkVars, netVars, serveVars, dbVars, pastVars
<1>2. rpc = "singbox" /\ ack /\ (conn => agreed) /\ outbox = NoReport /\ hpc = "read" /\ sum = 0
      /\ S("singbox") = 0 /\ S("xray") = 0
  BY <1>i, ReportUnderWay DEF SingboxDelta, ReportInv, SettleInv, NothingSent
<1>3. SessionInv' /\ NumberInv'
  BY <1>i, <1>1, SessionKept, NumberKept
<1>4. rpc' \in {"idle", "xray"} /\ (rpc' = "xray" => ack' /\ xGen' = xGen /\ xNow' = xNow)
      /\ (rpc' = "idle" => sum' = 0 /\ xGen' = NoGen)
  BY <1>2 DEF SingboxDelta, Return
<1>5. /\ cnt["xray"]' = cnt["xray"]
      /\ Balanced(cnt["singbox"]', live["singbox"])
      /\ O("singbox")' = O("singbox")
      /\ IF rpc' = "xray" THEN S("singbox")' = sum' ELSE S("singbox")' = 0
  <2>1. cnt["singbox"] \in CounterSet /\ live["singbox"] \in Nat /\ Balanced(cnt["singbox"], live["singbox"])
        /\ cnt["singbox"].reported <= live["singbox"]
    BY <1>i, CoreTypes DEF BooksInv, Balanced, Cores
  <2>2. \/ cnt' = cnt /\ rpc' = "xray" /\ sum' = sum
        \/ cnt' = cnt /\ rpc' = "idle"
        \/ /\ cnt' = [cnt EXCEPT !["singbox"] = delta(cnt["singbox"], sbGen, live["singbox"])]
           /\ sum' = Measured(cnt["singbox"], sbGen, live["singbox"]) /\ rpc' = "xray"
    BY DEF SingboxDelta, Return
  <2>3. CASE cnt' = cnt /\ ((rpc' = "xray" /\ sum' = sum) \/ rpc' = "idle")
    BY <1>1, <1>2, <2>1, <2>3 DEF S, O
  <2>4. CASE /\ cnt' = [cnt EXCEPT !["singbox"] = delta(cnt["singbox"], sbGen, live["singbox"])]
             /\ sum' = Measured(cnt["singbox"], sbGen, live["singbox"]) /\ rpc' = "xray"
    <3>1. cnt'["xray"] = cnt["xray"]
          /\ cnt'["singbox"] = delta(cnt["singbox"], sbGen, live["singbox"])
      BY <1>i, <2>4 DEF TypeOK, Cores
    <3>2. sbGen \in Nat \cup {NoGen}
      BY <1>i DEF TypeOK
    <3>3. /\ Balanced(delta(cnt["singbox"], sbGen, live["singbox"]), live["singbox"])
          /\ Sent(delta(cnt["singbox"], sbGen, live["singbox"])) = Measured(cnt["singbox"], sbGen, live["singbox"])
          /\ Owed(delta(cnt["singbox"], sbGen, live["singbox"]), live["singbox"]) = Owed(cnt["singbox"], live["singbox"])
      BY <2>1, <3>2, SingboxMeasures
    <3>4. QED
      BY <1>1, <2>4, <3>1, <3>3 DEF S, O
  <2>5. QED
    BY <2>2, <2>3, <2>4
<1>6. S("xray")' = S("xray") /\ O("xray")' = O("xray")
  BY <1>1, <1>5 DEF S, O
<1>7. BooksInv'
  BY <1>i, <1>1, <1>5 DEF BooksInv, Cores
<1>8. ReportInv'
  BY <1>i, <1>1, <1>2, <1>4, <1>5, CoreTypes DEF ReportInv, NothingSent, NoGen
<1>9. SettleInv'
  BY <1>1, <1>2, <1>4, <1>5, <1>6 DEF SettleInv, NothingSent
<1>10. Held' = Held
  BY <1>1, <1>2, <1>4, <1>5, <1>6, HeldNow, HeldNext
<1>11. Adrift' = Adrift /\ AccountInv'
  BY <1>i, <1>1, <1>10 DEF AccountInv, Adrift, Used
<1>12. OrphanInv'
  BY <1>i, <1>1, <1>2, <1>11 DEF OrphanInv, FrameInv, Bequeathed, Recorded
<1>13. QED
  BY <1>3, <1>7, <1>8, <1>9, <1>11, <1>12 DEF IInv

\* The report is complete: its acknowledgement will settle what it holds.
LEMMA XrayDeltaKeeps ==
  ASSUME IInv, TypeOK', XrayDelta
  PROVE  IInv'
<1>i. TypeOK /\ BooksInv /\ SessionInv /\ ReportInv /\ SettleInv /\ NumberInv /\ OrphanInv /\ AccountInv
  BY DEF IInv
<1> DEFINE x == cnt["xray"]
           share == IF xGen = NoGen THEN 0 ELSE Measured(x, xGen, xNow)
           amount == sum + share
           f == Frame("stats", epoch, seq + 1, amount)
<1>1. rpc = "xray" /\ ack /\ (conn => agreed) /\ outbox = NoReport /\ hpc = "read" /\ S("singbox") = sum
  BY <1>i, ReportUnderWay DEF XrayDelta, SettleInv
<1>2. /\ cnt' = [cnt EXCEPT !["xray"] = IF xGen = NoGen THEN skip(x) ELSE delta(x, xGen, xNow)]
      /\ seq' = seq + 1 /\ outbox' = [seq |-> seq + 1, amt |-> amount]
      /\ up' = IF conn THEN Append(up, f) ELSE up
      /\ rpc' = "idle" /\ xGen' = NoGen /\ sum' = 0
  BY <1>1 DEF XrayDelta, Return
<1>3. UNCHANGED <<running, live, epoch, agreed, hpc, conn, down, hand, statsAck, orphans,
                  panel, lastEpoch, lastSeq, billed, used, lost, resent>>
  BY DEF XrayDelta, serveVars, dbVars, pastVars
<1>4. /\ x \in CounterSet /\ live["xray"] \in Nat /\ Balanced(x, live["xray"]) /\ sum \in Nat
      /\ xGen \in Nat \cup {NoGen} /\ xNow \in Reading /\ seq \in Nat /\ epoch \in Nat
  BY <1>i, CoreTypes DEF BooksInv, Cores, TypeOK
<1>5. xGen = x.gen /\ xNow # NoReading => x.reported <= xNow /\ xNow <= live["xray"]
  BY <1>i, <1>1 DEF ReportInv
<1>6. /\ cnt'["singbox"] = cnt["singbox"]
      /\ Balanced(cnt'["xray"], live["xray"]) /\ Sent(cnt'["xray"]) = share /\ share \in Nat
      /\ Owed(cnt'["xray"], live["xray"]) = Owed(x, live["xray"])
      /\ cnt'["xray"].gen = x.gen
  <2>1. /\ cnt'["singbox"] = cnt["singbox"]
        /\ cnt'["xray"] = IF xGen = NoGen THEN skip(x) ELSE delta(x, xGen, xNow)
    BY <1>i, <1>2 DEF TypeOK, Cores
  <2>2. CASE xGen = NoGen
    BY <1>4, <2>1, <2>2, SkipSettlesNothing
  <2>3. CASE xGen # NoGen
    <3>1. xGen \in Int
      BY <1>4 DEF NoGen
    <3>2. /\ Balanced(delta(x, xGen, xNow), live["xray"]) /\ Measured(x, xGen, xNow) \in Nat
          /\ Sent(delta(x, xGen, xNow)) = Measured(x, xGen, xNow)
          /\ Owed(delta(x, xGen, xNow), live["xray"]) = Owed(x, live["xray"])
          /\ delta(x, xGen, xNow).gen = x.gen
      BY <1>4, <1>5, <3>1, DeltaMeasures
    <3>3. QED
      BY <2>1, <2>3, <3>2
  <2>4. QED
    BY <2>2, <2>3
<1>7. /\ S("singbox")' = sum /\ S("xray")' = share /\ amount \in Nat
      /\ O("singbox")' = O("singbox") /\ O("xray")' = O("xray")
  BY <1>1, <1>3, <1>4, <1>6 DEF S, O
<1>8. outbox' # NoReport /\ outbox'.seq = seq + 1 /\ outbox'.amt = amount
  BY <1>2, <1>4 DEF NoReport
<1>9. BooksInv'
  BY <1>i, <1>3, <1>6 DEF BooksInv, Cores
<1>10. ReportInv'
  BY <1>i, <1>1, <1>2, <1>3, <1>4, <1>6, CoreTypes DEF ReportInv, NothingSent, NoGen
<1>11. SettleInv'
  BY <1>1, <1>2, <1>3, <1>4, <1>7, <1>8 DEF SettleInv, NothingSent
<1>12. f \in ReportFrames /\ (conn => Queued(up') = Queued(up) \cup {f})
  <2>1. up \in Seq(ReportFrames) /\ f \in ReportFrames
    <3>1. seq + 1 \in Nat
      BY <1>4
    <3>2. QED
      BY <1>i, <1>4, <1>7, <3>1, StatsFrame DEF TypeOK
  <2>2. QED
    BY <1>2, <2>1, QueuedAppend
<1>13. SessionInv'
  <2>1. CASE conn
    BY <1>i, <1>1, <1>3, <1>12, <2>1 DEF SessionInv
  <2>2. CASE ~conn
    BY <1>i, <1>2, <1>3, <2>2 DEF SessionInv
  <2>3. QED
    BY <2>1, <2>2
<1>14. \A g \in ReportFrames : FrameInv(g) => FrameInv(g)'
  <2>1. \A g \in ReportFrames : g.id \in Nat
    BY DEF ReportFrames
  <2>2. QED
    BY <1>1, <1>2, <1>3, <1>4, <2>1 DEF FrameInv, Recorded
<1>15. NumberInv'
  <2>1. PICK g \in ReportFrames : g = f
    BY <1>12
  <2>2. FrameInv(g)'
    <3>1. g.epoch = epoch /\ g.id = seq + 1 /\ g.amt = amount
      BY <2>1 DEF Frame
    <3>2. QED
      BY <1>2, <1>3, <1>4, <1>8, <3>1 DEF FrameInv
  <2>3. Queued(up') \subseteq Queued(up) \cup {g}
    BY <1>2, <1>12, <2>1
  <2>4. \A h \in (Queued(up) \cup {hand})' : h.type = "stats" => FrameInv(h)'
    BY <1>i, <1>3, <1>14, <2>2, <2>3, QueuedTypes DEF NumberInv
  <2>5. \A h \in Queued(down') : h.type = "ok" => Recorded(epoch, h.id)' /\ 1 <= h.id /\ h.id <= seq'
    BY <1>i, <1>2, <1>3, <1>4, QueuedTypes DEF NumberInv, Recorded
  <2>6. lastEpoch' = epoch' => lastSeq' <= seq'
    BY <1>i, <1>2, <1>3, <1>4 DEF NumberInv, TypeOK
  <2>7. QED
    BY <1>i, <1>3, <2>4, <2>5, <2>6 DEF NumberInv
<1>16. Held' = Held
  <2>1. ~Recorded(epoch, outbox.seq)'
    BY <1>i, <1>3, <1>4, <1>8 DEF NumberInv, Recorded, TypeOK
  <2>2. QED
    BY <1>1, <1>2, <1>3, <1>7, <1>8, <2>1, HeldNow, HeldNext
<1>17. Adrift' = Adrift /\ AccountInv'
  BY <1>i, <1>3, <1>16 DEF AccountInv, Adrift, Used
<1>18. OrphanInv'
  <2>1. \A o \in orphans : o.statsAck /\ FrameInv(o.frame) /\ o.frame \in ReportFrames
    BY <1>i, <1>1 DEF OrphanInv, Bequeathed, TypeOK
  <2>2. QED
    BY <1>i, <1>3, <1>4, <1>14, <2>1 DEF OrphanInv, FrameInv
<1>19. QED
  BY <1>9, <1>10, <1>11, <1>13, <1>15, <1>17, <1>18 DEF IInv

\* The old protocol is not spoken to a panel that numbers reports.
LEMMA ReportStepKeeps ==
  ASSUME IInv, TypeOK', Circumstances = {}, ReportStep
  PROVE  IInv'
<1>i. SessionInv /\ ReportInv
  BY DEF IInv
<1>1. CASE TickSendsOldWay
  BY <1>i, <1>1, TicksInTime DEF TickSendsOldWay
<1>2. CASE WriteUnnumbered \/ ReportSettles
  BY <1>i, <1>2 DEF WriteUnnumbered, ReportSettles, ReportInv
<1>3. QED
  BY <1>1, <1>2, TickReadsKeeps, TickResendsKeeps, XrayTotalsKeeps, SingboxDeltaKeeps, XrayDeltaKeeps
  DEF ReportStep

-----------------------------------------------------------------------------
(* Connections and processes *)

\* What the panel holds of a connection that ends is a report like any other.
LEMMA Orphaned ==
  ASSUME IInv, Disconnect
  PROVE  /\ \A o \in orphans' : /\ o.statsAck /\ o.frame \in ReportFrames
                                /\ FrameInv(o.frame) \/ Bequeathed(o.frame)
         /\ \A o, p \in orphans' :
              /\ o.frame.epoch = p.frame.epoch
              /\ o.frame.epoch < epoch /\ o.frame.id # p.frame.id =>
                   Recorded(o.frame.epoch, o.frame.id) \/ Recorded(p.frame.epoch, p.frame.id)
<1>i. TypeOK /\ SessionInv /\ NumberInv /\ OrphanInv
  BY DEF IInv
<1>1. \A o \in orphans : o.statsAck /\ o.frame \in ReportFrames /\ (FrameInv(o.frame) \/ Bequeathed(o.frame))
  BY <1>i DEF OrphanInv, TypeOK
<1>2. CASE hand.type # "stats"
  BY <1>i, <1>1, <1>2 DEF Disconnect, OrphanInv
<1>3. CASE hand.type = "stats"
  <2> DEFINE new == [frame |-> hand, statsAck |-> statsAck]
  <2>1. orphans' = orphans \cup {new}
    BY <1>3 DEF Disconnect
  <2>2. statsAck /\ FrameInv(hand) /\ hand \in ReportFrames
    BY <1>i, <1>3 DEF SessionInv, NumberInv, TypeOK
  <2>3. epoch \in Nat /\ seq \in Nat /\ hand.id \in Nat /\ 1 <= seq
    BY <1>i, <2>2 DEF FrameInv, TypeOK, ReportFrames
  <2>4. \A o \in orphans' : o.statsAck /\ o.frame \in ReportFrames /\ FrameInv(o.frame)
    BY <1>1, <2>1, <2>2, <2>3 DEF Bequeathed
  <2>5. \A o \in orphans' : o.frame.epoch = epoch
    BY <2>4 DEF FrameInv
  <2>6. QED
    BY <2>3, <2>4, <2>5
<1>4. QED
  BY <1>2, <1>3

LEMMA Emptied ==
  ASSUME up' = << >>, down' = << >>, hand' = NoFrame
  PROVE  /\ \A g \in (Queued(up) \cup {hand})' : g.type # "stats"
         /\ \A g : g \notin Queued(down)'
<1>1. (Queued(up) \cup {hand})' = {NoFrame} /\ Queued(down)' = {}
  BY QueuedEmpty
<1>2. QED
  BY <1>1 DEF NoFrame, Frame

LEMMA DropKeeps ==
  ASSUME IInv, TypeOK', Drop
  PROVE  IInv'
<1>i. TypeOK /\ BooksInv /\ SessionInv /\ ReportInv /\ SettleInv /\ NumberInv /\ AccountInv
  BY DEF IInv
<1>1. UNCHANGED <<running, live, cnt, epoch, seq, outbox, agreed, rpc, ack, sbGen, xGen, xNow, sum, hpc,
                  panel, lastEpoch, lastSeq, billed, used, lost, resent>>
  BY DEF Drop, coreVars, linkVars, reportVars, dbVars
<1>2. Disconnect /\ conn' = FALSE /\ up' = << >> /\ down' = << >> /\ hand' = NoFrame
  BY DEF Drop, Disconnect
<1>3. BooksInv' /\ ReportInv' /\ SettleInv'
  BY <1>i, <1>1, <1>2 DEF BooksInv, ReportInv, NothingSent, SettleInv, S
<1>4. Adrift' = Adrift /\ AccountInv'
  BY <1>i, <1>1 DEF AccountInv, Adrift, Used, Held, Acknowledgeable
<1>5. SessionInv'
  BY <1>i, <1>1, <1>2, Emptied DEF SessionInv
<1>6. NumberInv'
  BY <1>i, <1>1, <1>2, Emptied DEF NumberInv
<1>7. OrphanInv'
  BY <1>1, <1>2, <1>4, Orphaned DEF OrphanInv, FrameInv, Bequeathed, Recorded
<1>8. QED
  BY <1>3, <1>4, <1>5, <1>6, <1>7 DEF IInv

LEMMA ConnectKeeps ==
  ASSUME IInv, TypeOK', Connect
  PROVE  IInv'
<1>i. TypeOK /\ BooksInv /\ SessionInv /\ ReportInv /\ SettleInv /\ NumberInv /\ OrphanInv /\ AccountInv
  BY DEF IInv
<1>1. UNCHANGED <<running, live, cnt, epoch, seq, outbox, rpc, ack, sbGen, xGen, xNow, sum, hpc, down, hand,
                  statsAck, orphans, panel, lastEpoch, lastSeq, billed, used, lost, resent>>
  BY DEF Connect, coreVars, reportVars, serveVars, dbVars, pastVars
<1>2. /\ conn' = TRUE /\ agreed' = FALSE /\ up' = <<Hello>> /\ rpc = "idle"
      /\ down = << >> /\ hand = NoFrame
  BY <1>i DEF Connect, SessionInv
<1>3. Queued(up') = {Hello}
  BY <1>2, QueuedOne, FrameTypes
<1>4. /\ \A g \in (Queued(up) \cup {hand})' : g.type # "stats"
      /\ \A g : g \notin Queued(down)'
  BY <1>1, <1>2, <1>3, QueuedEmpty DEF Hello, NoFrame, Frame
<1>5. BooksInv' /\ ReportInv' /\ SettleInv'
  BY <1>i, <1>1, <1>2 DEF BooksInv, ReportInv, NothingSent, SettleInv, S
<1>6. Adrift' = Adrift /\ AccountInv'
  BY <1>i, <1>1 DEF AccountInv, Adrift, Used, Held, Acknowledgeable
<1>7. SessionInv'
  BY <1>i, <1>1, <1>2, <1>4 DEF SessionInv
<1>8. NumberInv'
  BY <1>i, <1>1, <1>4 DEF NumberInv
<1>9. OrphanInv'
  BY <1>i, <1>1, <1>6, DriftType, OrphansKept
<1>10. QED
  BY <1>5, <1>6, <1>7, <1>8, <1>9 DEF IInv

LEMMA PanelRestartKeeps ==
  ASSUME IInv, TypeOK', Circumstances = {}, PanelRestart
  PROVE  IInv'
<1>i. TypeOK /\ BooksInv /\ SessionInv /\ ReportInv /\ SettleInv /\ NumberInv /\ AccountInv
  BY DEF IInv
<1>1. UNCHANGED <<running, live, cnt, epoch, seq, outbox, agreed, rpc, ack, sbGen, xGen, xNow, sum, hpc,
                  lastEpoch, lastSeq, billed, used, lost, resent>>
  BY DEF PanelRestart, coreVars, linkVars, reportVars
<1>2. conn' = FALSE /\ up' = << >> /\ down' = << >> /\ hand' = NoFrame /\ orphans' = {} /\ panel' = "current"
  BY <1>i DEF PanelRestart, SessionInv
<1>3. BooksInv' /\ ReportInv' /\ SettleInv'
  BY <1>i, <1>1, <1>2 DEF BooksInv, ReportInv, NothingSent, SettleInv, S
<1>4. AccountInv'
  BY <1>i, <1>1 DEF AccountInv, Adrift, Used, Held, Acknowledgeable
<1>5. SessionInv' /\ NumberInv' /\ OrphanInv'
  BY <1>i, <1>1, <1>2, Emptied DEF SessionInv, NumberInv, OrphanInv
<1>6. QED
  BY <1>3, <1>4, <1>5 DEF IInv

\* What a process held goes adrift with it; a report of it still on its way is
\* part of that.
LEMMA NodeCrashKeeps ==
  ASSUME IInv, TypeOK', NodeCrash
  PROVE  IInv'
<1>i. TypeOK /\ BooksInv /\ SessionInv /\ ReportInv /\ SettleInv /\ NumberInv /\ AccountInv
  BY DEF IInv
<1>1. /\ epoch' = epoch + 1 /\ seq' = 0 /\ outbox' = NoReport /\ hpc' = "read"
      /\ cnt' = [k \in Cores |-> newCounters] /\ live' = [k \in Cores |-> 0] /\ lost' = lost + Held
      /\ UNCHANGED <<panel, lastEpoch, lastSeq, billed, used, resent>>
      /\ Disconnect /\ Return
  BY DEF NodeCrash, dbVars
<1>2. conn' = FALSE /\ up' = << >> /\ down' = << >> /\ hand' = NoFrame
      /\ rpc' = "idle" /\ sum' = 0 /\ xGen' = NoGen
  BY <1>1 DEF Disconnect, Return
<1>3. /\ cnt'["singbox"] = newCounters /\ cnt'["xray"] = newCounters
      /\ live'["singbox"] = 0 /\ live'["xray"] = 0
  BY <1>1 DEF Cores
<1>4. BooksInv'
  BY <1>3, NewBooks DEF BooksInv, Cores
<1>5. S("singbox")' = 0 /\ S("xray")' = 0 /\ O("singbox")' = 0 /\ O("xray")' = 0
  BY <1>3, NewBooks DEF S, O
<1>6. ReportInv'
  <2>1. cnt'["xray"].gen = 0
    BY <1>3 DEF newCounters, Books
  <2>2. QED
    BY <1>1, <1>2, <2>1 DEF ReportInv, NothingSent, NoGen
<1>7. SettleInv'
  BY <1>1, <1>2, <1>5 DEF SettleInv, NothingSent
<1>8. Held' = 0
  BY <1>1, <1>2, <1>5, HeldNext
<1>9. Held \in Nat /\ (outbox # NoReport /\ ~Recorded(epoch, outbox.seq) => outbox.amt <= Held)
  <2>1. rpc \notin {"settle", "settleXray"}
    BY <1>i DEF ReportInv
  <2>2. outbox # NoReport => S("singbox") + S("xray") = outbox.amt
    BY <1>i DEF SettleInv
  <2>3. QED
    BY <1>i, <2>1, <2>2, HeldNow, Sums
<1>10. Adrift' = Adrift + Held /\ AccountInv'
  BY <1>i, <1>1, <1>8, <1>9, TotalTypes DEF AccountInv, Adrift, Used
<1>11. SessionInv'
  BY <1>i, <1>1, <1>2, Emptied DEF SessionInv
<1>t. epoch \in Nat /\ lastEpoch \in Nat /\ Adrift \in Int
  BY <1>i, DriftType DEF TypeOK
<1>12. NumberInv'
  BY <1>i, <1>t, <1>1, <1>2, Emptied DEF NumberInv
<1>13. OrphanInv'
  <2>1. \A e, j : Recorded(e, j)' = Recorded(e, j)
    BY <1>1 DEF Recorded
  <2>2. ASSUME NEW o \in orphans'
        PROVE  o.statsAck /\ Bequeathed(o.frame)'
    <3>1. o.statsAck /\ o.frame \in ReportFrames /\ (FrameInv(o.frame) \/ Bequeathed(o.frame))
      BY <1>1, Orphaned
    <3>2. o.frame.epoch \in Nat /\ o.frame.id \in Nat /\ o.frame.amt \in Nat
      BY <3>1 DEF ReportFrames
    <3>3. CASE FrameInv(o.frame)
      <4>1. Recorded(o.frame.epoch, o.frame.id) \/ o.frame.amt <= Held
        BY <1>9, <3>3 DEF FrameInv
      <4>2. 0 <= Adrift /\ 1 <= o.frame.epoch /\ o.frame.epoch = epoch /\ 1 <= o.frame.id
        BY <1>i, <3>3 DEF AccountInv, NumberInv, FrameInv
      <4>3. QED
        BY <1>1, <1>2, <1>t, <1>9, <1>10, <2>1, <3>1, <3>2, <4>1, <4>2 DEF Bequeathed
    <3>4. CASE Bequeathed(o.frame)
      BY <1>1, <1>2, <1>t, <1>9, <1>10, <2>1, <3>1, <3>2, <3>4 DEF Bequeathed
    <3>5. QED
      BY <3>1, <3>3, <3>4
  <2>3. ASSUME NEW o \in orphans', NEW p \in orphans'
        PROVE  /\ o.frame.epoch = p.frame.epoch
               /\ o.frame.id # p.frame.id =>
                    Recorded(o.frame.epoch, o.frame.id) \/ Recorded(p.frame.epoch, p.frame.id)
    <3>1. /\ FrameInv(o.frame) \/ Bequeathed(o.frame)
          /\ FrameInv(p.frame) \/ Bequeathed(p.frame)
          /\ o.frame.epoch = p.frame.epoch
          /\ o.frame.epoch < epoch /\ o.frame.id # p.frame.id =>
               Recorded(o.frame.epoch, o.frame.id) \/ Recorded(p.frame.epoch, p.frame.id)
      BY <1>1, Orphaned
    <3>2. CASE FrameInv(o.frame) /\ FrameInv(p.frame)
      BY <3>1, <3>2 DEF FrameInv
    <3>3. CASE o.frame.epoch < epoch
      BY <3>1, <3>3
    <3>4. QED
      BY <3>1, <3>2, <3>3 DEF Bequeathed
  <2>4. QED
    BY <2>1, <2>2, <2>3 DEF OrphanInv
<1>14. QED
  BY <1>4, <1>6, <1>7, <1>10, <1>11, <1>12, <1>13 DEF IInv

-----------------------------------------------------------------------------
(* The invariant *)

LEMMA InitKeeps ==
  ASSUME Circumstances = {}, Init
  PROVE  IInv
<1>1. TypeOK
  BY InitTypes
<1>2. /\ cnt["singbox"] = newCounters /\ cnt["xray"] = newCounters
      /\ live["singbox"] = 0 /\ live["xray"] = 0 /\ used["singbox"] = 0 /\ used["xray"] = 0
  BY DEF Init, Cores
<1>3. BooksInv
  BY <1>2, NewBooks DEF BooksInv, Cores
<1>4. S("singbox") = 0 /\ S("xray") = 0 /\ O("singbox") = 0 /\ O("xray") = 0
  BY <1>2, NewBooks DEF S, O
<1>5. Queued(up) = {} /\ Queued(down) = {} /\ hand.type # "stats"
  BY QueuedEmpty DEF Init, NoFrame, Frame
<1>6. panel = "current"
  BY DEF Init
<1>7. SessionInv
  BY <1>5, <1>6 DEF Init, SessionInv
<1>8. ReportInv
  <2>1. cnt["xray"].gen = 0
    BY <1>2 DEF newCounters, Books
  <2>2. QED
    BY <2>1 DEF Init, ReportInv, NothingSent, NoGen
<1>9. SettleInv
  BY <1>4 DEF Init, SettleInv, NothingSent
<1>10. NumberInv
  BY <1>5 DEF Init, NumberInv
<1>11. OrphanInv
  BY DEF Init, OrphanInv
<1>12. AccountInv
  <2>1. Held = 0
    BY <1>1, <1>4, HeldNow DEF Init
  <2>2. QED
    BY <1>2, <2>1 DEF Init, AccountInv, Adrift, Used
<1>13. QED
  BY <1>1, <1>3, <1>7, <1>8, <1>9, <1>10, <1>11, <1>12 DEF IInv

LEMMA NextKeeps ==
  ASSUME Circumstances = {}, IInv, [Next]_vars
  PROVE  IInv'
<1>1. TypeOK'
  BY NextTypes DEF IInv
<1>2. CASE CoreStep
  BY <1>1, <1>2, CoreStepKeeps
<1>3. CASE ReportStep
  BY <1>1, <1>3, ReportStepKeeps
<1>4. CASE HandlerStep
  BY <1>1, <1>4, WelcomeKeeps, OkKeeps, SettlesKeeps DEF HandlerStep
<1>5. CASE PanelStep
  BY <1>1, <1>5, PanelReadsKeeps, DispatchHelloKeeps, DispatchStatsKeeps, DispatchFailsKeeps,
     DispatchOrphanKeeps DEF PanelStep
<1>6. CASE Drop \/ Connect \/ PanelRestart \/ NodeCrash
  BY <1>1, <1>6, DropKeeps, ConnectKeeps, PanelRestartKeeps, NodeCrashKeeps
<1>7. CASE UNCHANGED vars
  <2>1. UNCHANGED <<running, live, cnt, epoch, seq, outbox, agreed, rpc, ack, sbGen, xGen, xNow, sum, hpc,
                    conn, up, down, hand, statsAck, orphans, panel, lastEpoch, lastSeq, billed,
                    used, lost, resent>>
    BY <1>7 DEF vars, coreVars, linkVars, reportVars, netVars, serveVars, dbVars, pastVars
  <2>2. BooksInv' /\ SettleInv' /\ ReportInv'
    BY <2>1 DEF IInv, BooksInv, SettleInv, ReportInv, S, NothingSent
  <2>3. SessionInv' /\ NumberInv'
    BY <2>1 DEF IInv, SessionInv, NumberInv, FrameInv, Recorded, Queued
  <2>4. Adrift' = Adrift /\ AccountInv'
    BY <2>1 DEF IInv, AccountInv, Adrift, Used, Held, Acknowledgeable
  <2>5. OrphanInv'
    BY <2>1, <2>4 DEF IInv, OrphanInv, FrameInv, Bequeathed, Recorded
  <2>6. QED
    BY <1>1, <2>2, <2>3, <2>4, <2>5 DEF IInv
<1>8. QED
  BY <1>2, <1>3, <1>4, <1>5, <1>6, <1>7 DEF Next

\* Under the expected timing the books, the session, the report, its frames
\* and the account stay in agreement.
THEOREM Inductive ==
  ASSUME Circumstances = {}
  PROVE  Spec => []IInv
<1>1. Init => IInv
  BY InitKeeps
<1>2. IInv /\ [Next]_vars => IInv'
  BY NextKeeps
<1>3. QED
  BY <1>1, <1>2, PTL DEF Spec

-----------------------------------------------------------------------------
(* What it gives *)

LEMMA HeldIsNat == IInv => Held \in Nat
<1> SUFFICES ASSUME IInv
             PROVE  Held \in Nat
  OBVIOUS
<1>1. rpc \notin {"settle", "settleXray"} /\ TypeOK /\ BooksInv
  BY DEF IInv, ReportInv
<1>2. outbox # NoReport => S("singbox") + S("xray") = outbox.amt
  BY DEF IInv, SettleInv
<1>3. QED
  BY <1>1, <1>2, HeldNow, Sums

LEMMA AccountTypes == IInv => Held \in Nat /\ Used \in Nat /\ billed \in Nat /\ lost \in Int
BY HeldIsNat, TotalTypes DEF IInv, TypeOK

\* No byte is billed twice: the panel's record of the last report of an epoch
\* stops every repeat, whatever was dropped, resent, restarted or replaced
\* between the report and its ok.
THEOREM BilledOnce ==
  ASSUME Circumstances = {}
  PROVE  Spec => []AtMostOnce
<1>1. IInv => AtMostOnce
  BY AccountTypes DEF IInv, AccountInv, Adrift, AtMostOnce
<1>2. QED
  BY <1>1, Inductive, PTL

\* No byte is forgotten: what was carried is billed, still owed by the node, or
\* went with a core or a process before any reading of it.
THEOREM NothingForgotten ==
  ASSUME Circumstances = {}
  PROVE  Spec => []NothingLost
<1>1. IInv => NothingLost
  BY AccountTypes DEF IInv, AccountInv, Adrift, NothingLost
<1>2. QED
  BY <1>1, Inductive, PTL

\* What the books would settle on an ok is what the report waiting for that ok
\* carries, also when either core was replaced after it was measured.
THEOREM SettlesTheReport ==
  ASSUME Circumstances = {}
  PROVE  Spec => []SettlesWhatWasSent
<1>1. IInv => SettlesWhatWasSent
  BY DEF IInv, SettleInv, ReportInv, SettlesWhatWasSent, S
<1>2. QED
  BY <1>1, Inductive, PTL

\* Billing never passes what the cores counted.
BilledWithin == billed <= Used

\* Of the two dispatches of a report, each bills nothing or what it carries.
LEMMA Bills ==
  ASSUME TypeOK, TypeOK', DispatchStats \/ DispatchOrphan
  PROVE  UNCHANGED used /\ billed <= billed'
<1>1. UNCHANGED used
  BY DEF DispatchStats, DispatchOrphan, pastVars
<1>2. PICK f \in ReportFrames, offered \in BOOLEAN : AddTraffic(f, offered)
  BY DEF TypeOK, DispatchStats, DispatchOrphan
<1>3. f.amt \in Nat /\ billed \in Nat
  BY DEF ReportFrames, TypeOK
<1>4. QED
  BY <1>1, <1>2, <1>3 DEF AddTraffic

LEMMA LedgerStep ==
  ASSUME TypeOK, TypeOK', BilledWithin', [Next]_vars
  PROVE  [Abstract!Next]_<<Used, billed>>
<1>1. CASE \E k \in Cores : Meter(k)
  <2>1. PICK k \in Cores : Meter(k)
    BY <1>1
  <2>2. used' = [used EXCEPT ![k] = @ + 1] /\ UNCHANGED billed
    BY <2>1 DEF Meter, dbVars
  <2>3. used \in [Cores -> Nat]
    BY DEF TypeOK
  <2>4. Used' = Used + 1
    BY <2>2, <2>3 DEF Used, Cores
  <2>5. QED
    BY <2>2, <2>4 DEF Abstract!Next, Abstract!Meter
<1>2. CASE DispatchStats \/ DispatchOrphan
  <2>1. Used' = Used /\ billed <= billed'
    BY <1>2, Bills DEF Used
  <2>2. billed \in Nat /\ billed' \in Nat
    BY DEF TypeOK
  <2>3. QED
    BY <2>1, <2>2 DEF BilledWithin, Abstract!Next, Abstract!Bill
<1>3. CASE UNCHANGED <<used, billed>>
  BY <1>3 DEF Used
<1>4. QED
  <2>1. ApplySingbox \/ ApplyXray \/ XrayExit \/ StartXray => UNCHANGED <<used, billed>>
    BY DEF ApplySingbox, ApplyXray, XrayExit, StartXray, dbVars, pastVars
  <2>2. ReportStep => UNCHANGED <<used, billed>>
    BY DEF ReportStep, TickReads, TickResends, TickSendsOldWay, XrayTotals, SingboxDelta, XrayDelta,
       WriteUnnumbered, ReportSettles, dbVars, pastVars
  <2>3. HandlerStep => UNCHANGED <<used, billed>>
    BY DEF HandlerStep, HandleWelcome, HandleOk, HandlerSettles, dbVars, pastVars
  <2>4. PanelReads \/ DispatchHello \/ DispatchFails => UNCHANGED <<used, billed>>
    BY DEF PanelReads, DispatchHello, DispatchFails, dbVars, pastVars
  <2>5. Drop \/ Connect \/ PanelRestart \/ NodeCrash => UNCHANGED <<used, billed>>
    BY DEF Drop, Connect, PanelRestart, NodeCrash, dbVars, pastVars
  <2>6. UNCHANGED vars => UNCHANGED <<used, billed>>
    BY DEF vars, dbVars, pastVars
  <2>7. QED
    BY <1>1, <1>2, <1>3, <2>1, <2>2, <2>3, <2>4, <2>5, <2>6 DEF Next, CoreStep, PanelStep

\* Node, connection and panel together do what the ledger promises: bytes are
\* metered, and billing never passes them.
THEOREM Implements ==
  ASSUME Circumstances = {}
  PROVE  Spec => ImplementsLedger
<1>1. Init => Abstract!Init
  BY DEF Init, Abstract!Init, Used, Cores
<1>2. IInv => TypeOK /\ BilledWithin
  BY AccountTypes DEF IInv, AccountInv, Adrift, BilledWithin
<1>3. TypeOK /\ TypeOK' /\ BilledWithin' /\ [Next]_vars => [Abstract!Next]_<<Used, billed>>
  BY LedgerStep
<1>4. QED
  BY <1>1, <1>2, <1>3, Inductive, PTL DEF Spec, ImplementsLedger, Abstract!Spec

=============================================================================
