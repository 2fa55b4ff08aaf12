--------------------------- MODULE AddressLimit ---------------------------
(***************************************************************************)
(* How a node holds each user to a number of source addresses.             *)
(*                                                                         *)
(* Every few seconds, while the channel to the panel is up, the node reads *)
(* who is connected to its two cores, decides which addresses are beyond a *)
(* user's limit (engine/iplimit.go) and acts on it: it closes sing-box's   *)
(* connections from them and has Xray, which cannot close connections,     *)
(* refuse new ones (engine/xray.go, setBlocks).  Xray is told by calls     *)
(* that share one deadline and may fail; its limit rules must come before  *)
(* its unlock rules, and it may exit or be replaced at any moment.         *)
(*                                                                         *)
(* An address is ordered by when it was first seen.  That never changes    *)
(* while it is remembered and newcomers are first seen later than everyone *)
(* else, so `seen' keeps a user's addresses in that order instead of the   *)
(* times.  Age is the time since an address was last seen, up to one unit  *)
(* more than the grace period: beyond that all ages are alike.             *)
(***************************************************************************)
EXTENDS Integers, Sequences, FiniteSets

CONSTANTS
  Users,
  Addrs,          \* source addresses, numbers: the code breaks ties by address
  Limits,         \* the limits the panel sets; 0 is none
  Grace,          \* ipGrace, in units of time
  Unlocks,        \* numbers of unlock rules a configuration may have
  MaxCalls,       \* user lists and configurations
  MaxFaults,      \* deadlines passed, exits of Xray, channels dropped
  Circumstances   \* "late": a call that missed its deadline may still be carried out

ASSUME LimitAssumption ==
  /\ Addrs \subseteq Nat /\ IsFiniteSet(Addrs)
  /\ Limits \subseteq Nat /\ Grace \in Nat
  /\ Unlocks \subseteq Nat /\ Unlocks # {}
  /\ MaxCalls \in Nat /\ MaxFaults \in Nat
  /\ Circumstances \subseteq {"late"}

Cores == {"sing-box", "xray"}

VARIABLES
  open,       \* per core and user: the addresses with a connection open
  linked,     \* the channel is up; without it nobody polls
  \* limiter
  limits,     \* limits in force; 0 for none
  seen,       \* per user: the addresses remembered, oldest first, with their age
  over,       \* the last verdict
  forgetting, \* UpdateUsers has set the limits and not yet forgotten these users
  \* EnforceIPLimits: where it is, what it read of sing-box, what it will close,
  \* the users or the rule it is at, and whether its deadline has not passed
  ppc, sampled, toClose, todo, at, xctx,
  \* xrayCore: a process is known, the rules it believes are in place
  proc, unlock, blocked,
  \* Xray itself
  alive, rules,
  calls, faults

limiterVars == <<limits, seen, over, forgetting>>
pollVars    == <<ppc, sampled, toClose, todo, at, xctx>>
coreVars    == <<proc, unlock, blocked>>
xrayVars    == <<alive, rules>>
vars == <<open, linked, limiterVars, pollVars, coreVars, xrayVars, calls, faults>>

Slot == [ip: Addrs, age: 0..(Grace + 1)]

Nobody == [u \in Users |-> {}]

LimitRule(u)  == [kind |-> "limit", key |-> u, ips |-> blocked[u]]
UnlockRule(i) == [kind |-> "unlock", key |-> i, ips |-> {}]

Call == calls < MaxCalls /\ calls' = calls + 1
Fault == faults < MaxFaults /\ faults' = faults + 1

\* The elements of a finite set of numbers in their order, and what a sequence has
\* at the places of such a set.
Ordered(S) == [n \in 1..Cardinality(S) |-> CHOOSE j \in S : Cardinality({i \in S : i <= j}) = n]

Those(seq, S) == LET place == Ordered(S) IN [n \in 1..Cardinality(S) |-> seq[place[n]]]

-----------------------------------------------------------------------------
(* Xray's side of the calls (external) *)

HasRule(kind, key) == \E j \in DOMAIN rules : rules[j].kind = kind /\ rules[j].key = key

\* Rules added to the end; one whose tag is taken may be refused.
AddRule(rule) ==
  {Append(rules, rule)} \cup (IF HasRule(rule.kind, rule.key) THEN {rules} ELSE {})

\* The rules with another tag, in their order.
RemoveRule(kind, key) == Those(rules, {j \in DOMAIN rules : ~(rules[j].kind = kind /\ rules[j].key = key)})

\* What becomes of a call made under the poll's deadline.
Answers ==
  LET answer(ok, done, cost) == [ok |-> ok, done |-> done, cost |-> cost]
  IN  IF ~alive \/ ~xctx THEN {answer(FALSE, FALSE, 0)}
      ELSE {answer(TRUE, TRUE, 0)}
           \cup (IF faults < MaxFaults THEN {answer(FALSE, FALSE, 1)} ELSE {})
           \cup (IF faults < MaxFaults /\ "late" \in Circumstances
                 THEN {answer(FALSE, TRUE, 1)} ELSE {})

\* The deadline is shared: once it has passed, the calls after it fail too.
Answered(a) == faults' = faults + a.cost /\ xctx' = (xctx /\ a.cost = 0)

-----------------------------------------------------------------------------
(* iplimit.go: limiter *)

\* Mutant of Refreshed: an address seen again is taken for a newcomer.
RefreshedAsNew(u, live) ==
  Those(seen[u], {j \in DOMAIN seen[u] : seen[u][j].ip \notin live})
    \o [j \in 1..Cardinality(live) |-> [ip |-> Ordered(live)[j], age |-> 0]]

\* The live addresses are refreshed; newcomers take their places at the end.
Refreshed(u, live) ==
  LET known == {seen[u][j].ip : j \in DOMAIN seen[u]}
      newcomers == Ordered(live \ known)
  IN  [j \in DOMAIN seen[u] |-> IF seen[u][j].ip \in live THEN [seen[u][j] EXCEPT !.age = 0]
                                                          ELSE seen[u][j]]
        \o [j \in DOMAIN newcomers |-> [ip |-> newcomers[j], age |-> 0]]

\* Mutant of Dropped: nobody is ever forgotten.
NeverDropped(slots) == slots

\* Addresses gone for longer than the grace period lose their place.
Dropped(slots) == Those(slots, {j \in DOMAIN slots : slots[j].age <= Grace})

Beyond(slots, n) == IF n = 0 THEN {} ELSE {slots[j].ip : j \in (n + 1)..Len(slots)}

\* enforce: refresh, drop, decide.
enforce(live) ==
  \E refreshed \in {[u \in Users |-> Refreshed(u, live[u])]} :
    /\ seen' = [u \in Users |-> Dropped(refreshed[u])]
    /\ over' = [u \in Users |-> Beyond(seen'[u], limits[u])]

\* setLimits and forget, the end of UpdateUsers: two steps of a user list.
setLimits(u, n, known) ==
  /\ Call
  /\ forgetting = {}
  /\ limits' = [limits EXCEPT ![u] = n]
  /\ forgetting' = IF known THEN {} ELSE {u}
  /\ UNCHANGED <<open, linked, seen, over, pollVars, coreVars, xrayVars, faults>>

forget ==
  /\ forgetting # {}
  /\ seen' = [u \in Users |-> IF u \in forgetting THEN <<>> ELSE seen[u]]
  /\ forgetting' = {}
  /\ UNCHANGED <<open, linked, limits, over, pollVars, coreVars, xrayVars, calls, faults>>

-----------------------------------------------------------------------------
(* EnforceIPLimits *)

Done == ppc' = "idle" /\ sampled' = Nobody /\ toClose' = Nobody /\ todo' = {} /\ at' = 0
        /\ xctx' = TRUE

\* A tick of limitTick: sing-box's table is read first.
PollReads ==
  /\ linked
  /\ ppc = "idle"
  /\ ppc' = "sampled"
  /\ sampled' = open["sing-box"]
  /\ UNCHANGED <<open, linked, limiterVars, toClose, todo, at, xctx, coreVars, xrayVars, calls, faults>>

\* Users whose rule in Xray is not the one they should have.
Outdated == {u \in Users : blocked[u] # {} /\ blocked[u] # over'[u]}

\* Then Xray is asked.  If it does not answer, sing-box's connections are held
\* to the limit alone and Xray's rules are left as they are.
PollEnforces ==
  /\ ppc = "sampled"
  /\ \E a \in IF proc THEN Answers ELSE {[ok |-> TRUE, done |-> TRUE, cost |-> 0]} :
       LET live == [u \in Users |-> sampled[u] \cup (IF proc /\ a.ok THEN open["xray"][u] ELSE {})]
       IN  /\ Answered(a)
           /\ enforce(live)
           /\ toClose' = [u \in Users |-> sampled[u] \cap over'[u]]
           /\ ppc' = IF proc /\ a.ok THEN "unblock" ELSE "close"
           /\ todo' = IF proc /\ a.ok THEN Outdated ELSE {}
  /\ sampled' = Nobody
  /\ UNCHANGED <<open, linked, limits, forgetting, at, coreVars, xrayVars, calls>>

\* Xray's connections are not closed: only the ones sing-box listed are.
PollCloses ==
  /\ ppc = "close"
  /\ open' = [open EXCEPT !["sing-box"] = [u \in Users |-> @[u] \ toClose[u]]]
  /\ Done
  /\ UNCHANGED <<linked, limiterVars, coreVars, xrayVars, calls, faults>>

-----------------------------------------------------------------------------
(* xray.go: setBlocks, with x.mu held from "unblock" to "putback" *)

SettingBlocks == ppc \in {"unblock", "takeout", "block", "putback"}

\* A rule that is out of date is removed; if that fails it is kept for later.
RemoveOutdated(u) ==
  /\ ppc = "unblock" /\ u \in todo
  /\ \E a \in Answers :
       /\ Answered(a)
       /\ rules' = IF a.done THEN RemoveRule("limit", u) ELSE rules
       /\ blocked' = IF a.ok THEN [blocked EXCEPT ![u] = {}] ELSE blocked
  /\ todo' = todo \ {u}
  /\ UNCHANGED <<open, linked, limiterVars, ppc, sampled, toClose, at, proc, unlock, alive, calls>>

Missing == {u \in Users : over[u] # {} /\ blocked[u] = {}}

\* Mutant of DecideAdding: the limit rules are appended behind the unlock rules.
AddBehindUnlock ==
  /\ ppc = "unblock" /\ todo = {}
  /\ todo' = Missing
  /\ ppc' = IF Missing = {} THEN "close" ELSE "block"
  /\ UNCHANGED <<open, linked, limiterVars, sampled, toClose, at, xctx, coreVars, xrayVars, calls, faults>>

\* Limit rules are added only if some are missing, and the unlock rules are taken out first.
DecideAdding ==
  /\ ppc = "unblock" /\ todo = {}
  /\ todo' = Missing
  /\ ppc' = IF Missing = {} THEN "close" ELSE IF unlock = 0 THEN "block" ELSE "takeout"
  /\ at' = IF Missing # {} /\ unlock > 0 THEN 1 ELSE 0
  /\ UNCHANGED <<open, linked, limiterVars, sampled, toClose, xctx, coreVars, xrayVars, calls, faults>>

\* removeUnlockRules, which stops at the first that fails.
TakeOut ==
  /\ ppc = "takeout"
  /\ \E a \in Answers :
       /\ Answered(a)
       /\ rules' = IF a.done THEN RemoveRule("unlock", at) ELSE rules
       /\ IF a.ok /\ at < unlock THEN at' = at + 1 /\ ppc' = ppc ELSE at' = 0 /\ ppc' = "block"
  /\ UNCHANGED <<open, linked, limiterVars, sampled, toClose, todo, coreVars, alive, calls>>

\* BlockSources: the rule of one user.  One that fails is left for the next poll.
AddMissing(u) ==
  /\ ppc = "block" /\ u \in todo
  /\ \E a \in Answers, rs \in AddRule([LimitRule(u) EXCEPT !.ips = over[u]]) :
       /\ Answered(a)
       /\ rules' = IF a.done THEN rs ELSE rules
       /\ blocked' = IF a.ok /\ rs # rules THEN [blocked EXCEPT ![u] = over[u]] ELSE blocked
  /\ todo' = todo \ {u}
  /\ UNCHANGED <<open, linked, limiterVars, ppc, sampled, toClose, at, proc, unlock, alive, calls>>

BlocksAdded ==
  /\ ppc = "block" /\ todo = {}
  /\ ppc' = IF unlock = 0 THEN "close" ELSE "putback"
  /\ at' = IF unlock = 0 THEN 0 ELSE 1
  /\ UNCHANGED <<open, linked, limiterVars, sampled, toClose, todo, xctx, coreVars, xrayVars, calls, faults>>

\* addUnlockRules, deferred and with a deadline of its own: the poll's may have
\* passed.  It stops at the first that fails, because Xray has exited or because
\* the rule was never taken out.
PutBack ==
  /\ ppc = "putback"
  /\ \E rs \in IF alive THEN AddRule(UnlockRule(at)) ELSE {rules} :
       /\ rules' = rs
       /\ IF rs # rules /\ at < unlock THEN at' = at + 1 /\ ppc' = ppc ELSE at' = 0 /\ ppc' = "close"
  /\ UNCHANGED <<open, linked, limiterVars, sampled, toClose, todo, xctx, coreVars, alive, calls, faults>>

-----------------------------------------------------------------------------
(* What happens around it *)

\* Mutant of StartLocked: the blocks of the last process are taken for its own.
StartWithOldBlocks(n) ==
  /\ proc' = TRUE /\ alive' = TRUE
  /\ unlock' = n
  /\ rules' = [i \in 1..n |-> UnlockRule(i)]
  /\ blocked' = blocked

\* A process that has come up has the unlock rules and no limit rule.
StartLocked(n) ==
  /\ proc' = TRUE /\ alive' = TRUE
  /\ unlock' = n
  /\ rules' = [i \in 1..n |-> UnlockRule(i)]
  /\ blocked' = Nobody

\* Xray is replaced, for a configuration or an address, or started after an exit.
XrayStarts(n) ==
  /\ Call
  /\ ~SettingBlocks
  /\ StartLocked(n)
  /\ open' = [open EXCEPT !["xray"] = Nobody]
  /\ UNCHANGED <<linked, limiterVars, pollVars, faults>>

\* Nothing is left for Xray to serve, or it does not come up.
XrayStops ==
  /\ Call
  /\ ~SettingBlocks
  /\ proc
  /\ proc' = FALSE /\ alive' = FALSE /\ rules' = <<>>
  /\ open' = [open EXCEPT !["xray"] = Nobody]
  /\ UNCHANGED <<linked, limiterVars, pollVars, unlock, blocked, faults>>

\* Xray exits.  The core learns of it when its supervisor gets the lock.
XrayExits ==
  /\ Fault
  /\ alive
  /\ alive' = FALSE /\ rules' = <<>>
  /\ open' = [open EXCEPT !["xray"] = Nobody]
  /\ UNCHANGED <<linked, limiterVars, pollVars, coreVars, calls>>

Supervise ==
  /\ proc /\ ~alive /\ ~SettingBlocks
  /\ proc' = FALSE
  /\ UNCHANGED <<open, linked, limiterVars, pollVars, unlock, blocked, xrayVars, calls, faults>>

\* Clients come and go.  Xray refuses those its rules name.
Connects(core, u, i) ==
  /\ core = "xray" => /\ alive
                      /\ \A j \in DOMAIN rules : rules[j].kind = "limit" /\ rules[j].key = u
                                                   => i \notin rules[j].ips
  /\ i \notin open[core][u]
  /\ open' = [open EXCEPT ![core][u] = @ \cup {i}]
  /\ UNCHANGED <<linked, limiterVars, pollVars, coreVars, xrayVars, calls, faults>>

\* A connection that closes by itself is no longer there to be closed.
Leaves(core, u, i) ==
  /\ i \in open[core][u]
  /\ open' = [open EXCEPT ![core][u] = @ \ {i}]
  /\ toClose' = IF core = "sing-box" THEN [toClose EXCEPT ![u] = @ \ {i}] ELSE toClose
  /\ UNCHANGED <<linked, limiterVars, ppc, sampled, todo, at, xctx, coreVars, xrayVars, calls, faults>>

\* The session ends: its context is cancelled, and the poll under way with it.
Drop ==
  /\ Fault
  /\ linked
  /\ linked' = FALSE
  /\ xctx' = (ppc = "idle")
  /\ UNCHANGED <<open, limiterVars, ppc, sampled, toClose, todo, at, coreVars, xrayVars, calls>>

\* The next session starts when the report goroutine of the last has returned.
Connect ==
  /\ ~linked /\ ppc = "idle"
  /\ linked' = TRUE
  /\ UNCHANGED <<open, limiterVars, pollVars, coreVars, xrayVars, calls, faults>>

Tick ==
  /\ seen' = [u \in Users |-> [j \in DOMAIN seen[u] |->
                [seen[u][j] EXCEPT !.age = IF @ > Grace THEN @ ELSE @ + 1]]]
  /\ UNCHANGED <<open, linked, limits, over, forgetting, pollVars, coreVars, xrayVars, calls, faults>>

-----------------------------------------------------------------------------

Init ==
  /\ open = [c \in Cores |-> Nobody]
  /\ linked = TRUE
  /\ limits \in [Users -> Limits] /\ seen = [u \in Users |-> <<>>] /\ over = Nobody /\ forgetting = {}
  /\ ppc = "idle" /\ sampled = Nobody /\ toClose = Nobody /\ todo = {} /\ at = 0 /\ xctx = TRUE
  /\ proc = TRUE /\ unlock \in Unlocks /\ blocked = Nobody
  /\ alive = TRUE /\ rules = [i \in 1..unlock |-> UnlockRule(i)]
  /\ calls = 0 /\ faults = 0

Poll ==
  \/ PollReads \/ PollEnforces \/ PollCloses
  \/ DecideAdding \/ TakeOut \/ BlocksAdded \/ PutBack
  \/ \E u \in Users : RemoveOutdated(u) \/ AddMissing(u)

Next ==
  \/ Poll
  \/ \E u \in Users, n \in Limits, known \in BOOLEAN : setLimits(u, n, known)
  \/ forget
  \/ \E n \in Unlocks : XrayStarts(n)
  \/ XrayStops \/ XrayExits \/ Supervise
  \/ \E c \in Cores, u \in Users, i \in Addrs : Connects(c, u, i) \/ Leaves(c, u, i)
  \/ Drop \/ Connect
  \/ Tick

Spec == Init /\ [][Next]_vars

\* The report goroutine polls, a lost channel is dialled again, time passes.
FairSpec == Spec /\ WF_vars(Poll) /\ WF_vars(Connect) /\ WF_vars(Tick)

-----------------------------------------------------------------------------
(* What must hold *)

\* Types and bounds; the rule the poll is at is one there is.
TypeOK ==
  /\ open \in [Cores -> [Users -> SUBSET Addrs]]
  /\ linked \in BOOLEAN
  /\ limits \in [Users -> Limits \cup {0}]
  /\ seen \in [Users -> Seq(Slot)]
  /\ over \in [Users -> SUBSET Addrs]
  /\ forgetting \subseteq Users
  /\ ppc \in {"idle", "sampled", "unblock", "takeout", "block", "putback", "close"}
  /\ sampled \in [Users -> SUBSET Addrs] /\ toClose \in [Users -> SUBSET Addrs]
  /\ todo \subseteq Users /\ at \in 0..unlock /\ xctx \in BOOLEAN
  /\ proc \in BOOLEAN /\ unlock \in Unlocks /\ blocked \in [Users -> SUBSET Addrs]
  /\ alive \in BOOLEAN
  /\ rules \in Seq([kind : {"limit", "unlock"}, key : Users \cup Nat, ips : SUBSET Addrs])
  /\ calls \in 0..MaxCalls /\ faults \in 0..MaxFaults

\* Addresses that have a place now: among the first of those remembered, and
\* seen within the grace period.
Holders(u) == {seen[u][j].ip : j \in {k \in 1..limits[u] \cap DOMAIN seen[u] : seen[u][k].age <= Grace}}

\* The decision does not flap (iplimit.go, enforce): an address that has a place
\* and has been seen within the grace period is not found over the limit,
\* whoever else has come meanwhile.
KeepsPlace ==
  [][\A u \in Users : Holders(u) \cap over'[u] \subseteq over[u]]_vars

\* A limit rule bites only ahead of the unlock rules (xray.go, setBlocks): however
\* the calls that move them fail, no limit rule stands behind one, and the unlock
\* rules taken out to add a limit rule are back when the poll is over, even if
\* its deadline passed or its session ended on the way.
RulesStand ==
  /\ \A j, k \in DOMAIN rules : rules[j].kind = "unlock" /\ rules[k].kind = "limit" => k < j
  /\ proc /\ alive /\ ~SettingBlocks => \A i \in 1..unlock : HasRule("unlock", i)

RefusedByXray(u) == UNION {rules[j].ips : j \in {k \in DOMAIN rules : rules[k].kind = "limit" /\ rules[k].key = u}}

\* The verdict is carried out again and again, whatever calls failed before: no
\* sing-box connection from an address over the limit stays open, and Xray comes
\* to refuse exactly the addresses over the limit and accepts the others again.
VerdictCarriedOut ==
  /\ \A u \in Users, i \in Addrs : []<>(i \notin over[u] \/ i \notin open["sing-box"][u])
  /\ []<>(~proc \/ ~alive \/ \A u \in Users : RefusedByXray(u) = over[u])

Connected(u) == open["sing-box"][u] \cup open["xray"][u]
Content == \A u \in Users : limits[u] = 0 \/ Cardinality(Connected(u)) <= limits[u]

\* Places become free (iplimit.go, ipGrace): once no more addresses stay connected
\* than the limit allows, none of them remains over it.
RoomIsFound == <>[]Content => []<>(\A u \in Users : over[u] \cap Connected(u) = {})

=============================================================================
