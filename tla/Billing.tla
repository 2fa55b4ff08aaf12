------------------------------- MODULE Billing -------------------------------
(***************************************************************************)
(* Which inbounds an account may use, which nodes are given it, and what   *)
(* a node's report costs it.                                               *)
(*                                                                         *)
(* A node knows users by name, and counts under the name.  The panel reads *)
(* a report in four steps: the node's inbounds, the users, the             *)
(* restrictions (service/traffic.go, billable), and then one transaction   *)
(* that bills every account or none (store/traffic.go, addTraffic).        *)
(* Administrators create, edit, restrict and delete in between, and        *)
(* reports of several nodes are handled side by side.  How a report is     *)
(* measured and numbered is in StatsReport; here a node that numbers its   *)
(* reports keeps one until it is acknowledged, and another forgets it once *)
(* it is sent.  Upload and download are billed alike: one stands for both. *)
(***************************************************************************)
EXTENDS Integers

CONSTANTS
  Nodes,
  Unnumbered,     \* the nodes whose reports are not acknowledged
  Inbounds, Home, \* the inbounds there can be, and the node of each
  Names, First,   \* names of users, and of the accounts there are at first
  MaxId,          \* account identifiers
  Rates,          \* values of rate_milli an administrator gives a node
  Limits,         \* quotas, 0 for none
  MaxDelta,       \* maxReportedDelta
  MaxBytes,       \* bytes carried
  MaxEvents,      \* calls and faults
  Circumstances   \* "last_tick": the last inbound an account was limited to may be deleted
                  \* "outage": a node may carry more than MaxDelta between two reports

Ids == 1..MaxId
NoName == "no name"
DefaultRate == 1000

ASSUME BillingAssumption ==
  /\ Unnumbered \subseteq Nodes /\ Home \in [Inbounds -> Nodes] /\ 0 \notin Inbounds
  /\ MaxId \in Nat /\ NoName \notin Names
  /\ DOMAIN First \subseteq Ids /\ First \in [DOMAIN First -> Names]
  /\ \A i, j \in DOMAIN First : First[i] = First[j] => i = j
  /\ Rates \subseteq Nat /\ Limits \subseteq Nat
  /\ MaxDelta \in Nat /\ MaxBytes \in Nat /\ MaxEvents \in Nat
  /\ Circumstances \subseteq {"last_tick", "outage"}

VARIABLES
  \* the database: users (no name, no row), user_inbounds by user, inbounds, nodes
  account, ticked, status, rate,
  \* an administrator saving the page of allowed inbounds
  form,
  \* the hub: nodes that are owed a push, and what each was last given
  pending, given,
  \* a node: carried under each name since its last report, and that report
  carried, outbox,
  \* the panel: stats_epoch and stats_seq are those of the report in the outbox
  recorded,
  \* the goroutine handling a node's report: where it is, enabled inbounds,
  \* users by name, what is to be billed, and whether a limit was crossed
  pc, enabled, byName, deltas, crossed,
  \* history: the cost in thousandths since the last reset; what was last
  \* asked for on the page; carried and not billed yet; <<inbound, account>>
  \* that has been allowed and named the same all along
  charge, wanted, owed, steady,
  bytes, events

tables    == <<account, ticked, status, rate>>
hubVars   == <<pending, given>>
nodeVars  == <<carried, outbox>>
handVars  == <<pc, enabled, byName, deltas, crossed>>
vars == <<tables, form, hubVars, nodeVars, recorded, handVars,
          charge, wanted, owed, steady, bytes, events>>

-----------------------------------------------------------------------------

Account(m, limit) == [name |-> m, limit |-> limit, used |-> 0, rem |-> 0]
NoAccount == Account(NoName, 0)
Nothing == [m \in Names |-> 0]
NoForm == [id |-> 0, picked |-> {}]
All == Inbounds \cup {0}     \* every inbound, those to come included

Present == {i \in Ids : account[i].name # NoName}
Existing == {k \in Inbounds : status[k] # "none"}

Active(i) == account[i].limit = 0 \/ account[i].used < account[i].limit

\* No rows mean every inbound.
Allowed(i, k) == ticked[i] = {} \/ k \in ticked[i]

\* The users a node is given for its inbounds.
NodeUsers(n) ==
  {account[i].name : i \in {j \in Present :
     /\ Active(j)
     /\ \E k \in Inbounds : Home[k] = n /\ status[k] = "on" /\ Allowed(j, k)}}

\* Calls and faults are bounded together.
Call == events < MaxEvents /\ events' = events + 1
Fault == Call

\* What every change of the database does besides: the nodes are told, and
\* those that were not disturbed are noted.
Told ==
  /\ pending' = Nodes
  /\ steady' = {s \in steady : /\ status'[s[1]] = "on"
                               /\ ticked'[s[2]] = {} \/ s[1] \in ticked'[s[2]]
                               /\ account'[s[2]].name = account[s[2]].name}

-----------------------------------------------------------------------------
(* Accounts *)

\* SQLite gives a new row the number after the largest there is.
IsNewId(i) == (\A j \in Present : j < i) /\ (i = 1 \/ i - 1 \in Present)

Free(m) == \A i \in Present : account[i].name # m

CreateUser(i, m, limit) ==
  /\ Call
  /\ IsNewId(i) /\ Free(m)
  /\ account' = [account EXCEPT ![i] = Account(m, limit)]
  /\ charge' = [charge EXCEPT ![i] = 0]
  /\ wanted' = [wanted EXCEPT ![i] = All]
  /\ UNCHANGED <<ticked, status, rate>> /\ Told
  /\ UNCHANGED <<form, given, nodeVars, recorded, handVars, owed, bytes>>

\* traffic_used and the remainders are not among the columns written.
UpdateUser(i, m, limit) ==
  /\ Call
  /\ i \in Present
  /\ account[i].name = m \/ Free(m)
  /\ account' = [account EXCEPT ![i] = [name |-> m, limit |-> limit, used |-> @.used, rem |-> @.rem]]
  /\ UNCHANGED <<ticked, status, rate>> /\ Told
  /\ UNCHANGED <<form, given, nodeVars, recorded, handVars, charge, wanted, owed, bytes>>

\* The restrictions go with the row.
DeleteUser(i) ==
  /\ Call
  /\ i \in Present
  /\ account' = [account EXCEPT ![i] = NoAccount]
  /\ ticked' = [ticked EXCEPT ![i] = {}]
  /\ charge' = [charge EXCEPT ![i] = 0]
  /\ UNCHANGED <<status, rate>> /\ Told
  /\ UNCHANGED <<form, given, nodeVars, recorded, handVars, wanted, owed, bytes>>

ResetUserTraffic(i) ==
  /\ Call
  /\ i \in Present
  /\ account' = [account EXCEPT ![i] = Account(@.name, @.limit)]
  /\ charge' = [charge EXCEPT ![i] = 0]
  /\ UNCHANGED <<ticked, status, rate>> /\ Told
  /\ UNCHANGED <<form, given, nodeVars, recorded, handVars, wanted, owed, bytes>>

-----------------------------------------------------------------------------
(* The page of allowed inbounds *)

\* The picks are checked against the inbounds there are; to pick none of them
\* is refused, to pick all means no restriction.
SetAccessReads(i, picked) ==
  /\ Call
  /\ form = NoForm
  /\ i \in Present
  /\ picked = All \/ (picked # {} /\ picked \subseteq Existing)
  /\ form' = [id |-> i, picked |-> picked]
  /\ UNCHANGED <<tables, hubVars, nodeVars, recorded, handVars, charge, wanted, owed, steady, bytes>>

\* Mutant of SetAccessWrites: an inbound deleted meanwhile is left out.
SetAccessWritesRest ==
  LET i == form.id IN
  /\ form # NoForm
  /\ form' = NoForm
  /\ i \in Present
  /\ ticked' = [ticked EXCEPT ![i] = IF form.picked = All THEN {} ELSE form.picked \cap Existing]
  /\ wanted' = [wanted EXCEPT ![i] = IF form.picked = All THEN All ELSE form.picked \cap Existing]
  /\ UNCHANGED <<account, status, rate>> /\ Told
  /\ UNCHANGED <<given, nodeVars, recorded, handVars, charge, owed, bytes, events>>

\* One transaction: an account or an inbound that has gone fails it whole.
SetAccessWrites ==
  LET i == form.id
      saved == i \in Present /\ (form.picked = All \/ form.picked \subseteq Existing) IN
  /\ form # NoForm
  /\ form' = NoForm
  /\ \/ /\ saved
        /\ ticked' = [ticked EXCEPT ![i] = IF form.picked = All THEN {} ELSE form.picked]
        /\ wanted' = [wanted EXCEPT ![i] = form.picked]
        /\ UNCHANGED <<account, status, rate>> /\ Told
     \/ ~saved /\ UNCHANGED <<tables, wanted, pending, steady>>
  /\ UNCHANGED <<given, nodeVars, recorded, handVars, charge, owed, bytes, events>>

-----------------------------------------------------------------------------
(* Inbounds and rates *)

CreateInbound(k) ==
  /\ Call
  /\ status[k] = "none"
  /\ status' = [status EXCEPT ![k] = "on"]
  /\ UNCHANGED <<account, ticked, rate>> /\ Told
  /\ UNCHANGED <<form, given, nodeVars, recorded, handVars, charge, wanted, owed, bytes>>

SetInboundEnabled(k) ==
  /\ Call
  /\ status[k] # "none"
  /\ status' = [status EXCEPT ![k] = IF @ = "on" THEN "off" ELSE "on"]
  /\ UNCHANGED <<account, ticked, rate>> /\ Told
  /\ UNCHANGED <<form, given, nodeVars, recorded, handVars, charge, wanted, owed, bytes>>

\* The rows that name it go with it (ON DELETE CASCADE).
DeleteInbound(k) ==
  /\ Call
  /\ status[k] # "none"
  /\ "last_tick" \in Circumstances \/ \A i \in Ids : ticked[i] # {k}
  /\ status' = [status EXCEPT ![k] = "none"]
  /\ ticked' = [i \in Ids |-> ticked[i] \ {k}]
  /\ wanted' = [i \in Ids |-> IF wanted[i] = All THEN All ELSE wanted[i] \ {k}]
  /\ UNCHANGED <<account, rate>> /\ Told
  /\ UNCHANGED <<form, given, nodeVars, recorded, handVars, charge, owed, bytes>>

\* Nobody has to be told of a rate.
SetRate(n, r) ==
  /\ Call
  /\ rate' = [rate EXCEPT ![n] = r]
  /\ UNCHANGED <<account, ticked, status, form, hubVars, nodeVars, recorded, handVars,
                 charge, wanted, owed, steady, bytes>>

-----------------------------------------------------------------------------
(* Nodes *)

Push(n) ==
  /\ n \in pending
  /\ pending' = pending \ {n}
  /\ given' = [given EXCEPT ![n] = NodeUsers(n)]
  /\ UNCHANGED <<tables, form, nodeVars, recorded, handVars,
                 charge, wanted, owed, steady, bytes, events>>

\* A byte for a user the node was given.
Carry(n, m) ==
  /\ m \in given[n]
  /\ bytes < MaxBytes /\ bytes' = bytes + 1
  /\ "outage" \in Circumstances \/ carried[n][m] < MaxDelta
  /\ carried' = [carried EXCEPT ![n][m] = @ + 1]
  /\ owed' = [owed EXCEPT ![n] = [i \in Ids |-> IF account[i].name = m THEN @[i] + 1 ELSE @[i]]]
  /\ UNCHANGED <<tables, form, hubVars, outbox, recorded, handVars, charge, wanted, steady, events>>

Report(n) ==
  /\ outbox[n] = Nothing /\ carried[n] # Nothing /\ pc[n] = "idle"
  /\ outbox' = [outbox EXCEPT ![n] = carried[n]]
  /\ carried' = [carried EXCEPT ![n] = Nothing]
  /\ recorded' = [recorded EXCEPT ![n] = FALSE]
  /\ UNCHANGED <<tables, form, hubVars, handVars, charge, wanted, owed, steady, bytes, events>>

-----------------------------------------------------------------------------
(* The panel handles a report *)

ReadInbounds(n) ==
  /\ outbox[n] # Nothing /\ pc[n] = "idle"
  /\ pc' = [pc EXCEPT ![n] = "users"]
  /\ enabled' = [enabled EXCEPT ![n] = {k \in Inbounds : Home[k] = n /\ status[k] = "on"}]
  /\ UNCHANGED <<tables, form, hubVars, nodeVars, recorded, byName, deltas, crossed,
                 charge, wanted, owed, steady, bytes, events>>

ReadUsers(n) ==
  /\ pc[n] = "users"
  /\ pc' = [pc EXCEPT ![n] = "restrictions"]
  /\ byName' = [byName EXCEPT ![n] = {<<i, account[i].name>> : i \in Present}]
  /\ UNCHANGED <<tables, form, hubVars, nodeVars, recorded, enabled, deltas, crossed,
                 charge, wanted, owed, steady, bytes, events>>

\* What of a report a node may bill: users read and allowed on an inbound of it
\* that was read, whether they are active or not; 0 for what is left out.
Billable(n) ==
  [i \in Ids |->
     IF \E k \in enabled[n] : Allowed(i, k)
     THEN LET amounts == {outbox[n][u[2]] : u \in {v \in byName[n] : v[1] = i}} \cap 1..MaxDelta IN
          IF amounts = {} THEN 0 ELSE CHOOSE d \in amounts : TRUE
     ELSE 0]

ReadRestrictions(n) ==
  /\ pc[n] = "restrictions"
  /\ pc' = [pc EXCEPT ![n] = "billable"]
  /\ deltas' = [deltas EXCEPT ![n] = Billable(n)]
  /\ enabled' = [enabled EXCEPT ![n] = {}] /\ byName' = [byName EXCEPT ![n] = {}]
  /\ UNCHANGED <<tables, form, hubVars, nodeVars, recorded, crossed,
                 charge, wanted, owed, steady, bytes, events>>

\* Mutant of Billed: the fraction is added to the one before and never carried.
BilledUncarried(row, cost) == [row EXCEPT !.used = @ + cost \div 1000, !.rem = @ + (cost % 1000)]

\* A row after a report that costs so many thousandths of a byte.
Billed(row, cost) ==
  [name |-> row.name, limit |-> row.limit,
   used |-> row.used + (cost + row.rem) \div 1000, rem |-> (cost + row.rem) % 1000]

\* Mutant of Crosses: the quota has to be exceeded.
CrossesPast(row, billed) == row.limit > 0 /\ row.used < row.limit /\ billed.used > row.limit

Crosses(row, billed) == row.limit > 0 /\ row.used < row.limit /\ billed.used >= row.limit

\* The handler ends, with whatever it had read.
Idle(n) ==
  /\ pc' = [pc EXCEPT ![n] = "idle"]
  /\ enabled' = [enabled EXCEPT ![n] = {}]
  /\ byName' = [byName EXCEPT ![n] = {}]
  /\ deltas' = [deltas EXCEPT ![n] = [i \in Ids |-> 0]]
  /\ crossed' = [crossed EXCEPT ![n] = FALSE]

\* Mutant of Fails: the report is acknowledged all the same.
FailsAcknowledged(n) ==
  /\ Idle(n)
  /\ outbox' = [outbox EXCEPT ![n] = Nothing]
  /\ UNCHANGED <<tables, form, hubVars, carried, recorded, charge, wanted, owed, steady, bytes>>

\* An error is logged and nothing else: a numbered report will come again.
Fails(n) ==
  /\ Idle(n)
  /\ outbox' = [outbox EXCEPT ![n] = IF n \in Unnumbered THEN Nothing ELSE @]
  /\ UNCHANGED <<tables, form, hubVars, carried, recorded, charge, wanted, owed, steady, bytes>>

\* A report recorded already: nothing is written, and it is acknowledged.
Repeat(n) ==
  /\ pc[n] = "billable" /\ recorded[n]
  /\ pc' = [pc EXCEPT ![n] = "committed"]
  /\ deltas' = [deltas EXCEPT ![n] = [i \in Ids |-> 0]]
  /\ UNCHANGED <<tables, form, hubVars, nodeVars, recorded, enabled, byName, crossed,
                 charge, wanted, owed, steady, bytes, events>>

\* The transaction: every user of the report is billed, and the report recorded.
AddTraffic(n) ==
  LET due == {i \in Ids : deltas[n][i] > 0}
      cost(i) == deltas[n][i] * rate[n] IN
  /\ pc[n] = "billable" /\ ~recorded[n]
  /\ due \subseteq Present
  /\ account' = [i \in Ids |-> IF i \in due THEN Billed(account[i], cost(i)) ELSE account[i]]
  /\ charge' = [i \in Ids |-> IF i \in due THEN charge[i] + cost(i) ELSE charge[i]]
  /\ owed' = [owed EXCEPT ![n] = [i \in Ids |-> @[i] - deltas[n][i]]]
  /\ recorded' = [recorded EXCEPT ![n] = n \notin Unnumbered]
  /\ crossed' = [crossed EXCEPT ![n] = \E i \in due : Crosses(account[i], account'[i])]
  /\ pc' = [pc EXCEPT ![n] = "committed"]
  /\ deltas' = [deltas EXCEPT ![n] = [i \in Ids |-> 0]]
  /\ UNCHANGED <<ticked, status, rate, form, hubVars, nodeVars, enabled, byName,
                 wanted, steady, bytes, events>>

\* One user whose row has gone since it was read, and nobody is billed.
AddTrafficFails(n) ==
  /\ pc[n] = "billable" /\ ~recorded[n]
  /\ \E i \in Ids : deltas[n][i] > 0 /\ i \notin Present
  /\ Fails(n) /\ UNCHANGED events

\* A read or the transaction meets an error of the database.
DatabaseFails(n) ==
  /\ Fault
  /\ pc[n] \in {"users", "restrictions", "billable"}
  /\ Fails(n)

\* Whoever a report took over the quota is withdrawn from every node, and the ok
\* is sent, which may be lost with the connection.
Acknowledge(n) ==
  /\ pc[n] = "committed"
  /\ \/ /\ pending' = (IF crossed[n] THEN Nodes ELSE pending)
        /\ outbox' = [outbox EXCEPT ![n] = Nothing]
        /\ UNCHANGED events
     \/ /\ Fault
        /\ n \notin Unnumbered
        /\ pending' = (IF crossed[n] THEN Nodes ELSE pending \cup {n})
        /\ UNCHANGED outbox
  /\ Idle(n)
  /\ UNCHANGED <<tables, form, given, carried, recorded, charge, wanted, owed, steady, bytes>>

\* Handlers and forms end where they are; every node connects anew.
PanelRestart ==
  /\ Fault
  /\ form' = NoForm
  /\ pending' = Nodes
  /\ outbox' = [n \in Nodes |-> IF n \in Unnumbered /\ pc[n] # "idle" THEN Nothing ELSE outbox[n]]
  /\ pc' = [n \in Nodes |-> "idle"] /\ enabled' = [n \in Nodes |-> {}]
  /\ byName' = [n \in Nodes |-> {}] /\ deltas' = [n \in Nodes |-> [i \in Ids |-> 0]]
  /\ crossed' = [n \in Nodes |-> FALSE]
  /\ UNCHANGED <<tables, given, carried, recorded, charge, wanted, owed, steady, bytes>>

-----------------------------------------------------------------------------

\* The first accounts, one of them limited to one inbound or none of them; every
\* inbound on, and every node about to connect.
Init ==
  /\ account \in {[i \in Ids |-> IF i \in DOMAIN First
                                 THEN Account(First[i], q)
                                 ELSE NoAccount] : q \in Limits}
  /\ ticked \in {[i \in Ids |-> IF i \in {1} \cap DOMAIN First THEN s ELSE {}] : s \in {{}} \cup {{k} : k \in Inbounds}}
  /\ status = [k \in Inbounds |-> "on"] /\ rate = [n \in Nodes |-> DefaultRate]
  /\ form = NoForm
  /\ pending = Nodes /\ given = [n \in Nodes |-> {}]
  /\ carried = [n \in Nodes |-> Nothing] /\ outbox = [n \in Nodes |-> Nothing]
  /\ recorded = [n \in Nodes |-> FALSE]
  /\ pc = [n \in Nodes |-> "idle"] /\ enabled = [n \in Nodes |-> {}]
  /\ byName = [n \in Nodes |-> {}] /\ deltas = [n \in Nodes |-> [i \in Ids |-> 0]]
  /\ crossed = [n \in Nodes |-> FALSE]
  /\ charge = [i \in Ids |-> 0]
  /\ wanted = [i \in Ids |-> IF ticked[i] = {} THEN All ELSE ticked[i]]
  /\ owed = [n \in Nodes |-> [i \in Ids |-> 0]]
  /\ steady = {s \in Inbounds \X DOMAIN First : Allowed(s[2], s[1])}
  /\ bytes = 0 /\ events = 0

Calls ==
  \/ \E i \in Ids :
       \/ \E m \in Names, limit \in Limits : CreateUser(i, m, limit) \/ UpdateUser(i, m, limit)
       \/ DeleteUser(i) \/ ResetUserTraffic(i)
       \/ \E picked \in (SUBSET Inbounds) \cup {All} : SetAccessReads(i, picked)
  \/ \E k \in Inbounds : CreateInbound(k) \/ SetInboundEnabled(k) \/ DeleteInbound(k)
  \/ \E n \in Nodes, r \in Rates : SetRate(n, r)

Handler(n) ==
  ReadInbounds(n) \/ ReadUsers(n) \/ ReadRestrictions(n)
    \/ Repeat(n) \/ AddTraffic(n) \/ AddTrafficFails(n) \/ Acknowledge(n)

Next ==
  \/ Calls \/ SetAccessWrites \/ PanelRestart
  \/ \E n \in Nodes : Push(n) \/ Report(n) \/ Handler(n) \/ DatabaseFails(n)
  \/ \E n \in Nodes, m \in Names : Carry(n, m)

Spec == Init /\ [][Next]_vars

-----------------------------------------------------------------------------
(* What must hold *)

Stages == {"idle", "users", "restrictions", "billable", "committed"}

\* Types; a fraction of a byte is less than one, and no two users share a name.
TypeOK ==
  /\ account \in [Ids -> [name : Names \cup {NoName}, limit : Limits \cup {0}, used : Nat, rem : 0..999]]
  /\ \A i, j \in Present : account[i].name = account[j].name => i = j
  /\ ticked \in [Ids -> SUBSET Inbounds] /\ wanted \in [Ids -> SUBSET All]
  /\ status \in [Inbounds -> {"none", "on", "off"}] /\ rate \in [Nodes -> Rates \cup {DefaultRate}]
  /\ form \in [id : Ids \cup {0}, picked : SUBSET All]
  /\ pending \subseteq Nodes /\ given \in [Nodes -> SUBSET Names]
  /\ carried \in [Nodes -> [Names -> Nat]] /\ outbox \in [Nodes -> [Names -> Nat]]
  /\ recorded \in [Nodes -> BOOLEAN] /\ crossed \in [Nodes -> BOOLEAN]
  /\ pc \in [Nodes -> Stages] /\ enabled \in [Nodes -> SUBSET Inbounds]
  /\ byName \in [Nodes -> SUBSET (Ids \X Names)] /\ deltas \in [Nodes -> [Ids -> 0..MaxDelta]]
  /\ charge \in [Ids -> Nat] /\ owed \in [Nodes -> [Ids -> Int]]
  /\ steady \subseteq Inbounds \X Ids
  /\ bytes \in 0..MaxBytes /\ events \in 0..MaxEvents

\* "Ten small reports must have exactly the same cost as one large report"
\* (store/node_rate_test.go), whatever nodes they come from, at whatever rates,
\* through changes of rate and resets: not a thousandth of a byte is lost or added.
ExactlyBilled ==
  \A i \in Present : account[i].used = charge[i] \div 1000 /\ account[i].rem = charge[i] % 1000

\* What a node that numbers its reports carries for an account that stays on it is
\* billed once: bytes carried and not billed are those it still holds, whatever
\* happens to other accounts, inbounds or the report meanwhile, and also once the
\* account has used up its quota (service/traffic.go, "Membership, not activity").
NothingDropped ==
  \A n \in Nodes \ Unnumbered : \A s \in steady : Home[s[1]] = n =>
    LET m == account[s[2]].name IN
    owed[n][s[2]] = carried[n][m] + (IF recorded[n] THEN 0 ELSE outbox[n][m])

\* A node's users are those of the database, or it is owed a push, or about to be
\* by a handler that has taken an account over its quota.
UsersFollow ==
  \A n \in Nodes : given[n] = NodeUsers(n) \/ n \in pending \/ \E h \in Nodes : crossed[h]

\* "Only the ticked inbounds; new inbounds are not added automatically" (guide.md):
\* an account may use what was last ticked for it, as long as that is there.
OnlyTicked ==
  \A i \in Present : {k \in Existing : Allowed(i, k)} = wanted[i] \cap Existing

=============================================================================
