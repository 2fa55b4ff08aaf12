---------------------------- MODULE BillingProofs ----------------------------
(***************************************************************************)
(* What holds of Billing for any nodes, inbounds, names, rates and bounds: *)
(* every thousandth of a byte is billed once, and an account may use what  *)
(* was ticked for it as long as the last tick is not deleted.              *)
(***************************************************************************)
EXTENDS Billing, TLAPS

Row == [name : Names \cup {NoName}, limit : Limits \cup {0}, used : Nat, rem : 0..999]

\* The division keeps what it bills and what it leaves over together.
LEMMA BilledExact ==
  ASSUME NEW row \in Row, NEW cost \in Nat
  PROVE  /\ Billed(row, cost) \in Row
         /\ 1000 * Billed(row, cost).used + Billed(row, cost).rem = 1000 * row.used + row.rem + cost
<1>1. row.name \in Names \cup {NoName} /\ row.limit \in Limits \cup {0} /\ row.used \in Nat /\ row.rem \in Nat
  BY DEF Row
<1> DEFINE q == (cost + row.rem) \div 1000
           r == (cost + row.rem) % 1000
<1>2. q \in Nat /\ r \in 0..999 /\ 1000 * q + r = cost + row.rem
  <2>1. cost + row.rem \in Nat
    BY <1>1
  <2>2. PICK c \in Nat : c = cost + row.rem
    BY <2>1
  <2>3. c \div 1000 \in Nat /\ c % 1000 \in 0..999 /\ 1000 * (c \div 1000) + (c % 1000) = c
    BY SMT
  <2>4. q = c \div 1000 /\ r = c % 1000
    BY <2>2
  <2> HIDE DEF q, r
  <2> QED
    BY <2>2, <2>3, <2>4
<1>3. Billed(row, cost) = [name |-> row.name, limit |-> row.limit, used |-> row.used + q, rem |-> r]
  BY DEF Billed
<1> HIDE DEF q, r
<1>4. Billed(row, cost) \in Row
  BY <1>1, <1>2, <1>3 DEF Row
<1>5. Billed(row, cost).used = row.used + q /\ Billed(row, cost).rem = r
  BY <1>3
<1>6. 1000 * (row.used + q) + r = 1000 * row.used + row.rem + cost
  <2>1. PICK u \in Nat, f \in Nat : u = row.used /\ f = row.rem
    BY <1>1
  <2>2. 1000 * (u + q) + r = 1000 * u + f + cost
    BY <1>2, <2>1
  <2> QED
    BY <2>1, <2>2
<1> QED
  BY <1>4, <1>5, <1>6

-----------------------------------------------------------------------------
(* Exact billing *)

\* What the proofs use of the assumption.
LEMMA Bounds == Rates \subseteq Nat /\ MaxDelta \in Nat /\ 0 \notin Inbounds
  BY BillingAssumption

\* The types the arithmetic rests on, and the cost of every row, present or not.
Exact ==
  /\ account \in [Ids -> Row]
  /\ rate \in [Nodes -> Rates \cup {1000}]
  /\ deltas \in [Nodes -> [Ids -> 0..MaxDelta]]
  /\ charge \in [Ids -> Nat]
  /\ \A i \in Ids : 1000 * account[i].used + account[i].rem = charge[i]

LEMMA ExactInit == Init => Exact
<1> SUFFICES ASSUME Init PROVE Exact
  OBVIOUS
<1>1. PICK q \in Limits : account = [i \in Ids |-> IF i \in DOMAIN First
                                 THEN Account(First[i], q)
                                 ELSE NoAccount]
  BY DEF Init
<1>2. ASSUME NEW i \in Ids
      PROVE  account[i] \in Row /\ account[i].used = 0 /\ account[i].rem = 0
  <2>1. NoAccount \in Row /\ NoAccount.used = 0 /\ NoAccount.rem = 0
    BY DEF NoAccount, Account, Row
  <2>2. CASE i \in DOMAIN First
    <3>1. First[i] \in Names
      BY <2>2, BillingAssumption
    <3>2. account[i] = Account(First[i], q)
      BY <1>1, <2>2
    <3> QED
      BY <3>1, <3>2 DEF Row, Account
  <2>3. CASE i \notin DOMAIN First
    BY <1>1, <2>1, <2>3
  <2> QED
    BY <2>2, <2>3
<1>3. account \in [Ids -> Row]
  BY <1>1, <1>2
<1>4. /\ rate \in [Nodes -> Rates \cup {1000}] /\ deltas = [n \in Nodes |-> [i \in Ids |-> 0]]
      /\ charge = [i \in Ids |-> 0]
  BY DEF Init, DefaultRate
<1>5. [i \in Ids |-> 0] \in [Ids -> 0..MaxDelta]
  BY Bounds
<1>6. deltas \in [Nodes -> [Ids -> 0..MaxDelta]]
  BY <1>4, <1>5
<1> QED
  BY <1>2, <1>3, <1>4, <1>6 DEF Exact

LEMMA ResetExact ==
  ASSUME Exact, NEW i \in Ids, ResetUserTraffic(i) PROVE Exact'
<1>1. account' = [account EXCEPT ![i] = Account(account[i].name, account[i].limit)]
  BY DEF ResetUserTraffic
<1>2. account[i] \in Row
  BY DEF Exact
<1>3. /\ Account(account[i].name, account[i].limit) \in Row
      /\ Account(account[i].name, account[i].limit).used = 0
      /\ Account(account[i].name, account[i].limit).rem = 0
  BY <1>2 DEF Row, Account
<1>4. charge' = [charge EXCEPT ![i] = 0] /\ rate' = rate /\ deltas' = deltas
  BY DEF ResetUserTraffic, handVars
<1> QED
  BY <1>1, <1>3, <1>4 DEF Exact

LEMMA CostTyped ==
  ASSUME Exact, NEW n \in Nodes, NEW i \in Ids
  PROVE  deltas[n][i] * rate[n] \in Nat
<1>1. deltas[n] \in [Ids -> 0..MaxDelta] /\ rate[n] \in Rates \cup {1000}
  BY DEF Exact
<1>2. deltas[n][i] \in Nat /\ rate[n] \in Nat
  BY <1>1, Bounds
<1> QED
  BY <1>2

LEMMA AddTrafficExact ==
  ASSUME Exact, NEW n \in Nodes, AddTraffic(n) PROVE Exact'
<1> DEFINE due == {i \in Ids : deltas[n][i] > 0}
           cost(i) == deltas[n][i] * rate[n]
<1>1. /\ account' = [i \in Ids |-> IF i \in due THEN Billed(account[i], cost(i)) ELSE account[i]]
      /\ charge' = [i \in Ids |-> IF i \in due THEN charge[i] + cost(i) ELSE charge[i]]
      /\ deltas' = [deltas EXCEPT ![n] = [i \in Ids |-> 0]]
      /\ rate' = rate
  BY DEF AddTraffic
<1>2. ASSUME NEW i \in Ids
      PROVE  /\ account'[i] \in Row /\ charge'[i] \in Nat
             /\ 1000 * account'[i].used + account'[i].rem = charge'[i]
  <2>1. /\ account[i] \in Row /\ charge[i] \in Nat
        /\ 1000 * account[i].used + account[i].rem = charge[i]
    BY DEF Exact
  <2>2. cost(i) \in Nat
    BY CostTyped
  <2> HIDE DEF cost
  <2>3. CASE i \in due
    <3>1. PICK c \in Nat : c = cost(i)
      BY <2>2
    <3>2. account'[i] = Billed(account[i], c) /\ charge'[i] = charge[i] + c
      BY <1>1, <2>3, <3>1
    <3>3. /\ Billed(account[i], c) \in Row
          /\ 1000 * Billed(account[i], c).used + Billed(account[i], c).rem
               = 1000 * account[i].used + account[i].rem + c
      BY <2>1, BilledExact
    <3>4. charge'[i] = 1000 * account[i].used + account[i].rem + c
      BY <2>1, <3>2
    <3>5. charge'[i] \in Nat
      BY <2>1, <3>2
    <3> QED
      BY <3>2, <3>3, <3>4, <3>5
  <2>4. CASE i \notin due
    <3>1. account'[i] = account[i] /\ charge'[i] = charge[i]
      BY <1>1, <2>4
    <3> QED
      BY <2>1, <3>1
  <2> QED
    BY <2>3, <2>4
<1>3. account' \in [Ids -> Row] /\ charge' \in [Ids -> Nat]
  BY <1>1, <1>2
<1>4. deltas' \in [Nodes -> [Ids -> 0..MaxDelta]]
  <2>1. [i \in Ids |-> 0] \in [Ids -> 0..MaxDelta]
    BY Bounds
  <2> QED
    BY <1>1, <2>1 DEF Exact
<1> QED
  BY <1>1, <1>2, <1>3, <1>4 DEF Exact

LEMMA BillableTyped ==
  ASSUME NEW n \in Nodes PROVE Billable(n) \in [Ids -> 0..MaxDelta]
<1> SUFFICES ASSUME NEW i \in Ids PROVE Billable(n)[i] \in 0..MaxDelta
  BY DEF Billable
<1> DEFINE amounts == {outbox[n][u[2]] : u \in {v \in byName[n] : v[1] = i}} \cap 1..MaxDelta
<1>1. Billable(n)[i] = IF \E k \in enabled[n] : Allowed(i, k)
                       THEN IF amounts = {} THEN 0 ELSE CHOOSE d \in amounts : TRUE
                       ELSE 0
  BY DEF Billable
<1>2. amounts \subseteq 0..MaxDelta /\ 0 \in 0..MaxDelta
  BY Bounds
<1> HIDE DEF amounts
<1>3. amounts # {} => (CHOOSE d \in amounts : TRUE) \in amounts
  OBVIOUS
<1> QED
  BY <1>1, <1>2, <1>3

\* A handler that ends holds nothing to bill.
LEMMA IdleExact ==
  ASSUME Exact, NEW n \in Nodes, Idle(n) PROVE deltas' \in [Nodes -> [Ids -> 0..MaxDelta]]
<1>1. [i \in Ids |-> 0] \in [Ids -> 0..MaxDelta]
  BY Bounds
<1> QED
  BY <1>1 DEF Exact, Idle

LEMMA ExactCalls == Exact /\ Calls => Exact'
<1> SUFFICES ASSUME Exact, Calls PROVE Exact'
  OBVIOUS
<1>1. ASSUME NEW i \in Ids, NEW m \in Names, NEW limit \in Limits, CreateUser(i, m, limit)
      PROVE  Exact'
  <2>1. Account(m, limit) \in Row /\ Account(m, limit).used = 0 /\ Account(m, limit).rem = 0
    BY DEF Account, Row
  <2>2. /\ account' = [account EXCEPT ![i] = Account(m, limit)]
        /\ charge' = [charge EXCEPT ![i] = 0] /\ rate' = rate /\ deltas' = deltas
    BY <1>1 DEF CreateUser, handVars
  <2> QED
    BY <2>1, <2>2 DEF Exact
<1>2. ASSUME NEW i \in Ids, NEW m \in Names, NEW limit \in Limits, UpdateUser(i, m, limit)
      PROVE  Exact'
  <2> DEFINE row == [name |-> m, limit |-> limit, used |-> account[i].used, rem |-> account[i].rem]
  <2>1. row \in Row /\ row.used = account[i].used /\ row.rem = account[i].rem
    BY DEF Exact, Row
  <2>2. /\ account' = [account EXCEPT ![i] = row]
        /\ UNCHANGED <<charge, rate, deltas>>
    BY <1>2 DEF UpdateUser, handVars
  <2> HIDE DEF row
  <2> QED
    BY <2>1, <2>2 DEF Exact
<1>3. ASSUME NEW i \in Ids, DeleteUser(i)
      PROVE  Exact'
  <2>1. NoAccount \in Row /\ NoAccount.used = 0 /\ NoAccount.rem = 0
    BY DEF NoAccount, Account, Row
  <2>2. /\ account' = [account EXCEPT ![i] = NoAccount]
        /\ charge' = [charge EXCEPT ![i] = 0] /\ rate' = rate /\ deltas' = deltas
    BY <1>3 DEF DeleteUser, handVars
  <2> QED
    BY <2>1, <2>2 DEF Exact
<1>4. ASSUME NEW i \in Ids, ResetUserTraffic(i)
      PROVE  Exact'
  BY <1>4, ResetExact
<1>5. ASSUME NEW i \in Ids, NEW picked, SetAccessReads(i, picked)
      PROVE  Exact'
  BY <1>5 DEF SetAccessReads, tables, handVars, Exact
<1>6. ASSUME NEW k \in Inbounds, CreateInbound(k) \/ SetInboundEnabled(k) \/ DeleteInbound(k)
      PROVE  Exact'
  BY <1>6 DEF CreateInbound, SetInboundEnabled, DeleteInbound, handVars, Exact
<1>7. ASSUME NEW n \in Nodes, NEW r \in Rates, SetRate(n, r)
      PROVE  Exact'
  BY <1>7 DEF SetRate, handVars, Exact
<1> QED
  BY <1>1, <1>2, <1>3, <1>4, <1>5, <1>6, <1>7 DEF Calls

LEMMA ExactHandler ==
  ASSUME Exact, NEW n \in Nodes, Handler(n) PROVE Exact'
<1>1. CASE ReadInbounds(n) \/ ReadUsers(n)
  BY <1>1 DEF ReadInbounds, ReadUsers, tables, Exact
<1>2. CASE ReadRestrictions(n)
  <2>1. UNCHANGED <<account, rate, charge>> /\ deltas' = [deltas EXCEPT ![n] = Billable(n)]
    BY <1>2 DEF ReadRestrictions, tables
  <2> QED
    BY <2>1, BillableTyped DEF Exact
<1>3. CASE Repeat(n)
  <2>1. [i \in Ids |-> 0] \in [Ids -> 0..MaxDelta]
    BY Bounds
  <2> QED
    BY <1>3, <2>1 DEF Repeat, tables, Exact
<1>4. CASE AddTraffic(n)
  BY <1>4, AddTrafficExact
<1>5. CASE AddTrafficFails(n)
  BY <1>5, IdleExact DEF AddTrafficFails, Fails, tables, Exact
<1>6. CASE Acknowledge(n)
  BY <1>6, IdleExact DEF Acknowledge, tables, Exact
<1> QED
  BY <1>1, <1>2, <1>3, <1>4, <1>5, <1>6 DEF Handler

LEMMA ExactStep == Exact /\ [Next]_vars => Exact'
<1> SUFFICES ASSUME Exact, [Next]_vars PROVE Exact'
  OBVIOUS
<1>1. CASE Calls
  BY <1>1, ExactCalls
<1>2. CASE SetAccessWrites
  BY <1>2 DEF SetAccessWrites, tables, handVars, Exact
<1>3. CASE PanelRestart
  <2>1. [i \in Ids |-> 0] \in [Ids -> 0..MaxDelta]
    BY Bounds
  <2> QED
    BY <1>3, <2>1 DEF PanelRestart, tables, Exact
<1>4. ASSUME NEW n \in Nodes, Push(n) \/ Report(n) \/ (\E m \in Names : Carry(n, m))
      PROVE  Exact'
  BY <1>4 DEF Push, Report, Carry, tables, handVars, Exact
<1>5. ASSUME NEW n \in Nodes, Handler(n)
      PROVE  Exact'
  BY <1>5, ExactHandler
<1>6. ASSUME NEW n \in Nodes, DatabaseFails(n)
      PROVE  Exact'
  BY <1>6, IdleExact DEF DatabaseFails, Fails, tables, Exact
<1>7. CASE UNCHANGED vars
  BY <1>7 DEF vars, tables, handVars, Exact
<1> QED
  BY <1>1, <1>2, <1>3, <1>4, <1>5, <1>6, <1>7 DEF Next

\* However many nodes report, at whatever rates, and whenever rates change and usage
\* is reset: a user's bytes and fraction are what the reports since have cost.
THEOREM BillingIsExact == Spec => []ExactlyBilled
<1>1. Init => Exact
  BY ExactInit
<1>2. Exact /\ [Next]_vars => Exact'
  BY ExactStep
<1>3. Exact => ExactlyBilled
  <2> SUFFICES ASSUME Exact, NEW i \in Ids
               PROVE  account[i].used = charge[i] \div 1000 /\ account[i].rem = charge[i] % 1000
    BY DEF ExactlyBilled, Present
  <2>1. PICK u \in Nat, r \in 0..999 : account[i].used = u /\ account[i].rem = r
    BY DEF Exact, Row
  <2>2. charge[i] = 1000 * u + r
    BY <2>1 DEF Exact
  <2>3. u = (1000 * u + r) \div 1000 /\ r = (1000 * u + r) % 1000
    BY SMT
  <2> QED
    BY <2>1, <2>2, <2>3
<1> QED
  BY <1>1, <1>2, <1>3, PTL DEF Spec

-----------------------------------------------------------------------------
(* Nobody but the ticked *)

\* Rows of user_inbounds stand for what was asked for, and only as long as they
\* are there: no account loses its last one.
Ticks ==
  /\ account \in [Ids -> Row]
  /\ ticked \in [Ids -> SUBSET Inbounds] /\ wanted \in [Ids -> SUBSET All]
  /\ status \in [Inbounds -> {"none", "on", "off"}]
  /\ form # NoForm => /\ form.id \in Ids
                      /\ form.picked = All \/ (form.picked # {} /\ form.picked \subseteq Inbounds)
  /\ \A i \in Present : \/ ticked[i] = {} /\ wanted[i] = All
                        \/ ticked[i] # {} /\ wanted[i] = ticked[i]
  /\ \A i \in Ids : ticked[i] \subseteq Existing
  /\ \A i \in Ids \ Present : ticked[i] = {}

LEMMA TicksInit == Init => Ticks
<1> SUFFICES ASSUME Init PROVE Ticks
  OBVIOUS
<1>1. PICK s \in {{}} \cup {{k} : k \in Inbounds} : ticked = [i \in Ids |-> IF i \in {1} \cap DOMAIN First THEN s ELSE {}]
  BY DEF Init
<1>2. status = [k \in Inbounds |-> "on"] /\ form = NoForm
      /\ wanted = [i \in Ids |-> IF ticked[i] = {} THEN All ELSE ticked[i]]
  BY DEF Init
<1>3. ticked \in [Ids -> SUBSET Inbounds] /\ Existing = Inbounds
  BY <1>1, <1>2 DEF Existing
<1>4. wanted \in [Ids -> SUBSET All]
  BY <1>2, <1>3 DEF All
<1>5. account \in [Ids -> Row]
  BY ExactInit DEF Exact
<1>6. \A i \in Ids \ Present : ticked[i] = {}
  <2> SUFFICES ASSUME NEW i \in Ids, ticked[i] # {} PROVE i \in Present
    OBVIOUS
  <2>1. PICK q \in Limits : account = [j \in Ids |-> IF j \in DOMAIN First THEN Account(First[j], q) ELSE NoAccount]
    BY DEF Init
  <2>2. i = 1 /\ 1 \in DOMAIN First
    BY <1>1, BillingAssumption
  <2>3. account[i] = Account(First[1], q) /\ First[1] \in Names /\ NoName \notin Names
    BY <2>1, <2>2, BillingAssumption
  <2> QED
    BY <2>3 DEF Present, Account
<1>7. \A i \in Present : \/ ticked[i] = {} /\ wanted[i] = All
                         \/ ticked[i] # {} /\ wanted[i] = ticked[i]
  BY <1>2 DEF Present
<1> QED
  BY <1>2, <1>3, <1>4, <1>5, <1>6, <1>7 DEF Ticks

LEMMA TicksCalls ==
  ASSUME "last_tick" \notin Circumstances, Ticks, Calls, Exact' PROVE Ticks'
<1>0. account' \in [Ids -> Row]
  BY DEF Exact
<1>1. ASSUME NEW i \in Ids, NEW m \in Names, NEW limit \in Limits, CreateUser(i, m, limit)
      PROVE  Ticks'
  <2>1. i \notin Present
    BY <1>1 DEF CreateUser, IsNewId, Ids
  <2>2. /\ account' = [account EXCEPT ![i] = Account(m, limit)]
        /\ wanted' = [wanted EXCEPT ![i] = All]
        /\ UNCHANGED <<ticked, status, form>>
    BY <1>1 DEF CreateUser
  <2>3. Present' = Present \cup {i} /\ Existing' = Existing
    BY <2>2, BillingAssumption DEF Present, Existing, Account, Ticks
  <2> QED
    BY <1>0, <2>1, <2>2, <2>3 DEF Ticks
<1>2. ASSUME NEW i \in Ids, NEW m \in Names, NEW limit \in Limits, UpdateUser(i, m, limit)
      PROVE  Ticks'
  <2>1. /\ account' = [account EXCEPT ![i] = [name |-> m, limit |-> limit, used |-> @.used, rem |-> @.rem]]
        /\ i \in Present
        /\ UNCHANGED <<ticked, wanted, status, form>>
    BY <1>2 DEF UpdateUser
  <2>2. Present' = Present /\ Existing' = Existing
    BY <2>1, BillingAssumption DEF Present, Existing, Ticks
  <2> QED
    BY <1>0, <2>1, <2>2 DEF Ticks
<1>3. ASSUME NEW i \in Ids, DeleteUser(i)
      PROVE  Ticks'
  <2>1. /\ account' = [account EXCEPT ![i] = NoAccount]
        /\ ticked' = [ticked EXCEPT ![i] = {}]
        /\ UNCHANGED <<wanted, status, form>>
    BY <1>3 DEF DeleteUser
  <2>2. Present' = Present \ {i} /\ Existing' = Existing
    BY <2>1 DEF Present, Existing, NoAccount, Account, Ticks
  <2> QED
    BY <1>0, <2>1, <2>2 DEF Ticks
<1>4. ASSUME NEW i \in Ids, ResetUserTraffic(i)
      PROVE  Ticks'
  <2>1. /\ account' = [account EXCEPT ![i] = Account(@.name, @.limit)]
        /\ UNCHANGED <<ticked, wanted, status, form>>
    BY <1>4 DEF ResetUserTraffic
  <2>2. Present' = Present /\ Existing' = Existing
    BY <2>1 DEF Present, Existing, Account, Ticks
  <2> QED
    BY <1>0, <2>1, <2>2 DEF Ticks
<1>5. ASSUME NEW i \in Ids, NEW picked, SetAccessReads(i, picked)
      PROVE  Ticks'
  <2>1. /\ form' = [id |-> i, picked |-> picked]
        /\ picked = All \/ (picked # {} /\ picked \subseteq Inbounds)
        /\ UNCHANGED <<account, ticked, wanted, status>>
    BY <1>5 DEF SetAccessReads, tables, Existing
  <2>2. Present' = Present /\ Existing' = Existing
    BY <2>1 DEF Present, Existing
  <2> QED
    BY <2>1, <2>2 DEF Ticks
<1>6. ASSUME NEW k \in Inbounds, CreateInbound(k) \/ SetInboundEnabled(k)
      PROVE  Ticks'
  <2>1. /\ status' \in [Inbounds -> {"none", "on", "off"}]
        /\ \A j \in Inbounds : status[j] # "none" => status'[j] # "none"
        /\ UNCHANGED <<account, ticked, wanted, form>>
    BY <1>6 DEF CreateInbound, SetInboundEnabled, Ticks
  <2>2. Present' = Present /\ Existing \subseteq Existing'
    BY <2>1 DEF Present, Existing
  <2> QED
    BY <2>1, <2>2 DEF Ticks
<1>7. ASSUME NEW k \in Inbounds, DeleteInbound(k)
      PROVE  Ticks'
  <2>1. /\ status' = [status EXCEPT ![k] = "none"]
        /\ ticked' = [i \in Ids |-> ticked[i] \ {k}]
        /\ wanted' = [i \in Ids |-> IF wanted[i] = All THEN All ELSE wanted[i] \ {k}]
        /\ \A i \in Ids : ticked[i] # {k}
        /\ UNCHANGED <<account, form>>
    BY <1>7 DEF DeleteInbound
  <2>2. Present' = Present /\ Existing' = Existing \ {k}
    BY <2>1 DEF Present, Existing, Ticks
  <2>3. \A i \in Ids : ticked[i] # All
    BY Bounds DEF Ticks, All
  <2>4. \A i \in Ids : ticked[i] # {} => ticked'[i] # {}
    BY <2>1 DEF Ticks
  <2>5. /\ ticked' \in [Ids -> SUBSET Inbounds] /\ wanted' \in [Ids -> SUBSET All]
        /\ status' \in [Inbounds -> {"none", "on", "off"}]
    BY <2>1 DEF Ticks, All
  <2>6. \A i \in Present' : \/ ticked'[i] = {} /\ wanted'[i] = All
                            \/ ticked'[i] # {} /\ wanted'[i] = ticked'[i]
    BY <2>1, <2>2, <2>3, <2>4 DEF Ticks, Present
  <2>7. \A i \in Ids : ticked'[i] \subseteq Existing'
    BY <2>1, <2>2 DEF Ticks
  <2>8. \A i \in Ids \ Present' : ticked'[i] = {}
    BY <2>1, <2>2 DEF Ticks
  <2>9. form' # NoForm => /\ form'.id \in Ids
                          /\ form'.picked = All \/ (form'.picked # {} /\ form'.picked \subseteq Inbounds)
    BY <2>1 DEF Ticks
  <2> QED
    BY <1>0, <2>5, <2>6, <2>7, <2>8, <2>9 DEF Ticks
<1>8. ASSUME NEW n \in Nodes, NEW r \in Rates, SetRate(n, r)
      PROVE  Ticks'
  BY <1>8 DEF SetRate, Ticks, Present, Existing
<1> QED
  BY <1>1, <1>2, <1>3, <1>4, <1>5, <1>6, <1>7, <1>8 DEF Calls

LEMMA TicksSaved ==
  ASSUME Ticks, SetAccessWrites PROVE Ticks'
<1> DEFINE i == form.id
           saved == i \in Present /\ (form.picked = All \/ form.picked \subseteq Existing)
<1>1. form # NoForm /\ form' = NoForm /\ i \in Ids
      /\ (form.picked = All \/ (form.picked # {} /\ form.picked \subseteq Inbounds))
  BY DEF SetAccessWrites, Ticks
<1>2. CASE saved
  <2>1. /\ ticked' = [ticked EXCEPT ![i] = IF form.picked = All THEN {} ELSE form.picked]
        /\ wanted' = [wanted EXCEPT ![i] = form.picked]
        /\ UNCHANGED <<account, status>>
    BY <1>2 DEF SetAccessWrites
  <2>2. Present' = Present /\ Existing' = Existing
    BY <2>1 DEF Present, Existing
  <2>3. ticked' \in [Ids -> SUBSET Inbounds] /\ wanted' \in [Ids -> SUBSET All]
    BY <1>1, <2>1 DEF Ticks, All
  <2> QED
    BY <1>1, <1>2, <2>1, <2>2, <2>3 DEF Ticks
<1>3. CASE ~saved
  <2>1. UNCHANGED <<account, ticked, status, wanted>>
    BY <1>3 DEF SetAccessWrites, tables
  <2>2. Present' = Present /\ Existing' = Existing
    BY <2>1 DEF Present, Existing
  <2> QED
    BY <1>1, <2>1, <2>2 DEF Ticks
<1> QED
  BY <1>2, <1>3

LEMMA TicksKept ==
  ASSUME Ticks, UNCHANGED <<ticked, status, wanted>>, account' \in [Ids -> Row],
         \A i \in Ids : account'[i].name = account[i].name,
         form' = form \/ form' = NoForm
  PROVE  Ticks'
<1>1. Present' = Present /\ Existing' = Existing
  BY DEF Present, Existing
<1> QED
  BY <1>1 DEF Ticks

LEMMA TicksStep ==
  ASSUME "last_tick" \notin Circumstances, Ticks, Exact', [Next]_vars PROVE Ticks'
<1>0. account' \in [Ids -> Row]
  BY DEF Exact
<1>1. CASE Calls
  BY <1>1, TicksCalls
<1>2. CASE SetAccessWrites
  BY <1>2, TicksSaved
<1>3. CASE PanelRestart
  BY <1>0, <1>3, TicksKept DEF PanelRestart, tables
<1>4. ASSUME NEW n \in Nodes, Push(n) \/ Report(n) \/ (\E m \in Names : Carry(n, m)) \/ DatabaseFails(n)
      PROVE  Ticks'
  BY <1>0, <1>4, TicksKept DEF Push, Report, Carry, DatabaseFails, Fails, tables
<1>5. ASSUME NEW n \in Nodes, AddTraffic(n)
      PROVE  Ticks'
  <2>1. \A i \in Ids : account'[i].name = account[i].name
    BY <1>5 DEF AddTraffic, Billed
  <2>2. UNCHANGED <<ticked, status, wanted, form>>
    BY <1>5 DEF AddTraffic
  <2> QED
    BY <1>0, <2>1, <2>2, TicksKept
<1>6. ASSUME NEW n \in Nodes,
             ReadInbounds(n) \/ ReadUsers(n) \/ ReadRestrictions(n) \/ Repeat(n) \/ AddTrafficFails(n) \/ Acknowledge(n)
      PROVE  Ticks'
  BY <1>0, <1>6, TicksKept
     DEF ReadInbounds, ReadUsers, ReadRestrictions, Repeat, AddTrafficFails, Fails, Acknowledge, tables
<1>7. CASE UNCHANGED vars
  BY <1>0, <1>7, TicksKept DEF vars, tables
<1> QED
  BY <1>1, <1>2, <1>3, <1>4, <1>5, <1>6, <1>7 DEF Next, Handler

\* As long as no account loses its last ticked inbound, every account may use
\* exactly what was last ticked for it, new inbounds only if all were.
THEOREM TicksAreKept ==
  ASSUME "last_tick" \notin Circumstances PROVE Spec => []OnlyTicked
<1>1. Init => Exact /\ Ticks
  BY ExactInit, TicksInit
<1>2. Exact /\ Ticks /\ [Next]_vars => (Exact /\ Ticks)'
  BY ExactStep, TicksStep
<1>3. Ticks => OnlyTicked
  BY DEF Ticks, OnlyTicked, Allowed, All, Existing, Present
<1> QED
  BY <1>1, <1>2, <1>3, PTL DEF Spec
-----------------------------------------------------------------------------
(* Types *)

\* What TypeOK says besides the types of Exact: the tables, the nodes and what
\* goes on between them and the panel, and the handlers.
TablesTyped ==
  /\ \A i, j \in Present : account[i].name = account[j].name => i = j
  /\ ticked \in [Ids -> SUBSET Inbounds] /\ wanted \in [Ids -> SUBSET All]
  /\ status \in [Inbounds -> {"none", "on", "off"}]
  /\ form \in [id : Ids \cup {0}, picked : SUBSET All]
  /\ steady \subseteq Inbounds \X Ids

NodesTyped ==
  /\ pending \subseteq Nodes /\ given \in [Nodes -> SUBSET Names]
  /\ carried \in [Nodes -> [Names -> Nat]] /\ outbox \in [Nodes -> [Names -> Nat]]
  /\ owed \in [Nodes -> [Ids -> Int]]
  /\ bytes \in 0..MaxBytes /\ events \in 0..MaxEvents

HandlersTyped ==
  /\ recorded \in [Nodes -> BOOLEAN] /\ crossed \in [Nodes -> BOOLEAN]
  /\ pc \in [Nodes -> Stages] /\ enabled \in [Nodes -> SUBSET Inbounds]
  /\ byName \in [Nodes -> SUBSET (Ids \X Names)]

Typed == Exact /\ TablesTyped /\ NodesTyped /\ HandlersTyped

LEMMA TypedIsTypeOK == Typed => TypeOK
  BY DEF Typed, Exact, TablesTyped, NodesTyped, HandlersTyped, TypeOK, Row, DefaultRate

LEMMA NamesOfPresent ==
  ASSUME Exact PROVE \A i \in Present : i \in Ids /\ account[i].name \in Names
  BY DEF Exact, Row, Present

LEMMA TypedInit == Init => Typed
<1> SUFFICES ASSUME Init PROVE Typed
  OBVIOUS
<1>1. PICK q \in Limits : account = [i \in Ids |-> IF i \in DOMAIN First
                                 THEN Account(First[i], q)
                                 ELSE NoAccount]
  BY DEF Init
<1>2. TablesTyped
  <2>1. ticked \in [Ids -> SUBSET Inbounds]
    BY TicksInit DEF Ticks
  <2>2. wanted \in [Ids -> SUBSET All] /\ status \in [Inbounds -> {"none", "on", "off"}]
    BY <2>1 DEF Init, All
  <2>3. form \in [id : Ids \cup {0}, picked : SUBSET All]
    BY DEF Init, NoForm
  <2>4. steady \subseteq Inbounds \X Ids
    BY BillingAssumption DEF Init
  <2>5. ASSUME NEW i \in Present, NEW j \in Present, account[i].name = account[j].name
        PROVE  i = j
    <3>1. i \in DOMAIN First /\ j \in DOMAIN First
      BY <1>1 DEF Present, NoAccount, Account
    <3>2. First[i] = First[j]
      BY <1>1, <2>5, <3>1 DEF Present, Account
    <3> QED
      BY <3>1, <3>2, BillingAssumption
  <2> QED
    BY <2>1, <2>2, <2>3, <2>4, <2>5 DEF TablesTyped
<1>3. NodesTyped
  BY BillingAssumption DEF Init, NodesTyped, Nothing
<1>4. HandlersTyped
  BY DEF Init, HandlersTyped, Stages
<1> QED
  BY <1>2, <1>3, <1>4, ExactInit DEF Typed

LEMMA TablesStep ==
  ASSUME Typed, Exact', [Next]_vars PROVE TablesTyped'
<1> USE DEF Typed
<1>0. steady' \subseteq steady
  BY DEF Next, vars, Calls, CreateUser, UpdateUser, DeleteUser, ResetUserTraffic, SetAccessReads, CreateInbound,
     SetInboundEnabled, DeleteInbound, SetRate, SetAccessWrites, PanelRestart, Push, Report, Carry, Handler,
     ReadInbounds, ReadUsers, ReadRestrictions, Repeat, AddTraffic, AddTrafficFails, DatabaseFails, Fails,
     Acknowledge, Told
<1>1. ASSUME NEW i \in Ids, NEW m \in Names, NEW limit \in Limits, CreateUser(i, m, limit)
      PROVE  TablesTyped'
  <2>1. /\ account' = [account EXCEPT ![i] = Account(m, limit)]
        /\ wanted' = [wanted EXCEPT ![i] = All] /\ Free(m)
        /\ UNCHANGED <<ticked, status, form>>
    BY <1>1 DEF CreateUser
  <2>2. Present' \subseteq Present \cup {i} /\ account'[i].name = m /\ \A j \in Ids : j # i => account'[j] = account[j]
    BY <2>1 DEF Exact, Present, Account
  <2>3. \A j, k \in Present' : account'[j].name = account'[k].name => j = k
    BY <2>1, <2>2 DEF TablesTyped, Free, Present
  <2> QED
    BY <1>0, <2>1, <2>3 DEF TablesTyped
<1>2. ASSUME NEW i \in Ids, NEW m \in Names, NEW limit \in Limits, UpdateUser(i, m, limit)
      PROVE  TablesTyped'
  <2>1. /\ account' = [account EXCEPT ![i] = [name |-> m, limit |-> limit, used |-> @.used, rem |-> @.rem]]
        /\ i \in Present /\ (account[i].name = m \/ Free(m))
        /\ UNCHANGED <<ticked, status, wanted, form>>
    BY <1>2 DEF UpdateUser
  <2>2. Present' \subseteq Present /\ account'[i].name = m /\ \A j \in Ids : j # i => account'[j] = account[j]
    BY <2>1 DEF Exact, Present
  <2>3. \A j, k \in Present' : account'[j].name = account'[k].name => j = k
    BY <2>1, <2>2 DEF TablesTyped, Free, Present
  <2> QED
    BY <1>0, <2>1, <2>3 DEF TablesTyped
<1>3. ASSUME NEW i \in Ids, DeleteUser(i)
      PROVE  TablesTyped'
  <2>1. /\ account' = [account EXCEPT ![i] = NoAccount] /\ ticked' = [ticked EXCEPT ![i] = {}]
        /\ UNCHANGED <<status, wanted, form>>
    BY <1>3 DEF DeleteUser
  <2>2. \A j \in Present' : j \in Present /\ account'[j].name = account[j].name
    BY <2>1 DEF Exact, Present, NoAccount, Account
  <2> QED
    BY <1>0, <2>1, <2>2 DEF TablesTyped
<1>4. ASSUME UNCHANGED <<ticked, status, wanted>>, \A i \in Ids : account'[i].name = account[i].name,
             form' = form \/ form' = NoForm
      PROVE  TablesTyped'
  <2>1. Present' = Present /\ NoForm \in [id : Ids \cup {0}, picked : SUBSET All]
    BY <1>4 DEF Present, NoForm
  <2>2. \A j, k \in Present' : account'[j].name = account'[k].name => j = k
    BY <1>4, <2>1 DEF TablesTyped, Present
  <2> QED
    BY <1>0, <1>4, <2>1, <2>2 DEF TablesTyped
<1>5. ASSUME NEW i \in Ids, ResetUserTraffic(i)
      PROVE  TablesTyped'
  <2>1. \A j \in Ids : account'[j].name = account[j].name
    BY <1>5 DEF ResetUserTraffic, Account, Exact
  <2> QED
    BY <1>4, <1>5, <2>1 DEF ResetUserTraffic
<1>6. ASSUME NEW i \in Ids, NEW picked \in (SUBSET Inbounds) \cup {All}, SetAccessReads(i, picked)
      PROVE  TablesTyped'
  <2>1. form' = [id |-> i, picked |-> picked] /\ UNCHANGED <<account, ticked, status, wanted>>
    BY <1>6 DEF SetAccessReads, tables
  <2>2. form' \in [id : Ids \cup {0}, picked : SUBSET All]
    BY <2>1 DEF All
  <2> QED
    BY <1>0, <2>1, <2>2 DEF TablesTyped, Present
<1>7. ASSUME NEW k \in Inbounds, CreateInbound(k) \/ SetInboundEnabled(k) \/ DeleteInbound(k)
      PROVE  TablesTyped'
  <2>1. account' = account /\ form' = form /\ status' \in [Inbounds -> {"none", "on", "off"}]
    BY <1>7 DEF CreateInbound, SetInboundEnabled, DeleteInbound, TablesTyped
  <2>2. ticked' \in [Ids -> SUBSET Inbounds] /\ wanted' \in [Ids -> SUBSET All]
    BY <1>7 DEF CreateInbound, SetInboundEnabled, DeleteInbound, TablesTyped, All
  <2> QED
    BY <1>0, <2>1, <2>2 DEF TablesTyped, Present
<1>8. ASSUME NEW n \in Nodes, NEW r \in Rates, SetRate(n, r)
      PROVE  TablesTyped'
  BY <1>4, <1>8 DEF SetRate
<1>9. CASE SetAccessWrites
  <2>1. form' = NoForm /\ account' = account
    BY <1>9 DEF SetAccessWrites, tables
  <2>2. CASE UNCHANGED <<ticked, status, wanted>>
    BY <1>4, <2>1, <2>2
  <2>3. CASE ~UNCHANGED <<ticked, status, wanted>>
    <3>1. /\ form.picked = All \/ form.picked \subseteq Existing
          /\ ticked' = [ticked EXCEPT ![form.id] = IF form.picked = All THEN {} ELSE form.picked]
          /\ wanted' = [wanted EXCEPT ![form.id] = form.picked]
          /\ status' = status
      BY <1>9, <2>3 DEF SetAccessWrites, tables
    <3>2. ticked' \in [Ids -> SUBSET Inbounds] /\ wanted' \in [Ids -> SUBSET All]
      BY <3>1 DEF TablesTyped, Existing
    <3>3. form' \in [id : Ids \cup {0}, picked : SUBSET All]
      BY <2>1 DEF NoForm
    <3> QED
      BY <1>0, <2>1, <3>1, <3>2, <3>3 DEF TablesTyped, Present
  <2> QED
    BY <2>2, <2>3
<1>10. ASSUME NEW n \in Nodes, AddTraffic(n)
       PROVE  TablesTyped'
  <2>1. \A i \in Ids : account'[i].name = account[i].name
    BY <1>10 DEF AddTraffic, Billed
  <2> QED
    BY <1>4, <1>10, <2>1 DEF AddTraffic
<1>11. CASE UNCHANGED <<tables, wanted>> /\ (form' = form \/ form' = NoForm)
  BY <1>4, <1>11 DEF tables
<1>12. CASE Calls
  BY <1>1, <1>2, <1>3, <1>5, <1>6, <1>7, <1>8, <1>12 DEF Calls
<1>13. CASE ~Calls /\ ~SetAccessWrites /\ \A n \in Nodes : ~AddTraffic(n)
  BY <1>11, <1>13 DEF Next, vars, PanelRestart, Push, Report, Carry, Handler, ReadInbounds, ReadUsers,
     ReadRestrictions, Repeat, AddTrafficFails, DatabaseFails, Fails, Acknowledge
<1> QED
  BY <1>9, <1>10, <1>12, <1>13

LEMMA NodeUsersTyped ==
  ASSUME Exact, NEW n \in Nodes PROVE NodeUsers(n) \subseteq Names
  BY NamesOfPresent DEF NodeUsers

LEMMA NodesStep ==
  ASSUME Typed, [Next]_vars PROVE NodesTyped'
<1> USE DEF Typed
<1>0. Nothing \in [Names -> Nat]
  BY DEF Nothing
<1>1. events' \in 0..MaxEvents
  <2>1. events' = events \/ Call
    BY DEF Next, vars, Calls, CreateUser, UpdateUser, DeleteUser, ResetUserTraffic, SetAccessReads, CreateInbound,
       SetInboundEnabled, DeleteInbound, SetRate, SetAccessWrites, PanelRestart, Push, Report, Carry, Handler,
       ReadInbounds, ReadUsers, ReadRestrictions, Repeat, AddTraffic, AddTrafficFails, DatabaseFails, Acknowledge,
       Fault
  <2> QED
    BY <2>1, BillingAssumption DEF Call, NodesTyped
<1>2. CASE Calls \/ SetAccessWrites
  <2>1. pending' \in {pending, Nodes} /\ UNCHANGED <<given, carried, outbox, owed, bytes>>
    BY <1>2 DEF Calls, CreateUser, UpdateUser, DeleteUser, ResetUserTraffic, SetAccessReads, CreateInbound,
       SetInboundEnabled, DeleteInbound, SetRate, SetAccessWrites, Told, hubVars, nodeVars
  <2> QED
    BY <1>1, <2>1 DEF NodesTyped
<1>3. CASE PanelRestart
  <2>1. pending' = Nodes /\ outbox' \in [Nodes -> [Names -> Nat]] /\ UNCHANGED <<given, carried, owed, bytes>>
    BY <1>0, <1>3 DEF PanelRestart, NodesTyped
  <2> QED
    BY <1>1, <2>1 DEF NodesTyped
<1>4. ASSUME NEW n \in Nodes, Push(n)
      PROVE  NodesTyped'
  <2>1. pending' = pending \ {n} /\ given' = [given EXCEPT ![n] = NodeUsers(n)] /\ UNCHANGED <<carried, outbox, owed, bytes>>
    BY <1>4 DEF Push, nodeVars
  <2> QED
    BY <1>1, <2>1, NodeUsersTyped DEF NodesTyped
<1>5. ASSUME NEW n \in Nodes, Report(n)
      PROVE  NodesTyped'
  BY <1>0, <1>1, <1>5 DEF Report, NodesTyped, hubVars
<1>6. ASSUME NEW n \in Nodes, NEW m \in Names, Carry(n, m)
      PROVE  NodesTyped'
  <2>1. /\ carried' = [carried EXCEPT ![n][m] = @ + 1]
        /\ owed' = [owed EXCEPT ![n] = [i \in Ids |-> IF account[i].name = m THEN @[i] + 1 ELSE @[i]]]
        /\ bytes < MaxBytes /\ bytes' = bytes + 1
        /\ UNCHANGED <<pending, given, outbox>>
    BY <1>6 DEF Carry, hubVars
  <2>2. carried[n] \in [Names -> Nat] /\ owed[n] \in [Ids -> Int]
    BY DEF NodesTyped
  <2>3. [carried[n] EXCEPT ![m] = @ + 1] \in [Names -> Nat]
    BY <2>2
  <2>4. [i \in Ids |-> IF account[i].name = m THEN owed[n][i] + 1 ELSE owed[n][i]] \in [Ids -> Int]
    BY <2>2
  <2>5. carried' \in [Nodes -> [Names -> Nat]] /\ owed' \in [Nodes -> [Ids -> Int]]
    BY <2>1, <2>3, <2>4 DEF NodesTyped
  <2>6. bytes' \in 0..MaxBytes
    BY <2>1, BillingAssumption DEF NodesTyped
  <2> QED
    BY <1>1, <2>1, <2>5, <2>6 DEF NodesTyped
<1>7. ASSUME NEW n \in Nodes, AddTraffic(n)
      PROVE  NodesTyped'
  <2>1. /\ owed' = [owed EXCEPT ![n] = [i \in Ids |-> @[i] - deltas[n][i]]]
        /\ UNCHANGED <<pending, given, carried, outbox, bytes>>
    BY <1>7 DEF AddTraffic, hubVars, nodeVars
  <2>2. owed[n] \in [Ids -> Int] /\ deltas[n] \in [Ids -> 0..MaxDelta]
    BY DEF NodesTyped, Exact
  <2>3. [i \in Ids |-> owed[n][i] - deltas[n][i]] \in [Ids -> Int]
    BY <2>2, Bounds
  <2>4. owed' \in [Nodes -> [Ids -> Int]]
    BY <2>1, <2>3 DEF NodesTyped
  <2> QED
    BY <1>1, <2>1, <2>4 DEF NodesTyped
<1>8. ASSUME NEW n \in Nodes, AddTrafficFails(n) \/ DatabaseFails(n) \/ Acknowledge(n)
      PROVE  NodesTyped'
  <2>1. /\ outbox' \in [Nodes -> [Names -> Nat]] /\ pending' \subseteq Nodes
        /\ UNCHANGED <<given, carried, owed, bytes>>
    BY <1>0, <1>8 DEF AddTrafficFails, DatabaseFails, Fails, Acknowledge, NodesTyped, hubVars
  <2> QED
    BY <1>1, <2>1 DEF NodesTyped
<1>9. CASE UNCHANGED <<hubVars, nodeVars, owed, bytes>>
  BY <1>1, <1>9 DEF NodesTyped, hubVars, nodeVars
<1>10. ASSUME NEW n \in Nodes, ReadInbounds(n) \/ ReadUsers(n) \/ ReadRestrictions(n) \/ Repeat(n)
       PROVE  NodesTyped'
  BY <1>9, <1>10 DEF ReadInbounds, ReadUsers, ReadRestrictions, Repeat
<1>11. CASE UNCHANGED vars
  BY <1>9, <1>11 DEF vars
<1> QED
  BY <1>2, <1>3, <1>4, <1>5, <1>6, <1>7, <1>8, <1>10, <1>11 DEF Next, Handler

LEMMA HandlersStep ==
  ASSUME Typed, [Next]_vars PROVE HandlersTyped'
<1> USE DEF Typed
<1>1. CASE UNCHANGED <<recorded, crossed, pc, enabled, byName>>
  BY <1>1 DEF HandlersTyped
<1>2. ASSUME NEW n \in Nodes, Idle(n), UNCHANGED recorded
      PROVE  HandlersTyped'
  BY <1>2 DEF Idle, HandlersTyped, Stages
<1>3. CASE Calls \/ SetAccessWrites
  BY <1>1, <1>3 DEF Calls, CreateUser, UpdateUser, DeleteUser, ResetUserTraffic, SetAccessReads, CreateInbound,
     SetInboundEnabled, DeleteInbound, SetRate, SetAccessWrites, handVars
<1>4. CASE PanelRestart
  BY <1>4 DEF PanelRestart, HandlersTyped, Stages
<1>5. ASSUME NEW n \in Nodes, Report(n)
      PROVE  HandlersTyped'
  BY <1>5 DEF Report, HandlersTyped, handVars
<1>6. ASSUME NEW n \in Nodes, ReadInbounds(n) \/ ReadRestrictions(n) \/ Repeat(n)
      PROVE  HandlersTyped'
  BY <1>6 DEF ReadInbounds, ReadRestrictions, Repeat, HandlersTyped, Stages
<1>7. ASSUME NEW n \in Nodes, ReadUsers(n)
      PROVE  HandlersTyped'
  <2>1. {<<i, account[i].name>> : i \in Present} \in SUBSET (Ids \X Names)
    BY NamesOfPresent
  <2> HIDE DEF Typed
  <2>2. HandlersTyped /\ byName' = [byName EXCEPT ![n] = {<<i, account[i].name>> : i \in Present}]
    BY <1>7 DEF ReadUsers, Typed
  <2>3. byName' \in [Nodes -> SUBSET (Ids \X Names)]
    BY <2>1, <2>2 DEF HandlersTyped
  <2> QED
    BY <1>7, <2>2, <2>3 DEF ReadUsers, HandlersTyped, Stages
<1>8. ASSUME NEW n \in Nodes, AddTraffic(n)
      PROVE  HandlersTyped'
  <2>1. /\ recorded' = [recorded EXCEPT ![n] = n \notin Unnumbered]
        /\ crossed' = [crossed EXCEPT ![n] = \E i \in {j \in Ids : deltas[n][j] > 0} : Crosses(account[i], account'[i])]
        /\ pc' = [pc EXCEPT ![n] = "committed"]
        /\ UNCHANGED <<enabled, byName>>
    BY <1>8 DEF AddTraffic
  <2> QED
    BY <2>1 DEF HandlersTyped, Stages
<1>9. ASSUME NEW n \in Nodes, AddTrafficFails(n) \/ DatabaseFails(n) \/ Acknowledge(n)
      PROVE  HandlersTyped'
  BY <1>2, <1>9 DEF AddTrafficFails, DatabaseFails, Fails, Acknowledge
<1>10. ASSUME NEW n \in Nodes, Push(n) \/ (\E m \in Names : Carry(n, m))
       PROVE  HandlersTyped'
  BY <1>1, <1>10 DEF Push, Carry, handVars
<1>11. CASE UNCHANGED vars
  BY <1>1, <1>11 DEF vars, handVars
<1> QED
  BY <1>3, <1>4, <1>5, <1>6, <1>7, <1>8, <1>9, <1>10, <1>11 DEF Next, Handler

LEMMA TypedStep == Typed /\ [Next]_vars => Typed'
  BY ExactStep, TablesStep, NodesStep, HandlersStep DEF Typed

\* No two accounts share a name, a fraction of a byte is less than one, and what
\* handlers, forms and nodes hold has its type.
THEOREM TypeCorrect == Spec => []TypeOK
  BY TypedInit, TypedStep, TypedIsTypeOK, PTL DEF Spec


-----------------------------------------------------------------------------
(* Nodes are told *)

\* Only a handler that has billed a report holds a crossing nobody knows of yet.
CrossedLast == \A n \in Nodes : crossed[n] => pc[n] = "committed"

Follows == CrossedLast /\ UsersFollow

LEMMA NodeUsersKept ==
  ASSUME UNCHANGED <<ticked, status>>, NEW n \in Nodes,
         \A i \in Ids : account'[i].name = account[i].name,
         \A i \in Ids : Active(i)' <=> Active(i)
  PROVE  NodeUsers(n)' = NodeUsers(n)
<1>1. Present' = Present /\ Present \subseteq Ids
  BY DEF Present
<1>2. \A i \in Ids, k \in Inbounds : Allowed(i, k)' <=> Allowed(i, k)
  BY DEF Allowed
<1> QED
  BY <1>1, <1>2 DEF NodeUsers

\* A report that takes no account over its quota leaves everybody active who was.
LEMMA StillActive ==
  ASSUME Exact, NEW n \in Nodes, AddTraffic(n), ~crossed'[n], crossed \in [Nodes -> BOOLEAN],
         NEW i \in Ids
  PROVE  Active(i)' <=> Active(i)
<1> DEFINE due == {j \in Ids : deltas[n][j] > 0}
           cost(j) == deltas[n][j] * rate[n]
<1>1. /\ account' = [j \in Ids |-> IF j \in due THEN Billed(account[j], cost(j)) ELSE account[j]]
      /\ crossed' = [crossed EXCEPT ![n] = \E j \in due : Crosses(account[j], account'[j])]
  BY DEF AddTraffic
<1>2. CASE i \notin due
  <2>1. account'[i] = account[i]
    BY <1>1, <1>2
  <2> QED
    BY <2>1 DEF Active
<1>3. CASE i \in due
  <2>1. ~Crosses(account[i], account'[i])
    BY <1>1, <1>3
  <2>2. account[i] \in Row
    BY DEF Exact
  <2>3. cost(i) \in Nat
    BY CostTyped
  <2> HIDE DEF cost
  <2>4. PICK c \in Nat : c = cost(i)
    BY <2>3
  <2>5. account'[i] = Billed(account[i], c) /\ Billed(account[i], c) \in Row
    BY <1>1, <1>3, <2>2, <2>4, BilledExact
  <2>6. /\ account'[i].limit = account[i].limit /\ account[i].limit \in Nat
        /\ account'[i].used \in Nat /\ account[i].used \in Nat /\ account[i].rem \in Nat
    <3>1. account'[i].limit = account[i].limit
      BY <2>5 DEF Billed
    <3>2. account[i].limit \in Nat
      BY <2>2, BillingAssumption DEF Row
    <3> QED
      BY <2>2, <2>5, <3>1, <3>2 DEF Row
  <2>7. account'[i].used >= account[i].used
    <3>1. PICK t \in Nat : t = c + account[i].rem
      BY <2>4, <2>6
    <3>2. t \div 1000 \in Nat
      BY <3>1
    <3>3. account'[i].used = account[i].used + t \div 1000
      BY <2>5, <3>1 DEF Billed
    <3> QED
      BY <2>6, <3>2, <3>3
  <2> QED
    BY <2>1, <2>6, <2>7 DEF Active, Crosses
<1> QED
  BY <1>2, <1>3

LEMMA FollowsTold ==
  ASSUME Follows, pending' = Nodes, UNCHANGED <<crossed, pc>> PROVE Follows'
  BY DEF Follows, CrossedLast, UsersFollow

LEMMA FollowsKept ==
  ASSUME Follows, UNCHANGED <<ticked, status, account, given, crossed>>, pending \subseteq pending',
         \A n \in Nodes : crossed[n] => pc'[n] = pc[n]
  PROVE  Follows'
<1>1. \A n \in Nodes : NodeUsers(n)' = NodeUsers(n)
  BY NodeUsersKept DEF Active
<1> QED
  BY <1>1 DEF Follows, CrossedLast, UsersFollow

LEMMA FollowsHandler ==
  ASSUME Typed, Follows, NEW n \in Nodes, Handler(n) \/ DatabaseFails(n) PROVE Follows'
<1>0. crossed \in [Nodes -> BOOLEAN] /\ pc \in [Nodes -> Stages]
  BY DEF Typed, HandlersTyped
<1>1. CASE ReadInbounds(n) \/ ReadUsers(n) \/ ReadRestrictions(n) \/ Repeat(n)
  <2>1. pc[n] # "committed"
    BY <1>1 DEF ReadInbounds, ReadUsers, ReadRestrictions, Repeat
  <2>2. ~crossed[n]
    BY <2>1 DEF Follows, CrossedLast
  <2>3. \A h \in Nodes : crossed[h] => pc'[h] = pc[h]
    BY <1>0, <1>1, <2>2 DEF ReadInbounds, ReadUsers, ReadRestrictions, Repeat
  <2> QED
    BY <1>1, <2>3, FollowsKept DEF ReadInbounds, ReadUsers, ReadRestrictions, Repeat, tables, hubVars
<1>2. CASE AddTraffic(n)
  <2>1. /\ crossed' = [crossed EXCEPT ![n] = \E i \in {j \in Ids : deltas[n][j] > 0} : Crosses(account[i], account'[i])]
        /\ pc' = [pc EXCEPT ![n] = "committed"] /\ pc[n] = "billable"
        /\ UNCHANGED <<ticked, status, pending, given>>
    BY <1>2 DEF AddTraffic, hubVars
  <2>2. ~crossed[n]
    BY <2>1 DEF Follows, CrossedLast
  <2>3. CrossedLast'
    BY <1>0, <2>1 DEF Follows, CrossedLast
  <2>4. \A h \in Nodes : crossed[h] => crossed'[h]
    BY <1>0, <2>1, <2>2
  <2>5. CASE crossed'[n]
    BY <2>3, <2>5 DEF Follows, UsersFollow
  <2>6. CASE ~crossed'[n]
    <3>1. \A i \in Ids : Active(i)' <=> Active(i)
      BY <1>0, <1>2, <2>6, StillActive DEF Typed
    <3>2. \A i \in Ids : account'[i].name = account[i].name
      BY <1>2 DEF AddTraffic, Billed
    <3>3. \A h \in Nodes : NodeUsers(h)' = NodeUsers(h)
      BY <2>1, <3>1, <3>2, NodeUsersKept
    <3> QED
      BY <2>1, <2>3, <2>4, <3>3 DEF Follows, UsersFollow
  <2> QED
    BY <2>5, <2>6
<1>3. CASE AddTrafficFails(n) \/ DatabaseFails(n)
  <2>1. Idle(n) /\ pc[n] # "committed" /\ UNCHANGED <<tables, hubVars>>
    BY <1>3 DEF AddTrafficFails, DatabaseFails, Fails
  <2>2. ~crossed[n]
    BY <2>1 DEF Follows, CrossedLast
  <2>3. crossed' = crossed
    <3>1. crossed' = [crossed EXCEPT ![n] = FALSE] /\ crossed[n] = FALSE
      BY <1>0, <2>1, <2>2 DEF Idle
    <3> QED
      BY <1>0, <3>1
  <2>4. \A h \in Nodes : crossed[h] => pc'[h] = pc[h]
    BY <1>0, <2>1, <2>2 DEF Idle
  <2> QED
    BY <2>1, <2>3, <2>4, FollowsKept DEF tables, hubVars
<1>4. CASE Acknowledge(n)
  <2>1. Idle(n) /\ UNCHANGED <<tables, given>>
    BY <1>4 DEF Acknowledge
  <2>2. pending \subseteq Nodes
    BY DEF Typed, NodesTyped
  <2>3. crossed' = [crossed EXCEPT ![n] = FALSE] /\ pc' = [pc EXCEPT ![n] = "idle"]
    BY <2>1 DEF Idle
  <2>4. CrossedLast'
    BY <1>0, <2>3 DEF Follows, CrossedLast
  <2>5. CASE crossed[n]
    <3>1. pending' = Nodes
      BY <1>4, <2>5 DEF Acknowledge
    <3> QED
      BY <2>4, <3>1 DEF Follows, UsersFollow
  <2>6. CASE ~crossed[n]
    <3>1. crossed' = crossed
      BY <1>0, <2>3, <2>6
    <3>2. pending \subseteq pending'
      BY <1>4, <2>6 DEF Acknowledge
    <3>3. \A h \in Nodes : crossed[h] => pc'[h] = pc[h]
      BY <1>0, <2>3, <2>6
    <3> QED
      BY <2>1, <3>1, <3>2, <3>3, FollowsKept DEF tables
  <2> QED
    BY <2>5, <2>6
<1> QED
  BY <1>1, <1>2, <1>3, <1>4 DEF Handler

LEMMA FollowsStep == Typed /\ Follows /\ [Next]_vars => Follows'
<1> SUFFICES ASSUME Typed, Follows, [Next]_vars PROVE Follows'
  OBVIOUS
<1>1. CASE UNCHANGED <<ticked, status, account, given, crossed, pc, pending>>
  BY <1>1, FollowsKept
<1>2. CASE Calls \/ SetAccessWrites
  <2>1. UNCHANGED <<given, crossed, pc>>
    BY <1>2 DEF Calls, CreateUser, UpdateUser, DeleteUser, ResetUserTraffic, SetAccessReads, CreateInbound,
       SetInboundEnabled, DeleteInbound, SetRate, SetAccessWrites, hubVars, handVars
  <2>2. pending' = Nodes \/ UNCHANGED <<ticked, status, account, pending>>
    BY <1>2 DEF Calls, CreateUser, UpdateUser, DeleteUser, ResetUserTraffic, SetAccessReads, CreateInbound,
       SetInboundEnabled, DeleteInbound, SetRate, SetAccessWrites, Told, tables, hubVars
  <2> QED
    BY <1>1, <2>1, <2>2, FollowsTold
<1>3. CASE PanelRestart
  <2>1. pending' = Nodes /\ crossed' = [n \in Nodes |-> FALSE]
    BY <1>3 DEF PanelRestart
  <2> QED
    BY <2>1 DEF Follows, CrossedLast, UsersFollow
<1>4. ASSUME NEW n \in Nodes, Push(n)
      PROVE  Follows'
  <2>1. /\ pending' = pending \ {n} /\ given' = [given EXCEPT ![n] = NodeUsers(n)]
        /\ UNCHANGED <<account, ticked, status, crossed, pc>>
    BY <1>4 DEF Push, tables, handVars
  <2>2. given \in [Nodes -> SUBSET Names]
    BY DEF Typed, NodesTyped
  <2>3. \A h \in Nodes : NodeUsers(h)' = NodeUsers(h)
    BY <2>1, NodeUsersKept DEF Active
  <2> QED
    BY <2>1, <2>2, <2>3 DEF Follows, CrossedLast, UsersFollow
<1>5. ASSUME NEW n \in Nodes, Report(n) \/ (\E m \in Names : Carry(n, m))
      PROVE  Follows'
  BY <1>1, <1>5 DEF Report, Carry, tables, hubVars, handVars
<1>6. CASE UNCHANGED vars
  BY <1>1, <1>6 DEF vars, tables, hubVars, handVars
<1> QED
  BY <1>2, <1>3, <1>4, <1>5, <1>6, FollowsHandler DEF Next

\* Every node has the users it should have, or is owed a push, or will be when the
\* handler of a report that took somebody over the quota acknowledges it.
THEOREM NodesFollow == Spec => []UsersFollow
<1>1. Init => Follows
  BY DEF Init, Follows, CrossedLast, UsersFollow
<1>2. Follows => UsersFollow
  BY DEF Follows
<1> QED
  BY TypedInit, TypedStep, FollowsStep, <1>1, <1>2, PTL DEF Spec

-----------------------------------------------------------------------------
(* Nothing a numbered node carries is dropped *)

\* Whoever is steady is there and allowed.
SteadyAllowed ==
  \A s \in steady : s[2] \in Present /\ status[s[1]] = "on" /\ Allowed(s[2], s[1])

\* No report is over the bound.
Bounded == \A n \in Nodes, m \in Names : carried[n][m] <= MaxDelta /\ outbox[n][m] <= MaxDelta

\* What the handler of a numbered report has read of a steady account lets it be
\* billed for all the report says, at every stage.
Stage(n, k, i) ==
  LET m == account[i].name IN
  /\ pc[n] \in {"users", "restrictions"} => k \in enabled[n]
  /\ pc[n] = "restrictions" => {u \in byName[n] : u[1] = i} = {<<i, m>>}
  /\ pc[n] = "billable" => deltas[n][i] = outbox[n][m]
  /\ pc[n] = "committed" => recorded[n]
  /\ owed[n][i] = carried[n][m] + (IF recorded[n] THEN 0 ELSE outbox[n][m])

Handled ==
  \A n \in Nodes \ Unnumbered : \A s \in steady : Home[s[1]] = n => Stage(n, s[1], s[2])

Kept == SteadyAllowed /\ Bounded /\ Handled

LEMMA SteadyTyped ==
  ASSUME Typed, Kept, NEW s \in steady
  PROVE  s[1] \in Inbounds /\ s[2] \in Ids /\ s[2] \in Present /\ account[s[2]].name \in Names
  BY NamesOfPresent DEF Typed, TablesTyped, Kept, SteadyAllowed

\* Steps that leave the node, its report and the handler alone.
LEMMA StageKept ==
  ASSUME NEW n, NEW k, NEW i, Stage(n, k, i), account'[i].name = account[i].name,
         pc'[n] = pc[n], enabled'[n] = enabled[n], byName'[n] = byName[n], deltas'[n][i] = deltas[n][i],
         recorded'[n] = recorded[n], owed'[n][i] = owed[n][i],
         carried'[n] = carried[n], outbox'[n] = outbox[n]
  PROVE  Stage(n, k, i)'
  BY DEF Stage

\* A handler that ends leaves what the report says owed, unless it was recorded.
LEMMA StageEnds ==
  ASSUME NEW n, NEW k, NEW i, Stage(n, k, i), account'[i].name = account[i].name, account[i].name \in Names,
         pc'[n] = "idle", recorded'[n] = recorded[n], owed'[n][i] = owed[n][i], carried'[n] = carried[n],
         outbox'[n] = outbox[n] \/ (recorded[n] /\ outbox'[n] = Nothing)
  PROVE  Stage(n, k, i)'
  BY DEF Stage, Nothing

\* Every change of the tables drops from steady what it disturbs.
LEMMA ToldKeeps ==
  ASSUME Typed, Kept, Told, account' \in [Ids -> Row],
         UNCHANGED <<pc, enabled, byName, deltas, recorded, owed, carried, outbox>>
  PROVE  Kept'
<1>1. \A s \in steady' : /\ s \in steady /\ account'[s[2]].name = account[s[2]].name
                         /\ status'[s[1]] = "on" /\ Allowed(s[2], s[1])'
  BY DEF Told, Allowed
<1>2. \A s \in steady' : s[2] \in Present'
  BY <1>1, SteadyTyped, BillingAssumption DEF Present
<1>3. SteadyAllowed'
  BY <1>1, <1>2 DEF SteadyAllowed
<1>4. Bounded'
  BY DEF Kept, Bounded
<1>5. Handled'
  BY <1>1, StageKept DEF Kept, Handled
<1> QED
  BY <1>3, <1>4, <1>5 DEF Kept

\* The other steps leave allowances, names and steady alone.
LEMMA KeptOtherwise ==
  ASSUME Typed, Kept, UNCHANGED <<ticked, status, steady>>,
         \A i \in Ids : account'[i].name = account[i].name,
         Bounded', Handled'
  PROVE  Kept'
<1>1. \A i \in Present : i \in Present'
  BY DEF Present
<1> QED
  BY <1>1 DEF Kept, SteadyAllowed, Allowed

LEMMA CallsKeep ==
  ASSUME Typed, Exact', Kept, Calls \/ SetAccessWrites PROVE Kept'
<1>1. UNCHANGED <<pc, enabled, byName, deltas, recorded, owed, carried, outbox>>
  BY DEF Calls, CreateUser, UpdateUser, DeleteUser, ResetUserTraffic, SetAccessReads, CreateInbound,
     SetInboundEnabled, DeleteInbound, SetRate, SetAccessWrites, nodeVars, handVars
<1>2. Told \/ UNCHANGED <<ticked, status, account, steady>>
  BY DEF Calls, CreateUser, UpdateUser, DeleteUser, ResetUserTraffic, SetAccessReads, CreateInbound,
     SetInboundEnabled, DeleteInbound, SetRate, SetAccessWrites, tables
<1>3. CASE Told
  BY <1>1, <1>3, ToldKeeps DEF Exact
<1>4. CASE UNCHANGED <<ticked, status, account, steady>>
  <2>1. Bounded'
    BY <1>1 DEF Kept, Bounded
  <2>2. Handled'
    BY <1>1, <1>4, StageKept DEF Kept, Handled
  <2> QED
    BY <1>4, <2>1, <2>2, KeptOtherwise
<1> QED
  BY <1>2, <1>3, <1>4

\* A byte is owed to the account that has the name it is counted under.
LEMMA CarryKeeps ==
  ASSUME "outage" \notin Circumstances, Typed, Kept, NEW n \in Nodes, NEW m \in Names, Carry(n, m)
  PROVE  Kept'
<1>1. /\ carried' = [carried EXCEPT ![n][m] = @ + 1] /\ carried[n][m] < MaxDelta
      /\ owed' = [owed EXCEPT ![n] = [i \in Ids |-> IF account[i].name = m THEN @[i] + 1 ELSE @[i]]]
      /\ UNCHANGED <<account, ticked, status, steady, outbox, recorded, pc, enabled, byName, deltas>>
  BY DEF Carry, tables, handVars
<1>2. /\ carried \in [Nodes -> [Names -> Nat]] /\ outbox \in [Nodes -> [Names -> Nat]]
      /\ owed \in [Nodes -> [Ids -> Int]] /\ MaxDelta \in Nat
  BY Bounds DEF Typed, NodesTyped
<1>3. \A h \in Nodes, l \in Names : carried'[h][l] = carried[h][l] + (IF h = n /\ l = m THEN 1 ELSE 0)
  BY <1>1, <1>2
<1>4. \A h \in Nodes, i \in Ids : owed'[h][i] = owed[h][i] + (IF h = n /\ account[i].name = m THEN 1 ELSE 0)
  BY <1>1, <1>2
<1>5. Bounded'
  <2> SUFFICES ASSUME NEW h \in Nodes, NEW l \in Names PROVE carried'[h][l] <= MaxDelta /\ outbox'[h][l] <= MaxDelta
    BY DEF Bounded
  <2>1. carried[h][l] <= MaxDelta /\ outbox[h][l] <= MaxDelta /\ carried[h][l] \in Nat
    BY <1>2 DEF Kept, Bounded
  <2> QED
    BY <1>1, <1>2, <1>3, <2>1
<1>6. Handled'
  <2> SUFFICES ASSUME NEW h \in Nodes \ Unnumbered, NEW s \in steady, Home[s[1]] = h
               PROVE  Stage(h, s[1], s[2])'
    BY <1>1 DEF Handled
  <2>1. Stage(h, s[1], s[2])
    BY DEF Kept, Handled
  <2>2. s[2] \in Ids /\ account[s[2]].name \in Names
    BY SteadyTyped
  <2>3. PICK l \in Names : l = account[s[2]].name
    BY <2>2
  <2>4. owed[h][s[2]] \in Int /\ carried[h][l] \in Nat /\ outbox[h][l] \in Nat
    BY <1>2, <2>2
  <2>5. owed'[h][s[2]] - owed[h][s[2]] = carried'[h][l] - carried[h][l]
    BY <1>3, <1>4, <2>2, <2>3, <2>4
  <2>6. owed'[h][s[2]] \in Int /\ carried'[h][l] \in Int
    BY <1>3, <1>4, <2>2, <2>4
  <2>7. owed[h][s[2]] = carried[h][l] + (IF recorded[h] THEN 0 ELSE outbox[h][l])
    BY <2>1, <2>3 DEF Stage
  <2>8. owed'[h][s[2]] = carried'[h][l] + (IF recorded[h] THEN 0 ELSE outbox[h][l])
    BY <2>4, <2>5, <2>6, <2>7
  <2> QED
    BY <1>1, <2>1, <2>3, <2>8 DEF Stage
<1> QED
  BY <1>1, <1>5, <1>6, KeptOtherwise

LEMMA ReportKeeps ==
  ASSUME Typed, Kept, NEW n \in Nodes, Report(n) PROVE Kept'
<1>1. /\ outbox[n] = Nothing /\ pc[n] = "idle"
      /\ outbox' = [outbox EXCEPT ![n] = carried[n]]
      /\ carried' = [carried EXCEPT ![n] = Nothing]
      /\ recorded' = [recorded EXCEPT ![n] = FALSE]
      /\ UNCHANGED <<account, ticked, status, steady, owed, pc, enabled, byName, deltas>>
  BY DEF Report, tables, handVars
<1>2. /\ carried \in [Nodes -> [Names -> Nat]] /\ outbox \in [Nodes -> [Names -> Nat]]
      /\ recorded \in [Nodes -> BOOLEAN] /\ MaxDelta \in Nat
  BY Bounds DEF Typed, NodesTyped, HandlersTyped
<1>3. Bounded'
  BY <1>1, <1>2 DEF Kept, Bounded, Nothing
<1>4. Handled'
  <2> SUFFICES ASSUME NEW h \in Nodes \ Unnumbered, NEW s \in steady, Home[s[1]] = h
               PROVE  Stage(h, s[1], s[2])'
    BY <1>1 DEF Handled
  <2>1. Stage(h, s[1], s[2])
    BY DEF Kept, Handled
  <2>2. PICK l \in Names : l = account[s[2]].name
    BY SteadyTyped
  <2>3. CASE h # n
    BY <1>1, <1>2, <2>1, <2>3, StageKept
  <2>4. CASE h = n
    <3>1. outbox'[h][l] = carried[h][l] /\ carried'[h][l] = 0 /\ ~recorded'[h] /\ outbox[h][l] = 0
      BY <1>1, <1>2, <2>4 DEF Nothing
    <3>2. owed[h][s[2]] = carried[h][l] + (IF recorded[h] THEN 0 ELSE outbox[h][l])
      BY <2>1, <2>2 DEF Stage
    <3>3. carried[h][l] \in Nat
      BY <1>2
    <3>4. owed[h][s[2]] = carried[h][l]
      BY <3>1, <3>2, <3>3
    <3> QED
      BY <1>1, <2>2, <2>4, <3>1, <3>3, <3>4 DEF Stage
  <2> QED
    BY <2>3, <2>4
<1> QED
  BY <1>1, <1>3, <1>4, KeptOtherwise

\* The handler's three reads and its transaction.
LEMMA ReadsKeep ==
  ASSUME Typed, Kept, NEW n \in Nodes, ReadInbounds(n) \/ ReadUsers(n) \/ ReadRestrictions(n) \/ Repeat(n)
  PROVE  Kept'
<1>1. UNCHANGED <<account, ticked, status, steady, carried, outbox, recorded, owed>>
  BY DEF ReadInbounds, ReadUsers, ReadRestrictions, Repeat, tables, nodeVars
<1>2. Bounded'
  BY <1>1 DEF Kept, Bounded
<1>3. /\ pc \in [Nodes -> Stages] /\ enabled \in [Nodes -> SUBSET Inbounds]
      /\ byName \in [Nodes -> SUBSET (Ids \X Names)] /\ deltas \in [Nodes -> [Ids -> 0..MaxDelta]]
  BY DEF Typed, HandlersTyped, Exact
<1>4. Handled'
  <2> SUFFICES ASSUME NEW h \in Nodes \ Unnumbered, NEW s \in steady, Home[s[1]] = h
               PROVE  Stage(h, s[1], s[2])'
    BY <1>1 DEF Handled
  <2> DEFINE k == s[1]
             i == s[2]
  <2>1. Stage(h, k, i)
    BY DEF Kept, Handled
  <2>2. k \in Inbounds /\ i \in Ids /\ i \in Present /\ status[k] = "on" /\ Allowed(i, k)
    BY SteadyTyped DEF Kept, SteadyAllowed
  <2>3. PICK l \in Names : l = account[i].name
    BY SteadyTyped
  <2> HIDE DEF k, i
  <2>4. CASE h # n
    <3>1. pc'[h] = pc[h] /\ enabled'[h] = enabled[h] /\ byName'[h] = byName[h] /\ deltas'[h] = deltas[h]
      BY <1>3, <2>4 DEF ReadInbounds, ReadUsers, ReadRestrictions, Repeat
    <3> QED
      BY <1>1, <2>1, <3>1, StageKept DEF k, i
  <2>5. CASE h = n /\ ReadInbounds(n)
    <3>1. pc'[h] = "users" /\ k \in enabled'[h]
      BY <1>3, <2>2, <2>5 DEF ReadInbounds, k
    <3> QED
      BY <1>1, <2>1, <3>1 DEF Stage, k, i
  <2>6. CASE h = n /\ ReadUsers(n)
    <3>1. /\ pc[h] = "users" /\ pc'[h] = "restrictions" /\ enabled'[h] = enabled[h]
          /\ byName'[h] = {<<j, account[j].name>> : j \in Present}
      BY <1>3, <2>6 DEF ReadUsers
    <3>2. {u \in byName'[h] : u[1] = i} = {<<i, account[i].name>>}
      BY <2>2, <3>1
    <3> QED
      BY <1>1, <2>1, <3>1, <3>2 DEF Stage, k, i
  <2>7. CASE h = n /\ ReadRestrictions(n)
    <3>1. pc[h] = "restrictions" /\ pc'[h] = "billable" /\ deltas'[h] = Billable(h)
      BY <1>3, <2>7 DEF ReadRestrictions
    <3>2. k \in enabled[h] /\ {u \in byName[h] : u[1] = i} = {<<i, l>>}
      BY <2>1, <2>3, <3>1 DEF Stage
    <3> DEFINE amounts == {outbox[h][u[2]] : u \in {v \in byName[h] : v[1] = i}} \cap 1..MaxDelta
    <3>3. Billable(h)[i] = IF amounts = {} THEN 0 ELSE CHOOSE d \in amounts : TRUE
      BY <2>2, <3>2 DEF Billable
    <3>4. amounts = {outbox[h][l]} \cap 1..MaxDelta
      <4>1. {outbox[h][u[2]] : u \in {<<i, l>>}} = {outbox[h][l]}
        OBVIOUS
      <4> QED
        BY <3>2, <4>1
    <3>5. outbox[h][l] \in Nat /\ outbox[h][l] <= MaxDelta /\ MaxDelta \in Nat
      BY Bounds DEF Typed, NodesTyped, Kept, Bounded
    <3>6. CASE outbox[h][l] = 0
      <4>1. amounts = {}
        BY <3>4, <3>5, <3>6
      <4> HIDE DEF amounts
      <4>2. deltas'[h][i] = outbox[h][l]
        BY <3>1, <3>3, <3>6, <4>1
      <4> QED
        BY <1>1, <2>1, <2>3, <3>1, <4>2 DEF Stage, k, i
    <3>7. CASE outbox[h][l] # 0
      <4>1. amounts = {outbox[h][l]}
        BY <3>4, <3>5, <3>7
      <4> HIDE DEF amounts
      <4>2. (CHOOSE d \in amounts : TRUE) = outbox[h][l] /\ amounts # {}
        BY <4>1
      <4>3. deltas'[h][i] = outbox[h][l]
        BY <3>1, <3>3, <4>2
      <4> QED
        BY <1>1, <2>1, <2>3, <3>1, <4>3 DEF Stage, k, i
    <3> QED
      BY <3>6, <3>7
  <2>8. CASE h = n /\ Repeat(n)
    <3>1. pc'[h] = "committed" /\ recorded[h]
      BY <1>3, <2>8 DEF Repeat
    <3> QED
      BY <1>1, <2>1, <3>1 DEF Stage, k, i
  <2> QED
    BY <2>4, <2>5, <2>6, <2>7, <2>8
<1> QED
  BY <1>1, <1>2, <1>4, KeptOtherwise

LEMMA AddTrafficKeeps ==
  ASSUME Typed, Kept, NEW n \in Nodes, AddTraffic(n) PROVE Kept'
<1>1. /\ pc[n] = "billable" /\ ~recorded[n]
      /\ owed' = [owed EXCEPT ![n] = [i \in Ids |-> @[i] - deltas[n][i]]]
      /\ recorded' = [recorded EXCEPT ![n] = n \notin Unnumbered]
      /\ pc' = [pc EXCEPT ![n] = "committed"]
      /\ deltas' = [deltas EXCEPT ![n] = [i \in Ids |-> 0]]
      /\ UNCHANGED <<ticked, status, steady, carried, outbox, enabled, byName>>
  BY DEF AddTraffic, nodeVars
<1>2. \A i \in Ids : account'[i].name = account[i].name
  BY DEF AddTraffic, Billed
<1>3. Bounded'
  BY <1>1 DEF Kept, Bounded
<1>4. /\ pc \in [Nodes -> Stages] /\ deltas \in [Nodes -> [Ids -> 0..MaxDelta]]
      /\ recorded \in [Nodes -> BOOLEAN] /\ owed \in [Nodes -> [Ids -> Int]]
      /\ carried \in [Nodes -> [Names -> Nat]] /\ outbox \in [Nodes -> [Names -> Nat]]
  BY DEF Typed, HandlersTyped, NodesTyped, Exact
<1>5. Handled'
  <2> SUFFICES ASSUME NEW h \in Nodes \ Unnumbered, NEW s \in steady, Home[s[1]] = h
               PROVE  Stage(h, s[1], s[2])'
    BY <1>1 DEF Handled
  <2>1. Stage(h, s[1], s[2])
    BY DEF Kept, Handled
  <2>2. PICK l \in Names : l = account[s[2]].name
    BY SteadyTyped
  <2>3. s[2] \in Ids
    BY SteadyTyped
  <2>4. CASE h # n
    <3>1. /\ pc'[h] = pc[h] /\ deltas'[h] = deltas[h] /\ recorded'[h] = recorded[h] /\ owed'[h] = owed[h]
      BY <1>1, <1>4, <2>4
    <3> QED
      BY <1>1, <1>2, <2>1, <2>3, <3>1, StageKept
  <2>5. CASE h = n
    <3>1. pc'[h] = "committed" /\ recorded'[h] /\ owed'[h][s[2]] = owed[h][s[2]] - deltas[h][s[2]]
      BY <1>1, <1>4, <2>3, <2>5
    <3>2. owed[h][s[2]] = carried[h][l] + outbox[h][l] /\ deltas[h][s[2]] = outbox[h][l]
      BY <1>1, <2>1, <2>2, <2>5 DEF Stage
    <3>3. carried[h][l] \in Nat /\ outbox[h][l] \in Nat
      BY <1>4
    <3>4. owed'[h][s[2]] = carried[h][l]
      BY <3>1, <3>2, <3>3
    <3> QED
      BY <1>1, <1>2, <2>2, <2>3, <3>1, <3>3, <3>4 DEF Stage
  <2> QED
    BY <2>4, <2>5
<1> QED
  BY <1>1, <1>2, <1>3, <1>5, KeptOtherwise

LEMMA EndsKeep ==
  ASSUME Typed, Kept,
         PanelRestart \/ \E n \in Nodes : AddTrafficFails(n) \/ DatabaseFails(n) \/ Acknowledge(n)
  PROVE  Kept'
<1>1. UNCHANGED <<account, ticked, status, steady, carried, owed, recorded>>
  BY DEF PanelRestart, AddTrafficFails, DatabaseFails, Fails, Acknowledge, tables
<1>2. /\ pc \in [Nodes -> Stages] /\ outbox \in [Nodes -> [Names -> Nat]] /\ MaxDelta \in Nat
      /\ deltas \in [Nodes -> [Ids -> 0..MaxDelta]]
      /\ enabled \in [Nodes -> SUBSET Inbounds] /\ byName \in [Nodes -> SUBSET (Ids \X Names)]
  BY Bounds DEF Typed, NodesTyped, HandlersTyped, Exact
<1>3. \A h \in Nodes : \/ /\ pc'[h] = pc[h] /\ enabled'[h] = enabled[h] /\ byName'[h] = byName[h]
                          /\ deltas'[h] = deltas[h] /\ outbox'[h] = outbox[h]
                       \/ pc'[h] = "idle" /\ outbox'[h] = outbox[h]
                       \/ pc'[h] = "idle" /\ outbox'[h] = Nothing /\ (h \in Unnumbered \/ pc[h] = "committed")
  <2>1. CASE PanelRestart
    BY <1>2, <2>1 DEF PanelRestart
  <2>2. ASSUME NEW n \in Nodes, AddTrafficFails(n) \/ DatabaseFails(n)
        PROVE  <1>3!:
    <3>1. Idle(n) /\ outbox' = [outbox EXCEPT ![n] = IF n \in Unnumbered THEN Nothing ELSE @]
      BY <2>2 DEF AddTrafficFails, DatabaseFails, Fails
    <3> QED
      BY <1>2, <3>1 DEF Idle
  <2>3. ASSUME NEW n \in Nodes, Acknowledge(n)
        PROVE  <1>3!:
    <3>1. Idle(n) /\ (outbox' = outbox \/ outbox' = [outbox EXCEPT ![n] = Nothing]) /\ pc[n] = "committed"
      BY <2>3 DEF Acknowledge
    <3> QED
      BY <1>2, <3>1 DEF Idle
  <2> QED
    BY <2>1, <2>2, <2>3
<1>4. Bounded'
  <2>1. \A h \in Nodes, m \in Names : outbox'[h][m] \in {outbox[h][m], 0}
    BY <1>3 DEF Nothing
  <2> QED
    BY <1>1, <1>2, <2>1 DEF Kept, Bounded
<1>5. Handled'
  <2> SUFFICES ASSUME NEW h \in Nodes \ Unnumbered, NEW s \in steady, Home[s[1]] = h
               PROVE  Stage(h, s[1], s[2])'
    BY <1>1 DEF Handled
  <2>1. Stage(h, s[1], s[2])
    BY DEF Kept, Handled
  <2>2. account[s[2]].name \in Names
    BY SteadyTyped
  <2>3. pc[h] = "committed" => recorded[h]
    BY <2>1 DEF Stage
  <2>4. CASE /\ pc'[h] = pc[h] /\ enabled'[h] = enabled[h] /\ byName'[h] = byName[h]
             /\ deltas'[h] = deltas[h] /\ outbox'[h] = outbox[h]
    BY <1>1, <2>1, <2>4, StageKept
  <2>5. CASE pc'[h] = "idle" /\ (outbox'[h] = outbox[h] \/ (recorded[h] /\ outbox'[h] = Nothing))
    BY <1>1, <2>1, <2>2, <2>5, StageEnds
  <2> QED
    BY <1>3, <2>3, <2>4, <2>5
<1> QED
  BY <1>1, <1>4, <1>5, KeptOtherwise

LEMMA KeptStep ==
  ASSUME "outage" \notin Circumstances, Typed, Exact', Kept, [Next]_vars PROVE Kept'
<1>1. CASE UNCHANGED <<account, ticked, status, steady, carried, outbox, recorded, owed, pc, enabled, byName, deltas>>
  <2>1. Bounded' /\ Handled'
    BY <1>1, StageKept DEF Kept, Bounded, Handled
  <2> QED
    BY <1>1, <2>1, KeptOtherwise
<1>2. ASSUME NEW n \in Nodes, Push(n)
      PROVE  Kept'
  BY <1>1, <1>2 DEF Push, tables, nodeVars, handVars
<1>3. CASE UNCHANGED vars
  BY <1>1, <1>3 DEF vars, tables, nodeVars, handVars
<1> QED
  BY <1>2, <1>3, CallsKeep, CarryKeeps, ReportKeeps, ReadsKeep, AddTrafficKeeps, EndsKeep DEF Next, Handler

LEMMA KeptInit == Init => Kept
<1> SUFFICES ASSUME Init PROVE Kept
  OBVIOUS
<1>1. /\ \A h \in Nodes, m \in Names : carried[h][m] = 0 /\ outbox[h][m] = 0
      /\ pc = [n \in Nodes |-> "idle"] /\ owed = [n \in Nodes |-> [i \in Ids |-> 0]]
      /\ status = [k \in Inbounds |-> "on"]
      /\ steady = {s \in Inbounds \X DOMAIN First : Allowed(s[2], s[1])}
  BY DEF Init, Nothing
<1>2. \A s \in steady : s[1] \in Inbounds /\ s[2] \in Present
  <2>1. PICK q \in Limits : account = [i \in Ids |-> IF i \in DOMAIN First THEN Account(First[i], q) ELSE NoAccount]
    BY DEF Init
  <2>2. \A i \in DOMAIN First : account[i].name = First[i] /\ i \in Ids /\ First[i] # NoName
    BY <2>1, BillingAssumption DEF Account
  <2> QED
    BY <1>1, <2>2 DEF Present
<1>3. SteadyAllowed
  BY <1>1, <1>2 DEF SteadyAllowed
<1>4. Bounded
  BY <1>1, Bounds DEF Bounded
<1>5. Handled
  <2> SUFFICES ASSUME NEW n \in Nodes, NEW s \in steady PROVE Stage(n, s[1], s[2])
    BY DEF Handled
  <2>1. account[s[2]].name \in Names /\ s[2] \in Ids
    BY <1>2, ExactInit, NamesOfPresent
  <2> QED
    BY <1>1, <2>1 DEF Stage
<1> QED
  BY <1>3, <1>4, <1>5 DEF Kept

\* As long as no node carries more than maxReportedDelta between two reports, what
\* it carries for an account that stays on it is billed once or still to be billed,
\* whatever fails, restarts, or happens to other accounts meanwhile.
THEOREM NothingIsDropped ==
  ASSUME "outage" \notin Circumstances PROVE Spec => []NothingDropped
<1>1. Init => Typed /\ Kept
  BY TypedInit, KeptInit
<1>2. Typed /\ Kept /\ [Next]_vars => (Typed /\ Kept)'
  <2>1. Typed /\ [Next]_vars => Typed' /\ Exact'
    BY TypedStep DEF Typed
  <2> QED
    BY <2>1, KeptStep
<1>3. Kept => NothingDropped
  BY DEF Kept, Handled, Stage, NothingDropped
<1> QED
  BY <1>1, <1>2, <1>3, PTL DEF Spec

=============================================================================
