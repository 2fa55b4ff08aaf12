----------------------------- MODULE LoginProofs -----------------------------
(***************************************************************************)
(* The safety properties of Login, for any number of requests, codes,      *)
(* secrets, batches, commands and faults.                                  *)
(*                                                                         *)
(* Three arguments that share the types: totpMu leaves one request at a    *)
(* time between reading what a code is checked against and writing it down *)
(* as spent; every logout under way moves past every cookie a logout ends; *)
(* and an account that has a password is not claimed.                      *)
(***************************************************************************)
EXTENDS Login, SequenceTheorems, TLAPS

-----------------------------------------------------------------------------
(* Types *)

SettingsTyped ==
  /\ now \in 2..MaxTime
  /\ user \in Pairs \cup {Nobody} /\ hash \in Pairs \cup {Nobody} /\ deadline \in 0..(MaxTime + Window)
  /\ gen \in Nat /\ sessionGen \in Nat
  /\ secrets \in Nat /\ batches \in Nat
  /\ secret \in 0..secrets /\ pending \in 0..secrets /\ lastStep \in 0..(MaxTime + 1)
  /\ recovery \subseteq PaperCodes
  /\ up \in BOOLEAN /\ command \in Pairs \cup {Nobody}
  /\ cookies \in Seq(Nat) /\ revoked \subseteq DOMAIN cookies
  /\ calls \in 0..MaxCalls /\ faults \in 0..MaxFaults /\ commands \in 0..MaxCommands

Holding == {"spend", "disable", "regenerate", "enable"}
Operations == {"login", "disable", "regenerate"}

\* What can be typed in: a code some phone showed or a recovery code, or anything else.
Phone(code) == code[1] = "phone" /\ code[2] \in 1..secrets /\ code[3] \in 1..(MaxTime + 1)
Typable(code) == Phone(code) \/ code \in PaperCodes \/ code[1] = "none"

Requested(q) ==
  \/ q.pc \in {"idle", "issue", "begin", "disable", "regenerate"}
  \/ q.pc = "claim" /\ q.pair \in Pairs
  \/ q.pc = "factor" /\ q.op \in Operations /\ Typable(q.code)
  \/ q.pc = "spend" /\ q.op \in Operations /\ Typable(q.code) /\ q.left \subseteq PaperCodes
  \/ q.pc = "confirm" /\ Phone(q.code)
  \/ q.pc = "enable" /\ Phone(q.code)
  \/ q.pc = "bump" /\ q.base \in Nat /\ q.before \subseteq DOMAIN cookies
  \/ q.pc = "cache" /\ q.gen \in Nat /\ q.before \subseteq DOMAIN cookies

RequestsTyped == DOMAIN req = Requests /\ \A r \in Requests : Requested(req[r])

\* totpMu is held by the request between its two steps, and by nobody else.
Locked ==
  /\ totpMu \in Requests \cup {"free"}
  /\ \A r \in Requests : totpMu = r <=> req[r].pc \in Holding

Typed == SettingsTyped /\ RequestsTyped /\ Locked

-----------------------------------------------------------------------------
(* The second step *)

SpentOf(s) == {c \in spent : c[1] = "phone" /\ c[2] = s}

\* Codes accepted so far: those of the secret in use are not after lastStep, those
\* of paper are no longer among what is left, the parked secret has none, nor has
\* any secret or batch to come.
Spent ==
  /\ \A c \in spent : \/ c[1] = "phone" /\ c[2] \in 1..secrets /\ c[3] \in Int
                      \/ c[1] = "paper" /\ c[2] \in 1..batches
  /\ secret # 0 => \A c \in SpentOf(secret) : c[3] <= lastStep
  /\ pending # 0 => SpentOf(pending) = {} /\ pending # secret
  /\ recovery \cap spent = {}

\* What the request that holds totpMu has read is still so, but for a reset from
\* the command line.
StillRight(q) ==
  /\ q.pc = "spend" =>
       /\ q.code \notin spent /\ q.left \cap spent = {}
       /\ q.code[1] = "phone" => /\ Phone(q.code) /\ q.code[2] # pending
                                 /\ secret # 0 => secret = q.code[2] /\ q.code[3] > lastStep
       /\ q.code[1] # "phone" => q.code \in PaperCodes
  /\ q.pc = "enable" => SpentOf(q.code[2]) = {} /\ secret # q.code[2]

NoneTwice ==
  /\ again = {} /\ Spent
  /\ \A r \in Requests : StillRight(req[r])

-----------------------------------------------------------------------------
(* Logout *)

InLogout == {r \in Requests : req[r].pc \in {"bump", "cache"}}

\* The generation a logout under way will write, or remember.
Reaches(q) == IF q.pc = "bump" THEN q.base + 1 ELSE q.gen

\* The cookies a finished logout has ended, or one under way will.
Ending == revoked \cup UNION {req[r].before : r \in InLogout}

\* Logouts that have not written yet have read the same generation, which is the
\* stored one or has been moved on by one of them; each passes every cookie a
\* logout ends.
LogoutsPass ==
  /\ sessionGen <= gen
  /\ \A i \in DOMAIN cookies : cookies[i] <= gen
  /\ \A q, r \in InLogout : req[q].pc = "bump" /\ req[r].pc = "bump" => req[q].base = req[r].base
  /\ \A q \in InLogout : req[q].pc = "bump" => gen \in {req[q].base, req[q].base + 1}
  /\ \A q \in InLogout : req[q].pc = "cache" => req[q].gen <= gen
  /\ \A q \in InLogout : \A i \in Ending : cookies[i] < Reaches(req[q])
  /\ \A i \in revoked : cookies[i] < sessionGen

-----------------------------------------------------------------------------
(* The account *)

\* Whoever claimed the account, or was given it, has both its name and its password.
Claimed ==
  /\ \A r \in Requests : req[r].pc # "idle" => up
  /\ up /\ command # Nobody => hash # Nobody
  /\ command # Nobody => user = command /\ commands > 0
  /\ command = Nobody => user = hash
  /\ claims # <<>> => hash # Nobody /\ Len(claims) = 1
  /\ claims # <<>> /\ commands = 0 => user = claims[1] /\ hash = claims[1]

-----------------------------------------------------------------------------
(* Requests that move on *)

LEMMA Moved ==
  ASSUME RequestsTyped, NEW r \in Requests, NEW state, Goes(r, state)
  PROVE  /\ DOMAIN req' = Requests /\ req'[r] = state
         /\ \A q \in Requests : q # r => req'[q] = req[q]
  BY DEF Goes, RequestsTyped

\* Codes, secrets, batches and cookies are only ever added.
LEMMA RequestedStays ==
  ASSUME NEW q, Requested(q), SettingsTyped,
         secrets' \in Nat, secrets' >= secrets, batches' \in Nat, batches' >= batches,
         DOMAIN cookies \subseteq DOMAIN cookies'
  PROVE  Requested(q)'
<1>1. secrets \in Nat /\ batches \in Nat
  BY DEF SettingsTyped
<1>2. PaperCodes \subseteq PaperCodes'
  BY <1>1 DEF PaperCodes
<1>3. \A code : Phone(code) => Phone(code)'
  BY <1>1 DEF Phone
<1>4. \A code : Typable(code) => Typable(code)'
  BY <1>2, <1>3 DEF Typable
<1> QED
  BY <1>2, <1>3, <1>4 DEF Requested

LEMMA RequestsMove ==
  ASSUME Typed, NEW r \in Requests, NEW state, Goes(r, state), Requested(state)',
         secrets' \in Nat, secrets' >= secrets, batches' \in Nat, batches' >= batches,
         DOMAIN cookies \subseteq DOMAIN cookies'
  PROVE  RequestsTyped'
<1>1. /\ DOMAIN req' = Requests /\ req'[r] = state
      /\ \A q \in Requests : q # r => req'[q] = req[q]
  BY Moved DEF Typed
<1>2. \A q \in Requests : Requested(req[q]) /\ SettingsTyped
  BY DEF Typed, RequestsTyped
<1>3. ASSUME NEW q \in Requests PROVE Requested(req[q])'
  <2>1. CASE q = r
    BY <1>1, <2>1 DEF Requested, Phone, Typable, PaperCodes
  <2>2. CASE q # r
    <3>1. PICK s : s = req[q]
      OBVIOUS
    <3>2. Requested(s)'
      BY <1>2, <3>1, RequestedStays
    <3> QED
      BY <1>1, <2>2, <3>1, <3>2 DEF Requested, Phone, Typable, PaperCodes
  <2> QED
    BY <2>1, <2>2
<1> QED
  BY <1>1, <1>3 DEF RequestsTyped

LEMMA RequestsStay ==
  ASSUME Typed, UNCHANGED <<req, secrets, batches, cookies>> PROVE RequestsTyped'
  BY DEF Typed, RequestsTyped, Requested, Phone, Typable, PaperCodes

\* The lock is taken, given back, or left alone.
LEMMA LockMoves ==
  ASSUME Typed, NEW r \in Requests, NEW state, Goes(r, state),
         \/ totpMu' = totpMu /\ (req[r].pc \in Holding <=> state.pc \in Holding)
         \/ totpMu = "free" /\ totpMu' = r /\ state.pc \in Holding
         \/ req[r].pc \in Holding /\ totpMu' = "free" /\ state.pc \notin Holding
  PROVE  Locked'
<1>1. /\ req'[r] = state
      /\ \A q \in Requests : q # r => req'[q] = req[q]
  BY Moved DEF Typed
<1>2. "free" \notin Requests
  BY LoginAssumption
<1> QED
  BY <1>1, <1>2 DEF Typed, Locked

\* Two requests never hold the lock at once.
LEMMA OneHolds ==
  ASSUME Typed, NEW r \in Requests, NEW q \in Requests,
         req[r].pc \in Holding, req[q].pc \in Holding \/ totpMu = q
  PROVE  q = r
  BY DEF Typed, Locked

-----------------------------------------------------------------------------
(* Every step keeps the types *)

LEMMA TypedInit == Init => Typed
<1> SUFFICES ASSUME Init PROVE Typed
  OBVIOUS
<1>1. req = [r \in Requests |-> Idle] /\ totpMu = "free"
  BY DEF Init
<1>2. RequestsTyped
  BY <1>1 DEF RequestsTyped, Requested, Idle
<1>3. Locked
  BY <1>1, LoginAssumption DEF Locked, Idle, Holding
<1>4. <<>> \in Seq(Nat) /\ <<0>> \in Seq(Nat)
  BY EmptySeq
<1>5. now \in 2..MaxTime /\ lastStep \in 0..(MaxTime + 1) /\ deadline \in 0..(MaxTime + Window)
  BY LoginAssumption DEF Init
<1>6. calls \in 0..MaxCalls /\ faults \in 0..MaxFaults /\ commands \in 0..MaxCommands
  BY LoginAssumption DEF Init
<1>7. /\ user \in Pairs \cup {Nobody} /\ hash \in Pairs \cup {Nobody}
      /\ cookies \in Seq(Nat)
  BY <1>4 DEF Init
<1>9. /\ secrets \in {0, 1} /\ batches \in {0, 1}
      /\ secret \in {0, secrets} /\ pending \in {0, secrets}
  BY DEF Init
<1>10. /\ secrets \in Nat /\ batches \in Nat
       /\ secret \in 0..secrets /\ pending \in 0..secrets
  BY <1>9
<1>8. recovery \subseteq PaperCodes
  BY DEF Init, PaperCodes, Batch
<1> QED
  BY <1>2, <1>3, <1>5, <1>6, <1>7, <1>8, <1>10 DEF Init, Typed, SettingsTyped

\* What a request that arrives may bring.
Arrived(r) == \E state : Goes(r, state) /\ Requested(state) /\ state.pc \notin Holding

LEMMA Arriving ==
  ASSUME NEW r, NEW state, Goes(r, state), Requested(state), state.pc \notin Holding
  PROVE  Arrived(r)
  BY DEF Arrived

LEMMA AsksArrive ==
  ASSUME Typed, NEW r \in Requests, Asks(r) PROVE Arrived(r)
<1>1. secrets \in Nat /\ batches \in Nat /\ now \in 2..MaxTime /\ gen \in Nat
  BY DEF Typed, SettingsTyped
<1>2. ASSUME NEW code \in PhoneCodes PROVE Phone(code)
  <2>1. PICK s \in 1..secrets, t \in now - 1 .. now + 1 : code = <<"phone", s, t>>
    BY DEF PhoneCodes
  <2>2. code[1] = "phone" /\ code[2] = s /\ code[3] = t
    BY <2>1
  <2>3. t \in 1..(MaxTime + 1)
    BY <1>1, LoginAssumption
  <2> QED
    BY <2>2, <2>3 DEF Phone
<1>3. ASSUME NEW p \in Pairs, SetupChecks(r, p) PROVE Arrived(r)
  <2>1. Goes(r, IF now <= Deadline THEN [pc |-> "claim", pair |-> p] ELSE Idle)
    BY <1>3 DEF SetupChecks, Arrives
  <2>2. Requested([pc |-> "claim", pair |-> p]) /\ Requested(Idle)
    BY DEF Requested, Idle
  <2>3. [pc |-> "claim", pair |-> p].pc \notin Holding /\ Idle.pc \notin Holding
    BY DEF Idle, Holding
  <2>4. CASE now <= Deadline
    BY <2>1, <2>2, <2>3, <2>4, Arriving
  <2>5. CASE ~(now <= Deadline)
    BY <2>1, <2>2, <2>3, <2>5, Arriving
  <2> QED
    BY <2>4, <2>5
<1>4. ASSUME NEW op \in Operations, NEW code, Typable(code),
             Goes(r, [pc |-> "factor", op |-> op, code |-> code, at |-> now])
      PROVE  Arrived(r)
  <2>1. Requested([pc |-> "factor", op |-> op, code |-> code, at |-> now])
    BY <1>4 DEF Requested
  <2>2. [pc |-> "factor", op |-> op, code |-> code, at |-> now].pc \notin Holding
    BY DEF Holding
  <2> QED
    BY <1>4, <2>1, <2>2, Arriving
<1>5. CASE \E code \in PhoneCodes \cup PaperCodes \cup {<<"none">>} : LoginChecks(r, code)
  <2>1. PICK code \in PhoneCodes \cup PaperCodes \cup {<<"none">>} : LoginChecks(r, code)
    BY <1>5
  <2>2. Typable(code)
    BY <1>2 DEF Typable
  <2> QED
    BY <1>4, <2>1, <2>2 DEF LoginChecks, Arrives, Operations
<1>6. CASE \E op \in {"disable", "regenerate"}, code \in PhoneCodes \cup PaperCodes : SettingsAsk(r, op, code)
  <2>1. PICK op \in {"disable", "regenerate"}, code \in PhoneCodes \cup PaperCodes : SettingsAsk(r, op, code)
    BY <1>6
  <2>2. Typable(code)
    BY <1>2 DEF Typable
  <2> QED
    BY <1>4, <2>1, <2>2 DEF SettingsAsk, Arrives, Operations
<1>7. CASE BeginAsks(r)
  <2>1. Goes(r, [pc |-> "begin"]) /\ Requested([pc |-> "begin"])
    BY <1>7 DEF BeginAsks, Arrives, Requested
  <2>2. [pc |-> "begin"].pc \notin Holding
    BY DEF Holding
  <2> QED
    BY <2>1, <2>2, Arriving
<1>8. CASE \E code \in PhoneCodes : EnableAsks(r, code)
  <2>1. PICK code \in PhoneCodes : EnableAsks(r, code)
    BY <1>8
  <2>2. Requested([pc |-> "confirm", code |-> code, at |-> now])
    BY <1>2 DEF Requested
  <2>3. [pc |-> "confirm", code |-> code, at |-> now].pc \notin Holding
    BY DEF Holding
  <2> QED
    BY <2>1, <2>2, <2>3, Arriving DEF EnableAsks, Arrives
<1>9. CASE LogoutReads(r)
  <2>1. Requested([pc |-> "bump", base |-> gen, before |-> DOMAIN cookies])
    BY <1>1 DEF Requested
  <2>2. [pc |-> "bump", base |-> gen, before |-> DOMAIN cookies].pc \notin Holding
    BY DEF Holding
  <2> QED
    BY <1>9, <2>1, <2>2, Arriving DEF LogoutReads, Arrives
<1> QED
  BY <1>3, <1>5, <1>6, <1>7, <1>8, <1>9 DEF Asks

\* A request arrives: what it brings is all that has to be looked at.
LEMMA AsksTyped ==
  ASSUME Typed, NEW r \in Requests, Asks(r) PROVE Typed'
<1> USE DEF Typed
<1>0. /\ calls' \in 0..MaxCalls /\ req[r].pc = "idle" /\ up
      /\ UNCHANGED <<now, user, hash, gen, totpVars, processVars, command, cookies, historyVars, faults, commands>>
  <2>1. \E state : Arrives(r, state)
    BY DEF Asks, SetupChecks, LoginChecks, SettingsAsk, BeginAsks, EnableAsks, LogoutReads
  <2>2. calls' \in 0..MaxCalls /\ req[r].pc = "idle" /\ up /\ UNCHANGED <<faults, commands>>
    BY <2>1, LoginAssumption DEF Arrives, At, SettingsTyped
  <2> QED
    BY <2>2 DEF Asks, SetupChecks, LoginChecks, SettingsAsk, BeginAsks, EnableAsks, LogoutReads, adminVars
<1>1. deadline' \in 0..(MaxTime + Window)
  <2>1. deadline' = deadline \/ deadline' = Deadline
    BY DEF Asks, SetupChecks, LoginChecks, SettingsAsk, BeginAsks, EnableAsks, LogoutReads, adminVars
  <2> QED
    BY <2>1, LoginAssumption DEF Deadline, SettingsTyped
<1>2. SettingsTyped'
  BY <1>0, <1>1 DEF SettingsTyped, totpVars, processVars, historyVars, PaperCodes
<1>3. secrets \in Nat /\ batches \in Nat
  BY DEF SettingsTyped
<1>5. Arrived(r)
  BY AsksArrive
<1>6. UNCHANGED <<secrets, batches, cookies, totpMu>>
  BY <1>0 DEF historyVars, processVars
<1> PICK state : Goes(r, state) /\ Requested(state) /\ state.pc \notin Holding
  BY <1>5 DEF Arrived
<1>7. Requested(state)'
  BY <1>3, <1>6, RequestedStays
<1>8. RequestsTyped'
  BY <1>3, <1>5, <1>6, <1>7, RequestsMove
<1>9. Locked'
  BY <1>0, <1>5, <1>6, LockMoves DEF Holding
<1> QED
  BY <1>2, <1>8, <1>9

\* A request moves on: its new state, the settings it writes and the lock are all
\* that has to be looked at.
LEMMA MovesTyped ==
  ASSUME Typed, NEW r \in Requests, NEW state, Goes(r, state), Requested(state), SettingsTyped',
         secrets' >= secrets, batches' >= batches, DOMAIN cookies \subseteq DOMAIN cookies',
         \/ totpMu' = totpMu /\ (req[r].pc \in Holding <=> state.pc \in Holding)
         \/ totpMu = "free" /\ totpMu' = r /\ state.pc \in Holding
         \/ req[r].pc \in Holding /\ totpMu' = "free" /\ state.pc \notin Holding
  PROVE  Typed'
<1>1. secrets' \in Nat /\ batches' \in Nat /\ SettingsTyped
  BY DEF SettingsTyped, Typed
<1>2. Requested(state)'
  BY <1>1, RequestedStays
<1> QED
  BY <1>1, <1>2, RequestsMove, LockMoves DEF Typed

\* The states a request goes through that carry nothing.
LEMMA PlainStates ==
  ASSUME NEW pc \in {"idle", "issue", "disable", "regenerate"}
  PROVE  Requested([pc |-> pc]) /\ [pc |-> pc].pc = pc
  BY DEF Requested

\* What a step that writes none of the settings leaves typed.
LEMMA SettingsStay ==
  ASSUME SettingsTyped,
         UNCHANGED <<now, user, hash, deadline, gen, secret, pending, lastStep, recovery, up, command, cookies,
                     secrets, batches, revoked, calls, commands>>,
         sessionGen' \in Nat, faults' \in 0..MaxFaults
  PROVE  SettingsTyped'
  BY DEF SettingsTyped, PaperCodes

LEMMA BatchTyped == ASSUME NEW b \in 1..batches PROVE Batch(b) \subseteq PaperCodes
  BY DEF Batch, PaperCodes

LEMMA PaperStays ==
  ASSUME batches \in Nat, batches' \in Nat, batches' >= batches PROVE PaperCodes \subseteq PaperCodes'
  BY DEF PaperCodes

LEMMA FaultTyped ==
  ASSUME Typed, Fault PROVE faults' \in 0..MaxFaults /\ UNCHANGED <<calls, commands>>
  BY LoginAssumption DEF Fault, Typed, SettingsTyped

LEMMA ClaimsTyped ==
  ASSUME Typed, NEW r \in Requests, SetupClaims(r) PROVE Typed'
<1> USE DEF Typed
<1>1. At(r, "claim") /\ req[r].pair \in Pairs /\ req[r].pc \notin Holding
  BY DEF SetupClaims, At, RequestsTyped, Requested, Holding
<1>2. SettingsTyped'
  BY <1>1 DEF SetupClaims, SettingsTyped, totpVars, processVars, countVars, PaperCodes
<1>3. UNCHANGED <<secrets, batches, cookies, totpMu>> /\ secrets \in Nat /\ batches \in Nat
  BY DEF SetupClaims, processVars, SettingsTyped
<1>4. Goes(r, [pc |-> "issue"]) \/ Goes(r, [pc |-> "idle"])
  BY DEF SetupClaims, Idle
<1> QED
  BY <1>1, <1>2, <1>3, <1>4, MovesTyped, PlainStates DEF Holding

LEMMA IssueTyped ==
  ASSUME Typed, NEW r \in Requests, Issue(r) PROVE Typed'
<1> USE DEF Typed
<1>1. /\ cookies \in Seq(Nat) /\ sessionGen \in Nat /\ cookies' = Append(cookies, sessionGen)
      /\ secrets \in Nat /\ batches \in Nat
  BY DEF Issue, SettingsTyped
<1>2. cookies' \in Seq(Nat) /\ DOMAIN cookies \subseteq DOMAIN cookies'
  BY <1>1, AppendProperties
<1>3. UNCHANGED <<now, user, hash, deadline, gen, secret, pending, lastStep, recovery, up, sessionGen, totpMu,
                  command, secrets, batches, revoked, calls, faults, commands>>
  BY DEF Issue, adminVars, totpVars, processVars, historyVars, countVars
<1>4. SettingsTyped'
  BY <1>2, <1>3 DEF SettingsTyped, PaperCodes
<1>5. Goes(r, [pc |-> "idle"]) /\ req[r].pc \notin Holding
  BY DEF Issue, Idle, At, Holding
<1> QED
  BY <1>1, <1>2, <1>3, <1>4, <1>5, MovesTyped, PlainStates DEF Holding

\* A right code is of the phone whose secret is in use, for a later step, or is one
\* of the recovery codes that are left.
LEMMA FactorRight ==
  ASSUME Typed, NEW r \in Requests, At(r, "factor")
  PROVE  /\ req[r].op \in Operations /\ Typable(req[r].code)
         /\ RightCode(req[r].code, req[r].at) =>
              \/ Phone(req[r].code) /\ req[r].code[2] = secret /\ req[r].code[3] > lastStep
              \/ req[r].code \in recovery
<1>1. req[r].op \in Operations /\ Typable(req[r].code)
  BY DEF Typed, RequestsTyped, Requested, At
<1>2. req[r].code \in PaperCodes => req[r].code[1] = "paper"
  BY DEF PaperCodes
<1> QED
  BY <1>1, <1>2 DEF RightCode, totpMatch, Typable

LEMMA FactorReadsTyped ==
  ASSUME Typed, NEW r \in Requests, FactorReads(r) PROVE Typed'
<1> USE DEF Typed
<1>1. /\ UNCHANGED <<now, user, hash, deadline, gen, secret, pending, lastStep, recovery, up, sessionGen,
                     command, cookies, secrets, batches, revoked, calls, faults, commands>>
      /\ totpMu = "free" /\ At(r, "factor") /\ req[r].pc \notin Holding
  BY DEF FactorReads, adminVars, totpVars, historyVars, countVars, At, Holding
<1>2. SettingsTyped' /\ secrets \in Nat /\ batches \in Nat
  BY <1>1, SettingsStay DEF SettingsTyped
<1>3. ASSUME totpMu' = r, Goes(r, Spending(r)) PROVE Typed'
  <2> DEFINE state == Spending(r)
  <2>1. state.pc = "spend" /\ state.op = req[r].op /\ state.code = req[r].code /\ state.left = recovery
    BY DEF Spending
  <2>2. Goes(r, state)
    BY <1>3
  <2> HIDE DEF state
  <2>3. Requested(state)
    BY <1>1, <2>1, FactorRight DEF Requested, SettingsTyped
  <2> QED
    BY <1>1, <1>2, <1>3, <2>1, <2>2, <2>3, MovesTyped DEF Holding
<1>4. ASSUME totpMu' = totpMu, Goes(r, [pc |-> "issue"]) \/ Goes(r, [pc |-> "idle"]) PROVE Typed'
  BY <1>1, <1>2, <1>4, MovesTyped, PlainStates DEF Holding
<1> QED
  BY <1>3, <1>4 DEF FactorReads, Idle

LEMMA CodeKinds ==
  ASSUME NEW code, Typable(code)
  PROVE  /\ code[1] = "phone" => Phone(code)
         /\ code \in PaperCodes => code[1] = "paper"
  BY DEF Typable, PaperCodes

LEMMA FactorWritesTyped ==
  ASSUME Typed, NEW r \in Requests, FactorWrites(r) PROVE Typed'
<1> USE DEF Typed
<1>1. At(r, "spend") /\ req[r].op \in Operations /\ Typable(req[r].code) /\ req[r].left \subseteq PaperCodes
  BY DEF FactorWrites, RequestsTyped, Requested, At
<1>2. UNCHANGED <<now, user, hash, deadline, gen, secret, pending, up, sessionGen, command, cookies, secrets,
                  batches, revoked, calls, faults, commands>>
  BY DEF FactorWrites, adminVars, countVars
<1>3. /\ lastStep' = lastStep \/ (req[r].code[1] = "phone" /\ lastStep' = req[r].code[3])
      /\ recovery' = recovery \/ recovery' = req[r].left \ {req[r].code}
  BY DEF FactorWrites
<1>4. lastStep' \in 0..(MaxTime + 1)
  BY <1>1, <1>3, CodeKinds, LoginAssumption DEF Phone, SettingsTyped
<1>5. recovery' \subseteq PaperCodes
  BY <1>1, <1>3 DEF SettingsTyped
<1>6. SettingsTyped' /\ secrets \in Nat /\ batches \in Nat
  BY <1>2, <1>4, <1>5 DEF SettingsTyped, PaperCodes
<1>7. req[r].pc \in Holding
  BY <1>1 DEF At, Holding
<1>8. CASE req[r].op = "login"
  <2>1. totpMu' = "free" /\ Goes(r, [pc |-> "issue"])
    BY <1>8 DEF FactorWrites
  <2> QED
    BY <1>2, <1>6, <1>7, <2>1, MovesTyped, PlainStates DEF Holding
<1>9. CASE req[r].op # "login"
  <2>1. totpMu' = totpMu /\ Goes(r, [pc |-> req[r].op]) /\ req[r].op \in {"disable", "regenerate"}
    BY <1>1, <1>9 DEF FactorWrites, Operations
  <2>2. Goes(r, [pc |-> "disable"]) \/ Goes(r, [pc |-> "regenerate"])
    BY <2>1
  <2> QED
    BY <1>2, <1>6, <1>7, <2>1, <2>2, MovesTyped, PlainStates DEF Holding
<1> QED
  BY <1>8, <1>9

LEMMA DisableTyped ==
  ASSUME Typed, NEW r \in Requests, DisableResets(r) PROVE Typed'
<1> USE DEF Typed
<1>1. /\ UNCHANGED <<now, user, hash, deadline, gen, up, sessionGen, command, cookies, secrets, batches,
                     revoked, calls, faults, commands>>
      /\ secret' = 0 /\ pending' = 0 /\ lastStep' = 0 /\ recovery' = {}
      /\ totpMu' = "free" /\ Goes(r, [pc |-> "idle"]) /\ req[r].pc \in Holding
  BY DEF DisableResets, ResetTOTP, adminVars, historyVars, countVars, Idle, At, Holding
<1>2. SettingsTyped' /\ secrets \in Nat /\ batches \in Nat
  BY <1>1, LoginAssumption DEF SettingsTyped, PaperCodes
<1> QED
  BY <1>1, <1>2, MovesTyped, PlainStates DEF Holding

LEMMA RegenerateTyped ==
  ASSUME Typed, NEW r \in Requests, RegenerateWrites(r) PROVE Typed'
<1> USE DEF Typed
<1>1. /\ UNCHANGED <<now, user, hash, deadline, gen, secret, pending, lastStep, up, sessionGen, command,
                     cookies, secrets, revoked, calls, faults, commands>>
      /\ batches' = batches + 1 /\ recovery' = Batch(batches')
      /\ totpMu' = "free" /\ Goes(r, [pc |-> "idle"]) /\ req[r].pc \in Holding
  BY DEF RegenerateWrites, adminVars, countVars, Idle, At, Holding
<1>2. secrets \in Nat /\ batches \in Nat /\ batches' \in 1..batches'
  BY <1>1 DEF SettingsTyped
<1>3. recovery' \subseteq PaperCodes'
  BY <1>1, <1>2 DEF Batch, PaperCodes
<1>4. SettingsTyped'
  BY <1>1, <1>2, <1>3 DEF SettingsTyped
<1> QED
  BY <1>1, <1>2, <1>4, MovesTyped, PlainStates DEF Holding

LEMMA FactorFailsTyped ==
  ASSUME Typed, NEW r \in Requests, FactorFails(r) PROVE Typed'
<1> USE DEF Typed
<1>1. /\ UNCHANGED <<now, user, hash, deadline, gen, secret, pending, lastStep, recovery, up, sessionGen,
                     command, cookies, secrets, batches, revoked>>
      /\ totpMu' = "free" /\ Goes(r, [pc |-> "idle"]) /\ req[r].pc \in Holding
  BY DEF FactorFails, adminVars, totpVars, historyVars, Idle, Holding
<1>2. faults' \in 0..MaxFaults /\ UNCHANGED <<calls, commands>>
  BY FaultTyped DEF FactorFails
<1>3. SettingsTyped' /\ secrets \in Nat /\ batches \in Nat
  BY <1>1, <1>2, SettingsStay DEF SettingsTyped
<1> QED
  BY <1>1, <1>3, MovesTyped, PlainStates DEF Holding

LEMMA BeginTyped ==
  ASSUME Typed, NEW r \in Requests, BeginParks(r) PROVE Typed'
<1> USE DEF Typed
<1>1. /\ UNCHANGED <<now, user, hash, deadline, gen, secret, lastStep, recovery, up, sessionGen, totpMu, command,
                     cookies, batches, revoked, calls, faults, commands>>
      /\ secrets' = secrets + 1 /\ pending' = secrets'
      /\ Goes(r, [pc |-> "idle"]) /\ req[r].pc \notin Holding
  BY DEF BeginParks, adminVars, processVars, countVars, Idle, At, Holding
<1>2. secrets \in Nat /\ batches \in Nat
  BY DEF SettingsTyped
<1>3. SettingsTyped'
  BY <1>1, <1>2 DEF SettingsTyped, PaperCodes
<1> QED
  BY <1>1, <1>2, <1>3, MovesTyped, PlainStates DEF Holding

LEMMA EnableReadsTyped ==
  ASSUME Typed, NEW r \in Requests, EnableReads(r) PROVE Typed'
<1> USE DEF Typed
<1>1. /\ UNCHANGED <<now, user, hash, deadline, gen, secret, pending, lastStep, recovery, up, sessionGen,
                     command, cookies, secrets, batches, revoked, calls, faults, commands>>
      /\ totpMu = "free" /\ At(r, "confirm") /\ req[r].pc \notin Holding
  BY DEF EnableReads, adminVars, totpVars, historyVars, countVars, At, Holding
<1>2. SettingsTyped' /\ secrets \in Nat /\ batches \in Nat
  BY <1>1, SettingsStay DEF SettingsTyped
<1>3. ASSUME totpMu' = r, Goes(r, [pc |-> "enable", code |-> req[r].code]) PROVE Typed'
  <2>1. Phone(req[r].code)
    BY <1>1 DEF RequestsTyped, Requested, At
  <2>2. Requested([pc |-> "enable", code |-> req[r].code])
    BY <2>1 DEF Requested
  <2>3. [pc |-> "enable", code |-> req[r].code].pc \in Holding
    BY DEF Holding
  <2> QED
    BY <1>1, <1>2, <1>3, <2>2, <2>3, MovesTyped
<1>4. ASSUME totpMu' = totpMu, Goes(r, [pc |-> "idle"]) PROVE Typed'
  BY <1>1, <1>2, <1>4, MovesTyped, PlainStates DEF Holding
<1> QED
  BY <1>3, <1>4 DEF EnableReads, Idle

LEMMA EnableWritesTyped ==
  ASSUME Typed, NEW r \in Requests, EnableWrites(r) PROVE Typed'
<1> USE DEF Typed
<1>1. /\ UNCHANGED <<now, user, hash, deadline, gen, up, sessionGen, command, cookies, secrets, revoked, calls,
                     faults, commands>>
      /\ secret' = req[r].code[2] /\ lastStep' = req[r].code[3] /\ pending' = 0
      /\ batches' = batches + 1 /\ recovery' = Batch(batches')
      /\ totpMu' = "free" /\ Goes(r, [pc |-> "idle"]) /\ At(r, "enable") /\ req[r].pc \in Holding
  BY DEF EnableWrites, adminVars, countVars, Idle, At, Holding
<1>2. Phone(req[r].code)
  BY <1>1 DEF RequestsTyped, Requested, At
<1>3. secrets \in Nat /\ batches \in Nat /\ batches' \in 1..batches'
  BY <1>1 DEF SettingsTyped
<1>4. recovery' \subseteq PaperCodes'
  BY <1>1, <1>3 DEF Batch, PaperCodes
<1>5. secret' \in 0..secrets' /\ pending' \in 0..secrets' /\ lastStep' \in 0..(MaxTime + 1)
  BY <1>1, <1>2, <1>3, LoginAssumption DEF Phone
<1>6. SettingsTyped'
  BY <1>1, <1>3, <1>4, <1>5 DEF SettingsTyped
<1> QED
  BY <1>1, <1>3, <1>6, MovesTyped, PlainStates DEF Holding

LEMMA LogoutTyped ==
  ASSUME Typed, NEW r \in Requests, LogoutWrites(r) \/ LogoutCaches(r) \/ LogoutFails(r) PROVE Typed'
<1> USE DEF Typed
<1>1. secrets \in Nat /\ batches \in Nat /\ Requested(req[r])
  BY DEF SettingsTyped, RequestsTyped
<1>2. CASE LogoutWrites(r)
  <2>1. /\ req[r].pc = "bump" /\ req[r].base \in Nat /\ req[r].before \subseteq DOMAIN cookies
        /\ req[r].pc \notin Holding
    BY <1>1, <1>2 DEF LogoutWrites, Requested, At, Holding
  <2>2. Requested([pc |-> "cache", gen |-> req[r].base + 1, before |-> req[r].before])
    BY <2>1 DEF Requested
  <2>3. /\ UNCHANGED <<now, user, hash, deadline, secret, pending, lastStep, recovery, up, sessionGen, totpMu,
                       command, cookies, secrets, batches, revoked, calls, faults, commands>>
        /\ gen' = req[r].base + 1
        /\ Goes(r, [pc |-> "cache", gen |-> req[r].base + 1, before |-> req[r].before])
    BY <1>2 DEF LogoutWrites, adminVars, totpVars, processVars, historyVars, countVars
  <2>4. SettingsTyped'
    BY <2>1, <2>3 DEF SettingsTyped, PaperCodes
  <2>5. [pc |-> "cache", gen |-> req[r].base + 1, before |-> req[r].before].pc \notin Holding
    BY DEF Holding
  <2> QED
    BY <1>1, <2>1, <2>2, <2>3, <2>4, <2>5, MovesTyped
<1>3. CASE LogoutCaches(r)
  <2>1. /\ req[r].pc = "cache" /\ req[r].gen \in Nat /\ req[r].before \subseteq DOMAIN cookies
        /\ req[r].pc \notin Holding
    BY <1>1, <1>3 DEF LogoutCaches, Requested, At, Holding
  <2>2. /\ UNCHANGED <<now, user, hash, deadline, gen, secret, pending, lastStep, recovery, up, totpMu, command,
                       cookies, secrets, batches, calls, faults, commands>>
        /\ sessionGen' = req[r].gen /\ revoked' = revoked \cup req[r].before
        /\ Goes(r, [pc |-> "idle"])
    BY <1>3 DEF LogoutCaches, adminVars, totpVars, countVars, Idle
  <2>3. SettingsTyped'
    BY <2>1, <2>2 DEF SettingsTyped, PaperCodes
  <2> QED
    BY <1>1, <2>1, <2>2, <2>3, MovesTyped, PlainStates DEF Holding
<1>4. CASE LogoutFails(r)
  <2>1. /\ UNCHANGED <<now, user, hash, deadline, gen, secret, pending, lastStep, recovery, up, sessionGen,
                       totpMu, command, cookies, secrets, batches, revoked>>
        /\ Goes(r, [pc |-> "idle"]) /\ req[r].pc \notin Holding
    BY <1>4 DEF LogoutFails, adminVars, totpVars, processVars, historyVars, Idle, At, Holding
  <2>2. faults' \in 0..MaxFaults /\ UNCHANGED <<calls, commands>>
    BY <1>4, FaultTyped DEF LogoutFails
  <2>3. SettingsTyped'
    BY <2>1, <2>2, SettingsStay DEF SettingsTyped
  <2> QED
    BY <1>1, <2>1, <2>3, MovesTyped, PlainStates DEF Holding
<1> QED
  BY <1>2, <1>3, <1>4

LEMMA ProceedsTyped == ASSUME Typed, NEW r \in Requests, Proceeds(r) PROVE Typed'
  BY ClaimsTyped, IssueTyped, FactorReadsTyped, FactorWritesTyped, DisableTyped, RegenerateTyped,
     FactorFailsTyped, BeginTyped, EnableReadsTyped, EnableWritesTyped, LogoutTyped DEF Proceeds

LEMMA PanelTyped ==
  ASSUME Typed, PanelStops \/ PanelStarts PROVE Typed'
<1> USE DEF Typed
<1>1. CASE PanelStops
  <2>1. /\ UNCHANGED <<now, user, hash, deadline, gen, secret, pending, lastStep, recovery, sessionGen, command,
                       cookies, secrets, batches, revoked>>
        /\ totpMu' = "free" /\ req' = [r \in Requests |-> Idle]
    BY <1>1 DEF PanelStops, adminVars, totpVars, historyVars
  <2>6. up' \in BOOLEAN
    BY <1>1 DEF PanelStops
  <2>2. faults' \in 0..MaxFaults /\ UNCHANGED <<calls, commands>>
    BY <1>1, FaultTyped DEF PanelStops
  <2>3. SettingsTyped'
    BY <2>1, <2>2, <2>6 DEF SettingsTyped, PaperCodes
  <2>4. RequestsTyped'
    BY <2>1 DEF RequestsTyped, Requested, Idle
  <2>5. Locked'
    BY <2>1, LoginAssumption DEF Locked, Idle, Holding
  <2> QED
    BY <2>3, <2>4, <2>5
<1>2. CASE PanelStarts
  <2>1. /\ UNCHANGED <<now, user, hash, deadline, gen, secret, pending, lastStep, recovery, totpMu, req, command,
                       cookies, secrets, batches, revoked, calls, faults, commands>>
        /\ up' = TRUE /\ sessionGen' = gen
    BY <1>2 DEF PanelStarts, adminVars, totpVars, historyVars, countVars
  <2>2. SettingsTyped'
    BY <2>1 DEF SettingsTyped, PaperCodes
  <2>3. RequestsTyped' /\ Locked'
    BY <2>1, RequestsStay DEF Locked
  <2> QED
    BY <2>2, <2>3
<1> QED
  BY <1>1, <1>2

LEMMA CommandTyped ==
  ASSUME Typed, Command PROVE commands' \in 1..MaxCommands /\ UNCHANGED <<calls, faults>>
  BY LoginAssumption DEF Command, Typed, SettingsTyped

LEMMA CommandsTyped ==
  ASSUME Typed, (\E p \in Pairs : SetAdminUser(p)) \/ SetAdminHash \/ ResetCommand \/ Tick \/ UNCHANGED vars
  PROVE  Typed'
<1> USE DEF Typed
<1>1. UNCHANGED <<req, secrets, batches, cookies, totpMu, gen, up, sessionGen, deadline, revoked>>
  BY DEF SetAdminUser, SetAdminHash, ResetCommand, Tick, vars, processVars, historyVars, adminVars
<1>2. RequestsTyped' /\ Locked'
  BY <1>1, RequestsStay DEF Locked
<1>3. CASE \E p \in Pairs : SetAdminUser(p)
  <2>1. PICK p \in Pairs : SetAdminUser(p)
    BY <1>3
  <2>2. commands' \in 1..MaxCommands /\ UNCHANGED <<calls, faults>>
    BY <2>1, CommandTyped DEF SetAdminUser
  <2>3. UNCHANGED <<now, hash, secret, pending, lastStep, recovery>> /\ user' = p /\ command' = p
    BY <2>1 DEF SetAdminUser, totpVars
  <2>4. SettingsTyped'
    BY <1>1, <2>2, <2>3 DEF SettingsTyped, PaperCodes
  <2> QED
    BY <1>2, <2>4
<1>4. CASE SetAdminHash
  <2>1. UNCHANGED <<now, user, secret, pending, lastStep, recovery, calls, faults, commands>>
        /\ hash' = command /\ command' = Nobody
    BY <1>4 DEF SetAdminHash, totpVars, countVars
  <2>2. SettingsTyped'
    BY <1>1, <2>1 DEF SettingsTyped, PaperCodes
  <2> QED
    BY <1>2, <2>2
<1>5. CASE ResetCommand
  <2>1. commands' \in 1..MaxCommands /\ UNCHANGED <<calls, faults>>
    BY <1>5, CommandTyped DEF ResetCommand
  <2>2. UNCHANGED <<now, user, hash, command>>
        /\ secret' = 0 /\ pending' = 0 /\ lastStep' = 0 /\ recovery' = {}
    BY <1>5 DEF ResetCommand, ResetTOTP, adminVars
  <2>3. SettingsTyped'
    BY <1>1, <2>1, <2>2, LoginAssumption DEF SettingsTyped, PaperCodes
  <2> QED
    BY <1>2, <2>3
<1>6. CASE Tick
  <2>1. UNCHANGED <<user, hash, secret, pending, lastStep, recovery, command, calls, faults, commands>>
    BY <1>6 DEF Tick, adminVars, totpVars, countVars
  <2>2. now' \in 2..MaxTime
    BY <1>6, LoginAssumption DEF Tick, SettingsTyped
  <2>3. SettingsTyped'
    BY <1>1, <2>1, <2>2 DEF SettingsTyped, PaperCodes
  <2> QED
    BY <1>2, <2>3
<1>7. CASE UNCHANGED vars
  <2>1. UNCHANGED <<now, user, hash, secret, pending, lastStep, recovery, command, calls, faults, commands>>
    BY <1>7 DEF vars, adminVars, totpVars, countVars
  <2>2. SettingsTyped'
    BY <1>1, <2>1 DEF SettingsTyped, PaperCodes
  <2> QED
    BY <1>2, <2>2
<1> QED
  BY <1>3, <1>4, <1>5, <1>6, <1>7

LEMMA TypedNext == Typed /\ [Next]_vars => Typed'
  BY AsksTyped, ProceedsTyped, PanelTyped, CommandsTyped DEF Next

-----------------------------------------------------------------------------
(* No code is accepted twice *)

LEMMA SpentInit == Init => NoneTwice
<1> SUFFICES ASSUME Init PROVE NoneTwice
  OBVIOUS
<1>1. again = {} /\ spent = {} /\ req = [r \in Requests |-> Idle] /\ (pending # 0 => pending # secret)
  BY DEF Init
<1> QED
  BY <1>1 DEF NoneTwice, Spent, SpentOf, StillRight, Idle

\* A request that is not between its two steps has nothing to be right about.
LEMMA NothingRead == ASSUME NEW q, q.pc \notin {"spend", "enable"} PROVE StillRight(q)
  BY DEF StillRight

\* What is right stays right while the codes spent and the second step stay as they are.
LEMMA RightStays ==
  ASSUME NEW q, StillRight(q), SettingsTyped,
         UNCHANGED <<spent, secret, pending, lastStep>>,
         secrets' \in Nat, secrets' >= secrets, batches' \in Nat, batches' >= batches
  PROVE  StillRight(q)'
<1>1. PaperCodes \subseteq PaperCodes'
  BY PaperStays DEF SettingsTyped
<1>2. \A code : Phone(code) => Phone(code)'
  BY DEF Phone, SettingsTyped
<1>3. SpentOf(q.code[2])' = SpentOf(q.code[2])
  BY DEF SpentOf
<1> QED
  BY <1>1, <1>2, <1>3 DEF StillRight

LEMMA SpentStays ==
  ASSUME Spent, UNCHANGED <<spent, secret, pending, lastStep, recovery, secrets, batches>> PROVE Spent'
  BY DEF Spent, SpentOf

\* Steps that neither spend a code nor write the second step.
LEMMA SecondStepStays ==
  ASSUME Typed, NoneTwice,
         UNCHANGED <<spent, again, secret, pending, lastStep, recovery, secrets, batches>>,
         \A q \in Requests : req'[q] = req[q] \/ StillRight(req'[q])
  PROVE  NoneTwice'
<1>1. again' = {} /\ Spent'
  BY SpentStays DEF NoneTwice
<1>2. SettingsTyped /\ secrets' \in Nat /\ secrets' >= secrets /\ batches' \in Nat /\ batches' >= batches
  BY DEF Typed, SettingsTyped
<1>3. ASSUME NEW q \in Requests PROVE StillRight(req[q])'
  <2>1. PICK s : s = req'[q]
    OBVIOUS
  <2>2. StillRight(s)
    BY <2>1 DEF NoneTwice
  <2>3. StillRight(s)'
    BY <1>2, <2>2, RightStays
  <2> QED
    BY <2>1, <2>3 DEF StillRight, SpentOf, Phone, PaperCodes
<1> QED
  BY <1>1, <1>3 DEF NoneTwice

LEMMA OneMoves ==
  ASSUME Typed, NoneTwice, NEW r \in Requests, NEW state, Goes(r, state), StillRight(state),
         UNCHANGED <<spent, again, secret, pending, lastStep, recovery, secrets, batches>>
  PROVE  NoneTwice'
<1>1. \A q \in Requests : req'[q] = req[q] \/ StillRight(req'[q])
  BY Moved DEF Typed
<1> QED
  BY <1>1, SecondStepStays

LEMMA QuietSpends ==
  ASSUME Typed, NoneTwice, NEW r \in Requests,
         \/ Asks(r) \/ SetupClaims(r) \/ Issue(r) \/ FactorFails(r)
         \/ LogoutWrites(r) \/ LogoutCaches(r) \/ LogoutFails(r)
  PROVE  NoneTwice'
<1>1. UNCHANGED <<spent, again, secret, pending, lastStep, recovery, secrets, batches>>
  BY DEF Asks, SetupChecks, LoginChecks, SettingsAsk, BeginAsks, EnableAsks, LogoutReads, SetupClaims, Issue,
         FactorFails, LogoutWrites, LogoutCaches, LogoutFails, totpVars, historyVars
<1>2. \E state : Goes(r, state) /\ state.pc \notin {"spend", "enable"}
  <2>1. ASSUME Asks(r) PROVE \E state : Goes(r, state) /\ state.pc \notin {"spend", "enable"}
    BY <2>1, AsksArrive DEF Arrived, Holding
  <2>2. ASSUME SetupClaims(r) PROVE \E state : Goes(r, state) /\ state.pc \notin {"spend", "enable"}
    BY <2>2 DEF SetupClaims, Idle
  <2>3. ASSUME Issue(r) \/ FactorFails(r) \/ LogoutCaches(r) \/ LogoutFails(r)
        PROVE  \E state : Goes(r, state) /\ state.pc \notin {"spend", "enable"}
    BY <2>3 DEF Issue, FactorFails, LogoutCaches, LogoutFails, Idle
  <2>4. ASSUME LogoutWrites(r) PROVE \E state : Goes(r, state) /\ state.pc \notin {"spend", "enable"}
    BY <2>4 DEF LogoutWrites
  <2> QED
    BY <2>1, <2>2, <2>3, <2>4
<1> QED
  BY <1>1, <1>2, NothingRead, OneMoves

\* A right code is not among those accepted.
LEMMA ReadsSpends ==
  ASSUME Typed, NoneTwice, NEW r \in Requests, FactorReads(r) PROVE NoneTwice'
<1>1. /\ UNCHANGED <<spent, again, secret, pending, lastStep, recovery, secrets, batches>>
      /\ At(r, "factor")
  BY DEF FactorReads, totpVars, historyVars
<1>2. ASSUME secret # 0, RightCode(req[r].code, req[r].at), Goes(r, Spending(r)) PROVE NoneTwice'
  <2> DEFINE code == req[r].code
             state == Spending(r)
  <2>1. state.pc = "spend" /\ state.code = code /\ state.left = recovery
    BY DEF Spending
  <2>2. Goes(r, state)
    BY <1>2
  <2>3. /\ Typable(code)
        /\ \/ Phone(code) /\ code[2] = secret /\ code[3] > lastStep
           \/ code \in recovery
    BY <1>1, <1>2, FactorRight
  <2>4. recovery \subseteq PaperCodes /\ lastStep \in Int
    BY LoginAssumption DEF Typed, SettingsTyped
  <2> HIDE DEF code, state
  <2>5. CASE Phone(code) /\ code[2] = secret /\ code[3] > lastStep
    <3>1. code \notin spent
      <4>1. SUFFICES ASSUME code \in spent PROVE FALSE
        OBVIOUS
      <4>2. code \in SpentOf(secret)
        BY <2>5, <4>1 DEF SpentOf, Phone
      <4>3. code[3] <= lastStep
        BY <1>2, <4>2 DEF NoneTwice, Spent
      <4> QED
        BY <2>4, <2>5, <4>3, LoginAssumption DEF Phone
    <3>2. code[2] # pending
      BY <1>2, <2>5 DEF NoneTwice, Spent
    <3>3. StillRight(state)
      BY <2>1, <2>5, <3>1, <3>2 DEF StillRight, NoneTwice, Spent, Phone
    <3> QED
      BY <1>1, <2>2, <3>3, OneMoves
  <2>6. CASE code \in recovery
    <3>1. code \in PaperCodes /\ code[1] # "phone" /\ code \notin spent
      BY <2>3, <2>4, <2>6, CodeKinds DEF NoneTwice, Spent
    <3>2. StillRight(state)
      BY <2>1, <3>1 DEF StillRight, NoneTwice, Spent
    <3> QED
      BY <1>1, <2>2, <3>2, OneMoves
  <2> QED
    BY <2>3, <2>5, <2>6
<1>3. ASSUME Goes(r, [pc |-> "issue"]) \/ Goes(r, [pc |-> "idle"]) PROVE NoneTwice'
  <2>1. StillRight([pc |-> "issue"]) /\ StillRight([pc |-> "idle"])
    BY NothingRead
  <2> QED
    BY <1>1, <1>3, <2>1, OneMoves
<1> QED
  BY <1>2, <1>3 DEF FactorReads, Idle

LEMMA EnableReadsSpends ==
  ASSUME Typed, NoneTwice, NEW r \in Requests, EnableReads(r) PROVE NoneTwice'
<1>1. /\ UNCHANGED <<spent, again, secret, pending, lastStep, recovery, secrets, batches>>
  BY DEF EnableReads, totpVars, historyVars
<1>2. ASSUME pending # 0, totpMatch(pending, req[r].code, req[r].at, 0),
             Goes(r, [pc |-> "enable", code |-> req[r].code])
      PROVE  NoneTwice'
  <2>1. SpentOf(req[r].code[2]) = {} /\ secret # req[r].code[2]
    BY <1>2 DEF totpMatch, NoneTwice, Spent
  <2>2. StillRight([pc |-> "enable", code |-> req[r].code])
    BY <2>1 DEF StillRight
  <2> QED
    BY <1>1, <1>2, <2>2, OneMoves
<1>3. ASSUME Goes(r, [pc |-> "idle"]) PROVE NoneTwice'
  BY <1>1, <1>3, NothingRead, OneMoves
<1> QED
  BY <1>2, <1>3 DEF EnableReads, Idle

\* While one request holds totpMu no other has read a code.
LEMMA OthersHaveReadNothing ==
  ASSUME Typed, NEW r \in Requests, req[r].pc \in Holding, NEW state, Goes(r, state),
         state.pc \notin {"spend", "enable"}
  PROVE  \A q \in Requests : StillRight(req[q])'
<1>1. ASSUME NEW q \in Requests PROVE req'[q].pc \notin {"spend", "enable"}
  <2>1. CASE q = r
    BY <2>1, Moved DEF Typed
  <2>2. CASE q # r
    <3>1. req[q].pc \notin Holding /\ req'[q] = req[q]
      BY <2>2, OneHolds, Moved DEF Typed
    <3> QED
      BY <3>1 DEF Holding
  <2> QED
    BY <2>1, <2>2
<1> QED
  BY <1>1 DEF StillRight

LEMMA WritesSpends ==
  ASSUME Typed, NoneTwice, NEW r \in Requests, FactorWrites(r) PROVE NoneTwice'
<1> DEFINE code == req[r].code
           left == req[r].left
<1>1. /\ UNCHANGED <<secret, pending, secrets, batches>>
      /\ spent' = spent \cup {code} /\ again' = again \cup (spent \cap {code})
      /\ code[1] = "phone" => lastStep' = code[3] /\ recovery' = recovery
      /\ code[1] # "phone" => lastStep' = lastStep /\ recovery' = left \ {code}
      /\ req[r].pc = "spend"
  BY DEF FactorWrites, Spends, At
<1>2. /\ code \notin spent /\ left \cap spent = {}
      /\ code[1] = "phone" => /\ Phone(code) /\ code[2] # pending
                              /\ secret # 0 => secret = code[2] /\ code[3] > lastStep
      /\ code[1] # "phone" => code \in PaperCodes
  BY <1>1 DEF NoneTwice, StillRight
<1>3. \A q \in Requests : StillRight(req[q])'
  <2>1. \E state : Goes(r, state) /\ state.pc \notin {"spend", "enable"}
    <3>1. req[r].op \in Operations
      BY <1>1 DEF Typed, RequestsTyped, Requested
    <3>2. CASE req[r].op = "login"
      BY <3>2 DEF FactorWrites
    <3>3. CASE req[r].op # "login"
      BY <3>1, <3>3 DEF FactorWrites, Operations
    <3> QED
      BY <3>2, <3>3
  <2> QED
    BY <1>1, <2>1, OthersHaveReadNothing DEF Holding
<1>4. recovery \subseteq PaperCodes /\ lastStep \in Int /\ secrets \in Nat
  BY LoginAssumption DEF Typed, SettingsTyped
<1>5. \A c \in PaperCodes : c[1] = "paper" /\ c[2] \in 1..batches
  BY DEF PaperCodes
<1>6. again' = {}
  BY <1>1, <1>2 DEF NoneTwice
<1> HIDE DEF code, left
<1>7. CASE code[1] = "phone"
  <2>1. Phone(code) /\ code[3] \in Int /\ code[2] # pending /\ (secret # 0 => secret = code[2] /\ code[3] > lastStep)
    BY <1>2, <1>7 DEF Phone
  <2>2. \A c \in spent' : \/ c[1] = "phone" /\ c[2] \in 1..secrets' /\ c[3] \in Int
                          \/ c[1] = "paper" /\ c[2] \in 1..batches'
    BY <1>1, <2>1 DEF NoneTwice, Spent, Phone
  <2>3. ASSUME secret' # 0, NEW c \in SpentOf(secret)' PROVE c[3] <= lastStep'
    <3>1. CASE c = code
      BY <1>1, <1>7, <2>1, <3>1
    <3>2. CASE c # code
      <4>1. c \in SpentOf(secret)
        BY <1>1, <2>3, <3>2 DEF SpentOf
      <4>2. c \in spent /\ c[1] = "phone" /\ c[3] <= lastStep
        BY <1>1, <2>3, <4>1 DEF NoneTwice, Spent, SpentOf
      <4>3. c[3] \in Int
        BY <4>2 DEF NoneTwice, Spent
      <4> QED
        BY <1>1, <1>4, <1>7, <2>1, <2>3, <4>2, <4>3
    <3> QED
      BY <3>1, <3>2
  <2>4. pending' # 0 => SpentOf(pending)' = {} /\ pending' # secret'
    BY <1>1, <2>1 DEF NoneTwice, Spent, SpentOf
  <2>5. recovery' \cap spent' = {}
    BY <1>1, <1>4, <1>5, <1>7 DEF NoneTwice, Spent
  <2> QED
    BY <1>3, <1>6, <2>2, <2>3, <2>4, <2>5 DEF NoneTwice, Spent
<1>8. CASE code[1] # "phone"
  <2>1. code \in PaperCodes /\ code[1] = "paper" /\ code[2] \in 1..batches
    BY <1>2, <1>5, <1>8
  <2>2. \A s : SpentOf(s)' = SpentOf(s)
    BY <1>1, <1>8 DEF SpentOf
  <2>3. recovery' \cap spent' = {}
    BY <1>1, <1>2, <1>8
  <2>4. Spent'
    BY <1>1, <1>8, <2>1, <2>2, <2>3 DEF NoneTwice, Spent
  <2> QED
    BY <1>3, <1>6, <2>4 DEF NoneTwice
<1> QED
  BY <1>7, <1>8

LEMMA DisableSpends ==
  ASSUME Typed, NoneTwice, NEW r \in Requests, DisableResets(r) PROVE NoneTwice'
<1>1. /\ secret' = 0 /\ pending' = 0 /\ recovery' = {}
      /\ UNCHANGED <<spent, again, secrets, batches>>
      /\ Goes(r, [pc |-> "idle"]) /\ req[r].pc \in Holding
  BY DEF DisableResets, ResetTOTP, historyVars, Idle, At, Holding
<1>2. \A q \in Requests : StillRight(req[q])'
  BY <1>1, OthersHaveReadNothing
<1>3. Spent'
  BY <1>1 DEF NoneTwice, Spent
<1> QED
  BY <1>1, <1>2, <1>3 DEF NoneTwice

\* A new batch has no code that was accepted.
LEMMA NewBatch ==
  ASSUME Typed, NoneTwice, NEW c \in Batch(batches + 1) PROVE c \notin spent /\ c[1] = "paper"
<1>1. c[1] = "paper" /\ c[2] = batches + 1 /\ batches \in Nat
  BY DEF Batch, Typed, SettingsTyped
<1>2. c \notin spent
  BY <1>1 DEF NoneTwice, Spent
<1> QED
  BY <1>1, <1>2

LEMMA RegenerateSpends ==
  ASSUME Typed, NoneTwice, NEW r \in Requests, RegenerateWrites(r) PROVE NoneTwice'
<1>1. /\ UNCHANGED <<secret, pending, lastStep, spent, again, secrets>>
      /\ batches' = batches + 1 /\ recovery' = Batch(batches + 1)
      /\ Goes(r, [pc |-> "idle"]) /\ req[r].pc \in Holding
  BY DEF RegenerateWrites, Batch, Idle, At, Holding
<1>2. \A q \in Requests : StillRight(req[q])'
  BY <1>1, OthersHaveReadNothing
<1>3. batches \in Nat
  BY DEF Typed, SettingsTyped
<1>4. recovery' \cap spent' = {}
  BY <1>1, NewBatch
<1>5. \A s : SpentOf(s)' = SpentOf(s)
  BY <1>1 DEF SpentOf
<1>6. Spent'
  BY <1>1, <1>3, <1>4, <1>5 DEF NoneTwice, Spent
<1> QED
  BY <1>1, <1>2, <1>6 DEF NoneTwice

\* A new secret is one no code was accepted of.
LEMMA BeginSpends ==
  ASSUME Typed, NoneTwice, NEW r \in Requests, BeginParks(r) PROVE NoneTwice'
<1>1. /\ UNCHANGED <<secret, lastStep, recovery, spent, again, batches>>
      /\ secrets' = secrets + 1 /\ pending' = secrets + 1
      /\ Goes(r, [pc |-> "idle"])
  BY DEF BeginParks, Idle
<1>2. secrets \in Nat /\ secret \in 0..secrets
  BY DEF Typed, SettingsTyped
<1>3. ASSUME NEW q \in Requests PROVE StillRight(req[q])'
  <2>1. CASE q = r
    BY <1>1, <2>1, Moved DEF Typed, StillRight
  <2>2. CASE q # r
    <3>1. req'[q] = req[q] /\ StillRight(req[q])
      BY <1>1, <2>2, Moved DEF Typed, NoneTwice
    <3>2. PICK s : s = req[q]
      OBVIOUS
    <3>3. \A code : Phone(code) => Phone(code)' /\ code[2] # pending'
      BY <1>1, <1>2 DEF Phone
    <3>4. PaperCodes' = PaperCodes /\ SpentOf(s.code[2])' = SpentOf(s.code[2])
      BY <1>1 DEF PaperCodes, SpentOf
    <3>5. StillRight(s)'
      BY <1>1, <3>1, <3>2, <3>3, <3>4 DEF StillRight
    <3> QED
      BY <3>1, <3>2, <3>5 DEF StillRight, SpentOf, Phone, PaperCodes
  <2> QED
    BY <2>1, <2>2
<1>4. \A c \in spent : \/ c[1] = "phone" /\ c[2] \in 1..secrets' /\ c[3] \in Int
                       \/ c[1] = "paper" /\ c[2] \in 1..batches'
  BY <1>1, <1>2 DEF NoneTwice, Spent
<1>5. \A s : SpentOf(s)' = SpentOf(s)
  BY <1>1 DEF SpentOf
<1>6. SpentOf(secrets + 1) = {} /\ secrets + 1 # secret
  BY <1>2 DEF NoneTwice, Spent, SpentOf
<1>7. Spent'
  BY <1>1, <1>4, <1>5, <1>6 DEF NoneTwice, Spent
<1> QED
  BY <1>1, <1>3, <1>7 DEF NoneTwice

LEMMA EnableSpends ==
  ASSUME Typed, NoneTwice, NEW r \in Requests, EnableWrites(r) PROVE NoneTwice'
<1> DEFINE code == req[r].code
<1>1. /\ secret' = code[2] /\ lastStep' = code[3] /\ pending' = 0
      /\ batches' = batches + 1 /\ recovery' = Batch(batches + 1)
      /\ spent' = spent \cup {code} /\ again' = again \cup (spent \cap {code})
      /\ UNCHANGED secrets
      /\ Goes(r, [pc |-> "idle"]) /\ req[r].pc = "enable"
  BY DEF EnableWrites, Spends, Batch, Idle, At
<1>2. \A q \in Requests : StillRight(req[q])'
  BY <1>1, OthersHaveReadNothing DEF Holding
<1>3. Phone(code) /\ SpentOf(code[2]) = {} /\ batches \in Nat
  BY <1>1 DEF NoneTwice, StillRight, Typed, RequestsTyped, Requested, SettingsTyped
<1> HIDE DEF code
<1>4. code \notin spent /\ code[1] = "phone" /\ code[3] \in Int
  BY <1>3 DEF SpentOf, Phone
<1>5. again' = {}
  BY <1>1, <1>4 DEF NoneTwice
<1>6. recovery' \cap spent' = {}
  BY <1>1, <1>4, NewBatch
<1>7. \A c \in spent' : \/ c[1] = "phone" /\ c[2] \in 1..secrets' /\ c[3] \in Int
                        \/ c[1] = "paper" /\ c[2] \in 1..batches'
  BY <1>1, <1>3, <1>4 DEF NoneTwice, Spent, Phone
<1>8. \A c \in SpentOf(secret)' : c[3] <= lastStep'
  BY <1>1, <1>3, <1>4 DEF SpentOf
<1> QED
  BY <1>1, <1>2, <1>5, <1>6, <1>7, <1>8 DEF NoneTwice, Spent

LEMMA ResetSpends ==
  ASSUME Typed, NoneTwice, ResetCommand PROVE NoneTwice'
<1>1. /\ secret' = 0 /\ pending' = 0 /\ recovery' = {}
      /\ UNCHANGED <<req, spent, again, secrets, batches>>
  BY DEF ResetCommand, ResetTOTP, historyVars
<1>2. Spent'
  BY <1>1 DEF NoneTwice, Spent
<1>3. ASSUME NEW q \in Requests PROVE StillRight(req[q])'
  <2>1. req[q].pc = "enable" => req[q].code[2] # 0
    BY DEF Typed, RequestsTyped, Requested, Phone
  <2>2. StillRight(req[q])
    BY DEF NoneTwice
  <2> QED
    BY <1>1, <2>1, <2>2 DEF StillRight, SpentOf, Phone, PaperCodes
<1> QED
  BY <1>1, <1>2, <1>3 DEF NoneTwice

LEMMA SpentNext == Typed /\ NoneTwice /\ [Next]_vars => NoneTwice'
<1> SUFFICES ASSUME Typed, NoneTwice, [Next]_vars PROVE NoneTwice'
  OBVIOUS
<1>1. ASSUME NEW r \in Requests, Proceeds(r) PROVE NoneTwice'
  BY <1>1, QuietSpends, ReadsSpends, WritesSpends, DisableSpends, RegenerateSpends, BeginSpends,
     EnableReadsSpends, EnableSpends DEF Proceeds
<1>2. CASE PanelStops
  <2>1. \A q \in Requests : StillRight(req'[q])
    BY <1>2 DEF PanelStops, Idle, StillRight
  <2> QED
    BY <1>2, <2>1, SecondStepStays DEF PanelStops, totpVars, historyVars
<1>3. CASE PanelStarts \/ (\E p \in Pairs : SetAdminUser(p)) \/ SetAdminHash \/ Tick \/ UNCHANGED vars
  <2>1. UNCHANGED <<req, spent, again, secret, pending, lastStep, recovery, secrets, batches>>
    BY <1>3 DEF PanelStarts, SetAdminUser, SetAdminHash, Tick, vars, totpVars, historyVars
  <2> QED
    BY <2>1, SecondStepStays
<1> QED
  BY <1>1, <1>2, <1>3, QuietSpends, ResetSpends DEF Next

\* "A code is good for one login": no code, of the phone or of paper, is accepted
\* twice, whatever the requests, the command line and the stops of the panel do
\* (panel/internal/service/totp.go).
THEOREM GoodForOne == Spec => []SpentOnce
<1>1. Init => Typed /\ NoneTwice
  BY TypedInit, SpentInit
<1>2. Typed /\ NoneTwice /\ [Next]_vars => Typed' /\ NoneTwice'
  BY TypedNext, SpentNext
<1>3. Typed /\ NoneTwice => SpentOnce
  BY DEF NoneTwice, SpentOnce
<1> QED
  BY <1>1, <1>2, <1>3, PTL DEF Spec

-----------------------------------------------------------------------------
(* A logout ends the cookies it found *)

LEMMA LogoutTypes ==
  ASSUME Typed
  PROVE  /\ gen \in Nat /\ sessionGen \in Nat
         /\ \A i \in DOMAIN cookies : cookies[i] \in Nat
         /\ \A q \in InLogout : /\ q \in Requests /\ req[q].before \subseteq DOMAIN cookies
                                /\ req[q].pc = "bump" => req[q].base \in Nat
                                /\ req[q].pc # "bump" => req[q].pc = "cache" /\ req[q].gen \in Nat
                                /\ Reaches(req[q]) \in Nat
         /\ Ending \subseteq DOMAIN cookies
<1>1. gen \in Nat /\ sessionGen \in Nat /\ cookies \in Seq(Nat) /\ revoked \subseteq DOMAIN cookies
  BY DEF Typed, SettingsTyped
<1>2. \A i \in DOMAIN cookies : cookies[i] \in Nat
  BY <1>1, ElementOfSeq
<1>3. ASSUME NEW q \in InLogout
      PROVE  /\ q \in Requests /\ req[q].before \subseteq DOMAIN cookies
             /\ req[q].pc = "bump" => req[q].base \in Nat
             /\ req[q].pc # "bump" => req[q].pc = "cache" /\ req[q].gen \in Nat
  BY DEF InLogout, Typed, RequestsTyped, Requested
<1>4. ASSUME NEW q \in InLogout PROVE Reaches(req[q]) \in Nat
  BY <1>3 DEF Reaches
<1>5. Ending \subseteq DOMAIN cookies
  BY <1>1, <1>3 DEF Ending
<1> QED
  BY <1>1, <1>2, <1>3, <1>4, <1>5

LEMMA PassInit == Init => LogoutsPass
<1> SUFFICES ASSUME Init PROVE LogoutsPass
  OBVIOUS
<1>1. InLogout = {} /\ revoked = {} /\ gen = 0 /\ sessionGen = 0
  BY DEF Init, InLogout, Idle
<1>2. \A i \in DOMAIN cookies : cookies[i] = 0
  BY DEF Init
<1> QED
  BY <1>1, <1>2 DEF LogoutsPass

\* Steps in which no logout begins or moves on.
LEMMA LogoutsStay ==
  ASSUME Typed, LogoutsPass, UNCHANGED <<gen, sessionGen, cookies, revoked>>,
         \A q \in Requests : req'[q] = req[q] \/ req'[q].pc \notin {"bump", "cache"}
  PROVE  LogoutsPass'
<1>1. \A q \in InLogout' : q \in InLogout /\ req'[q] = req[q]
  BY DEF InLogout
<1>2. Ending' \subseteq Ending
  BY <1>1 DEF Ending
<1>3. \A q \in InLogout' : \A i \in Ending' : cookies'[i] < Reaches(req'[q])
  BY <1>1, <1>2 DEF LogoutsPass
<1> QED
  BY <1>1, <1>2, <1>3 DEF LogoutsPass, Reaches

LEMMA OneLeavesLogouts ==
  ASSUME Typed, LogoutsPass, UNCHANGED <<gen, sessionGen, cookies, revoked>>,
         NEW r \in Requests, NEW state, Goes(r, state), state.pc \notin {"bump", "cache"}
  PROVE  LogoutsPass'
<1>1. \A q \in Requests : req'[q] = req[q] \/ req'[q].pc \notin {"bump", "cache"}
  BY Moved DEF Typed
<1> QED
  BY <1>1, LogoutsStay

\* Every logout under way, and the one that begins, goes past every cookie there is.
LEMMA ReadsPass ==
  ASSUME "slow_logout" \notin Circumstances, Typed, LogoutsPass, NEW r \in Requests, LogoutReads(r)
  PROVE  LogoutsPass'
<1> DEFINE state == [pc |-> "bump", base |-> gen, before |-> DOMAIN cookies]
<1>1. /\ UNCHANGED <<gen, sessionGen, cookies, revoked>>
      /\ Goes(r, state) /\ \A q \in Requests : ~Overtaken(q)
  BY DEF LogoutReads, Arrives, processVars, historyVars
<1>2. state.pc = "bump" /\ state.base = gen /\ state.before = DOMAIN cookies
  OBVIOUS
<1> HIDE DEF state
<1>3. /\ req'[r] = state
      /\ \A q \in Requests : q # r => req'[q] = req[q]
  BY <1>1, Moved DEF Typed
<1>4. gen \in Nat /\ \A i \in DOMAIN cookies : cookies[i] \in Nat /\ cookies[i] <= gen
  BY LogoutTypes DEF LogoutsPass
<1>5. Ending' \subseteq DOMAIN cookies
  <2>1. \A q \in Requests : req'[q].pc \in {"bump", "cache"} => req'[q].before \subseteq DOMAIN cookies
    <3>1. \A q \in Requests : Requested(req[q])
      BY DEF Typed, RequestsTyped
    <3> QED
      BY <1>2, <1>3, <3>1 DEF Requested
  <2>2. revoked \subseteq DOMAIN cookies
    BY DEF Typed, SettingsTyped
  <2> QED
    BY <1>1, <2>1, <2>2 DEF Ending, InLogout
<1>6. ASSUME NEW q \in InLogout'
      PROVE  /\ req'[q].pc = "bump" => req'[q].base = gen
             /\ req'[q].pc = "cache" => req'[q].gen <= gen
             /\ \A i \in DOMAIN cookies : cookies[i] < Reaches(req'[q])
  <2>1. CASE q = r
    BY <1>2, <1>3, <1>4, <2>1 DEF Reaches
  <2>2. CASE q # r
    <3>1. q \in InLogout /\ req'[q] = req[q] /\ ~Overtaken(q)
      BY <1>1, <1>3, <2>2 DEF InLogout
    <3>2. req[q].pc = "bump" => req[q].base = gen
      BY <3>1 DEF Overtaken, At
    <3>3. req[q].pc # "bump" => req[q].pc = "cache" /\ req[q].gen \in Nat
      BY <3>1, LogoutTypes
    <3>4. req[q].pc = "cache" => \A i \in DOMAIN cookies : ~(cookies[i] >= req[q].gen)
      BY <3>1 DEF Overtaken, At
    <3>5. \A i \in DOMAIN cookies : cookies[i] < Reaches(req[q])
      BY <1>4, <3>2, <3>3, <3>4 DEF Reaches
    <3>6. req[q].pc = "cache" => req[q].gen <= gen
      BY <3>1 DEF LogoutsPass
    <3> QED
      BY <3>1, <3>2, <3>5, <3>6
  <2> QED
    BY <2>1, <2>2
<1> QED
  BY <1>1, <1>4, <1>5, <1>6 DEF LogoutsPass

LEMMA WritesPass ==
  ASSUME Typed, LogoutsPass, NEW r \in Requests, LogoutWrites(r) PROVE LogoutsPass'
<1> DEFINE state == [pc |-> "cache", gen |-> req[r].base + 1, before |-> req[r].before]
<1>1. /\ UNCHANGED <<sessionGen, cookies, revoked>>
      /\ gen' = req[r].base + 1 /\ Goes(r, state) /\ req[r].pc = "bump"
  BY DEF LogoutWrites, processVars, historyVars, At
<1>2. state.pc = "cache" /\ state.gen = req[r].base + 1 /\ state.before = req[r].before
  OBVIOUS
<1> HIDE DEF state
<1>3. /\ req'[r] = state
      /\ \A q \in Requests : q # r => req'[q] = req[q]
  BY <1>1, Moved DEF Typed
<1>4. r \in InLogout /\ req[r].base \in Nat /\ gen \in Nat /\ gen \in {req[r].base, req[r].base + 1}
  BY <1>1, LogoutTypes DEF InLogout, LogoutsPass
<1>5. gen <= gen' /\ gen' \in Nat
  BY <1>1, <1>4
<1>6. InLogout' = InLogout /\ \A q \in InLogout : req'[q].before = req[q].before
  BY <1>1, <1>2, <1>3 DEF InLogout
<1>7. Ending' = Ending
  BY <1>1, <1>6 DEF Ending
<1>8. ASSUME NEW q \in InLogout PROVE Reaches(req'[q]) = Reaches(req[q])
  BY <1>1, <1>2, <1>3 DEF Reaches, InLogout
<1>9. \A q \in InLogout' : \A i \in Ending' : cookies'[i] < Reaches(req'[q])
  BY <1>1, <1>6, <1>7, <1>8 DEF LogoutsPass
<1>10. sessionGen' <= gen' /\ \A i \in DOMAIN cookies' : cookies'[i] <= gen'
  BY <1>1, <1>5, LogoutTypes DEF LogoutsPass
<1>11. ASSUME NEW q \in InLogout' PROVE req'[q].pc = "cache" => req'[q].gen <= gen'
  <2>1. CASE q = r
    BY <1>1, <1>2, <1>3, <1>5, <2>1
  <2>2. CASE q # r
    <3>1. q \in InLogout /\ req'[q] = req[q]
      BY <1>3, <1>6, <2>2 DEF InLogout
    <3>2. req[q].pc = "cache" => req[q].gen \in Nat /\ req[q].gen <= gen
      BY <3>1, LogoutTypes DEF LogoutsPass
    <3> QED
      BY <1>4, <1>5, <3>1, <3>2
  <2> QED
    BY <2>1, <2>2
<1>12. \A q \in InLogout' : req'[q].pc = "bump" => q \in InLogout /\ req'[q] = req[q] /\ req[q].base = req[r].base
  BY <1>1, <1>2, <1>3, <1>4, <1>6 DEF LogoutsPass, InLogout
<1> QED
  BY <1>1, <1>9, <1>10, <1>11, <1>12 DEF LogoutsPass

LEMMA CachesPass ==
  ASSUME Typed, LogoutsPass, NEW r \in Requests, LogoutCaches(r) PROVE LogoutsPass'
<1>1. /\ UNCHANGED <<gen, cookies>>
      /\ sessionGen' = req[r].gen /\ revoked' = revoked \cup req[r].before
      /\ Goes(r, [pc |-> "idle"]) /\ req[r].pc = "cache"
  BY DEF LogoutCaches, Idle, At
<1>2. /\ req'[r].pc = "idle"
      /\ \A q \in Requests : q # r => req'[q] = req[q]
  BY <1>1, Moved DEF Typed
<1>3. r \in InLogout /\ Reaches(req[r]) = req[r].gen
  BY <1>1 DEF InLogout, Reaches
<1>4. \A q \in InLogout' : q \in InLogout /\ req'[q] = req[q]
  BY <1>2 DEF InLogout
<1>5. Ending' \subseteq Ending /\ revoked' \subseteq Ending
  BY <1>1, <1>3, <1>4 DEF Ending
<1>6. \A i \in revoked' : cookies'[i] < sessionGen'
  BY <1>1, <1>3, <1>5 DEF LogoutsPass
<1>7. sessionGen' <= gen'
  BY <1>1, <1>3 DEF LogoutsPass
<1>8. \A q \in InLogout' : \A i \in Ending' : cookies'[i] < Reaches(req'[q])
  BY <1>1, <1>4, <1>5 DEF LogoutsPass
<1> QED
  BY <1>1, <1>4, <1>6, <1>7, <1>8 DEF LogoutsPass

\* A cookie that is handed out is of the generation the server remembers, and no
\* logout under way is to end it.
LEMMA IssuePasses ==
  ASSUME Typed, LogoutsPass, NEW r \in Requests, Issue(r) PROVE LogoutsPass'
<1>1. /\ UNCHANGED <<gen, sessionGen, revoked>>
      /\ cookies' = Append(cookies, sessionGen)
      /\ Goes(r, [pc |-> "idle"])
  BY DEF Issue, processVars, historyVars, Idle
<1>2. cookies \in Seq(Nat) /\ sessionGen \in Nat /\ gen \in Nat /\ sessionGen <= gen
  BY DEF Typed, SettingsTyped, LogoutsPass
<1>3. /\ DOMAIN cookies' = DOMAIN cookies \cup {Len(cookies) + 1}
      /\ \A i \in DOMAIN cookies : cookies'[i] = cookies[i]
      /\ cookies'[Len(cookies) + 1] = sessionGen
  BY <1>1, <1>2, AppendProperties
<1>4. \A q \in InLogout' : q \in InLogout /\ req'[q] = req[q]
  BY <1>1, Moved DEF Typed, InLogout
<1>5. Ending' \subseteq Ending /\ Ending \subseteq DOMAIN cookies /\ revoked \subseteq DOMAIN cookies
  BY <1>1, <1>4, LogoutTypes DEF Ending
<1>6. \A q \in InLogout' : \A i \in Ending' : cookies'[i] < Reaches(req'[q])
  BY <1>3, <1>4, <1>5 DEF LogoutsPass
<1>7. \A i \in DOMAIN cookies' : cookies'[i] <= gen'
  BY <1>1, <1>2, <1>3 DEF LogoutsPass
<1>8. \A i \in revoked' : cookies'[i] < sessionGen'
  BY <1>1, <1>3, <1>5 DEF LogoutsPass
<1> QED
  BY <1>1, <1>2, <1>4, <1>6, <1>7, <1>8 DEF LogoutsPass

\* A panel that starts remembers what is stored, which is no less.
LEMMA StartPasses ==
  ASSUME Typed, LogoutsPass, PanelStarts PROVE LogoutsPass'
<1>1. UNCHANGED <<gen, req, cookies, revoked>> /\ sessionGen' = gen
  BY DEF PanelStarts, historyVars
<1>2. gen \in Nat /\ sessionGen \in Nat /\ sessionGen <= gen /\ \A i \in revoked : cookies[i] \in Nat
  BY LogoutTypes DEF LogoutsPass, Typed, SettingsTyped
<1>3. \A i \in revoked' : cookies'[i] < sessionGen'
  BY <1>1, <1>2 DEF LogoutsPass
<1> QED
  BY <1>1, <1>2, <1>3 DEF LogoutsPass, InLogout, Ending, Reaches

LEMMA QuietPasses ==
  ASSUME Typed, LogoutsPass, NEW r \in Requests,
         \/ Asks(r) /\ ~LogoutReads(r)
         \/ SetupClaims(r) \/ FactorReads(r) \/ FactorWrites(r) \/ DisableResets(r)
         \/ RegenerateWrites(r) \/ FactorFails(r) \/ BeginParks(r) \/ EnableReads(r) \/ EnableWrites(r)
         \/ LogoutFails(r)
  PROVE  LogoutsPass'
<1>1. UNCHANGED <<gen, sessionGen, cookies, revoked>>
  BY DEF Asks, SetupChecks, LoginChecks, SettingsAsk, BeginAsks, EnableAsks, LogoutReads, SetupClaims,
         FactorReads, FactorWrites, DisableResets, RegenerateWrites, FactorFails, BeginParks, EnableReads,
         EnableWrites, LogoutFails, processVars, historyVars
<1> DEFINE Elsewhere == \E state : Goes(r, state) /\ state.pc \notin {"bump", "cache"}
<1>2. ASSUME NEW p \in Pairs, SetupChecks(r, p) PROVE Elsewhere
  BY <1>2 DEF SetupChecks, Arrives, Idle
<1>3. ASSUME NEW code, LoginChecks(r, code) PROVE Elsewhere
  BY <1>3 DEF LoginChecks, Arrives
<1>4. ASSUME NEW op, NEW code, SettingsAsk(r, op, code) PROVE Elsewhere
  BY <1>4 DEF SettingsAsk, Arrives
<1>5. ASSUME NEW code, EnableAsks(r, code) PROVE Elsewhere
  BY <1>5 DEF EnableAsks, Arrives
<1>6. ASSUME BeginAsks(r) \/ BeginParks(r) \/ DisableResets(r) \/ RegenerateWrites(r) \/ FactorFails(r)
             \/ EnableWrites(r) \/ LogoutFails(r)
      PROVE  Elsewhere
  BY <1>6 DEF BeginAsks, Arrives, BeginParks, DisableResets, RegenerateWrites, FactorFails, EnableWrites,
              LogoutFails, Idle
<1>7. ASSUME SetupClaims(r) PROVE Elsewhere
  BY <1>7 DEF SetupClaims, Idle
<1>8. ASSUME FactorReads(r) PROVE Elsewhere
  <2>1. Spending(r).pc = "spend"
    BY DEF Spending
  <2> QED
    BY <1>8, <2>1 DEF FactorReads, Idle
<1>9. ASSUME FactorWrites(r) PROVE Elsewhere
  <2>1. req[r].op \in Operations
    BY <1>9 DEF FactorWrites, At, Typed, RequestsTyped, Requested
  <2>2. Goes(r, [pc |-> "issue"]) \/ Goes(r, [pc |-> req[r].op])
    BY <1>9 DEF FactorWrites
  <2> QED
    BY <2>1, <2>2 DEF Operations
<1>10. ASSUME EnableReads(r) PROVE Elsewhere
  BY <1>10 DEF EnableReads, Idle
<1>11. Elsewhere
  BY <1>2, <1>3, <1>4, <1>5, <1>6, <1>7, <1>8, <1>9, <1>10 DEF Asks
<1> QED
  BY <1>1, <1>11, OneLeavesLogouts

LEMMA PassNext ==
  ASSUME "slow_logout" \notin Circumstances, Typed, LogoutsPass, [Next]_vars PROVE LogoutsPass'
<1>1. ASSUME NEW r \in Requests, Asks(r) PROVE LogoutsPass'
  BY <1>1, QuietPasses, ReadsPass
<1>2. ASSUME NEW r \in Requests, Proceeds(r) PROVE LogoutsPass'
  BY <1>2, QuietPasses, IssuePasses, WritesPass, CachesPass DEF Proceeds
<1>3. CASE PanelStops
  <2>1. \A q \in Requests : req'[q].pc \notin {"bump", "cache"}
    BY <1>3 DEF PanelStops, Idle
  <2> QED
    BY <1>3, <2>1, LogoutsStay DEF PanelStops, historyVars
<1>4. CASE (\E p \in Pairs : SetAdminUser(p)) \/ SetAdminHash \/ ResetCommand \/ Tick \/ UNCHANGED vars
  <2>1. UNCHANGED <<req, gen, sessionGen, cookies, revoked>>
    BY <1>4 DEF SetAdminUser, SetAdminHash, ResetCommand, Tick, vars, processVars, historyVars
  <2> QED
    BY <2>1, LogoutsStay
<1> QED
  BY <1>1, <1>2, <1>3, <1>4, StartPasses DEF Next

\* The types of the model.  The generation remembered is never ahead of the one
\* stored, as long as no logout begins while an overtaken one is to finish.
THEOREM TypeCorrect ==
  ASSUME "slow_logout" \notin Circumstances PROVE Spec => []TypeOK
<1>1. Init => Typed /\ LogoutsPass
  BY TypedInit, PassInit
<1>2. Typed /\ LogoutsPass /\ [Next]_vars => Typed' /\ LogoutsPass'
  BY TypedNext, PassNext
<1>3. Typed /\ LogoutsPass => TypeOK
  BY DEF Typed, SettingsTyped, Locked, Holding, LogoutsPass, TypeOK
<1> QED
  BY <1>1, <1>2, <1>3, PTL DEF Spec

\* A logout "invalidates every cookie issued before it": once it is over none of
\* them is accepted again, by this panel or by one that is started later
\* (panel/internal/web/server.go and handlers_auth.go).
THEOREM LogoutEnds ==
  ASSUME "slow_logout" \notin Circumstances PROVE Spec => []LogoutRevokes
<1>1. Init => Typed /\ LogoutsPass
  BY TypedInit, PassInit
<1>2. Typed /\ LogoutsPass /\ [Next]_vars => Typed' /\ LogoutsPass'
  BY TypedNext, PassNext
<1>3. Typed /\ LogoutsPass => LogoutRevokes
  <2>1. ASSUME Typed, LogoutsPass, NEW i \in revoked PROVE ~Accepts(i)
    <3>1. cookies[i] < sessionGen /\ cookies[i] \in Nat /\ sessionGen \in Nat
      BY <2>1, LogoutTypes DEF LogoutsPass, Typed, SettingsTyped
    <3> QED
      BY <3>1 DEF Accepts
  <2> QED
    BY <2>1 DEF LogoutRevokes
<1> QED
  BY <1>1, <1>2, <1>3, PTL DEF Spec

-----------------------------------------------------------------------------
(* One account, claimed once *)

LEMMA ClaimedInit == Init => Claimed
  BY DEF Init, Claimed, Idle

\* Requests come and go, while the account is as it was.
LEMMA AccountStays ==
  ASSUME Typed, Claimed, UNCHANGED <<user, hash, up, command, claims, commands>>,
         \A q \in Requests : req'[q] = req[q] \/ up
  PROVE  Claimed'
  BY DEF Claimed

LEMMA RequestsLeaveAccount ==
  ASSUME Typed, Claimed, NEW r \in Requests, (Asks(r) \/ Proceeds(r)) /\ ~SetupClaims(r) PROVE Claimed'
<1>1. UNCHANGED <<user, hash, up, command, claims, commands>>
  BY DEF Asks, SetupChecks, LoginChecks, SettingsAsk, BeginAsks, EnableAsks, LogoutReads, Arrives, Proceeds,
         Issue, FactorReads, FactorWrites, DisableResets, RegenerateWrites, FactorFails, BeginParks, EnableReads,
         EnableWrites, LogoutWrites, LogoutCaches, LogoutFails, Fault, adminVars, processVars, historyVars,
         countVars
<1>2. up
  <2>1. CASE Asks(r)
    BY <2>1 DEF Asks, SetupChecks, LoginChecks, SettingsAsk, BeginAsks, EnableAsks, LogoutReads, Arrives
  <2>2. CASE Proceeds(r) /\ ~SetupClaims(r)
    <3>1. req[r].pc # "idle"
      BY <2>2 DEF Proceeds, Issue, FactorReads, FactorWrites, DisableResets, RegenerateWrites, FactorFails,
                  BeginParks, EnableReads, EnableWrites, LogoutWrites, LogoutCaches, LogoutFails, At
    <3> QED
      BY <3>1 DEF Claimed
  <2> QED
    BY <2>1, <2>2
<1> QED
  BY <1>1, <1>2, AccountStays

\* Without a password there is no name, no claim, and no command under way.
LEMMA ClaimTaken ==
  ASSUME Typed, Claimed, NEW r \in Requests, SetupClaims(r) PROVE Claimed'
<1>1. UNCHANGED <<up, command, commands>> /\ At(r, "claim")
  BY DEF SetupClaims, processVars, countVars
<1>2. up
  BY <1>1 DEF Claimed, At
<1>3. CASE hash = Nobody
  <2>1. /\ user' = req[r].pair /\ hash' = req[r].pair /\ claims' = Append(claims, req[r].pair)
        /\ req[r].pair \in Pairs
    BY <1>1, <1>3 DEF SetupClaims, Typed, RequestsTyped, Requested, At
  <2>2. hash' # Nobody
    BY <2>1, LoginAssumption
  <2>3. command = Nobody /\ claims = <<>>
    BY <1>2, <1>3 DEF Claimed
  <2>4. Len(claims') = 1 /\ claims'[1] = req[r].pair
    BY <2>1, <2>3
  <2> QED
    BY <1>1, <1>2, <2>1, <2>2, <2>3, <2>4 DEF Claimed
<1>4. CASE hash # Nobody
  <2>1. UNCHANGED <<user, hash, claims>>
    BY <1>4 DEF SetupClaims
  <2> QED
    BY <1>1, <1>2, <2>1, AccountStays
<1> QED
  BY <1>3, <1>4

LEMMA ClaimedNext ==
  ASSUME "command_and_form" \notin Circumstances, Typed, Claimed, [Next]_vars PROVE Claimed'
<1>0. commands \in Nat
  BY LoginAssumption DEF Typed, SettingsTyped
<1>1. ASSUME NEW r \in Requests, Asks(r) \/ Proceeds(r) PROVE Claimed'
  BY <1>1, RequestsLeaveAccount, ClaimTaken
<1>2. CASE PanelStops
  <2>1. /\ UNCHANGED <<user, hash, command, claims, commands>>
        /\ ~up'
    BY <1>2 DEF PanelStops, Fault, adminVars, historyVars
  <2>2. \A q \in Requests : req'[q].pc = "idle"
    BY <1>2 DEF PanelStops, Idle
  <2>3. \A q \in Requests : req'[q].pc # "idle" => up'
    BY <2>2
  <2> QED
    BY <2>1, <2>3 DEF Claimed
<1>3. CASE PanelStarts
  <2>1. /\ UNCHANGED <<user, hash, command, claims, commands>>
        /\ up' = TRUE /\ (command = Nobody \/ hash # Nobody)
    BY <1>3 DEF PanelStarts, adminVars, historyVars, countVars
  <2> QED
    BY <2>1 DEF Claimed
<1>4. ASSUME NEW p \in Pairs, SetAdminUser(p) PROVE Claimed'
  <2>1. /\ UNCHANGED <<hash, up, req, claims>>
        /\ user' = p /\ command' = p /\ commands' = commands + 1
        /\ ~up \/ hash # Nobody
    BY <1>4 DEF SetAdminUser, Command, processVars, historyVars
  <2>2. command' # Nobody /\ commands' > 0
    BY <1>0, <2>1, LoginAssumption
  <2> QED
    BY <2>1, <2>2 DEF Claimed
<1>5. CASE SetAdminHash
  <2>1. /\ UNCHANGED <<user, up, req, claims, commands>>
        /\ command # Nobody /\ hash' = command /\ command' = Nobody
    BY <1>5 DEF SetAdminHash, processVars, historyVars, countVars
  <2>2. user = command /\ commands > 0
    BY <2>1 DEF Claimed
  <2>3. claims # <<>> => Len(claims) = 1
    BY DEF Claimed
  <2> QED
    BY <1>0, <2>1, <2>2, <2>3 DEF Claimed
<1>6. CASE ResetCommand
  <2>1. /\ UNCHANGED <<user, hash, up, req, command, claims>>
        /\ commands' = commands + 1
    BY <1>6 DEF ResetCommand, Command, adminVars, processVars, historyVars
  <2> QED
    BY <1>0, <2>1 DEF Claimed
<1>7. CASE Tick \/ UNCHANGED vars
  <2>1. UNCHANGED <<user, hash, up, command, claims, commands, req>>
    BY <1>7 DEF Tick, vars, adminVars, processVars, historyVars, countVars
  <2> QED
    BY <2>1, AccountStays
<1> QED
  BY <1>1, <1>2, <1>3, <1>4, <1>5, <1>6, <1>7 DEF Next

\* The account is claimed on /setup once, whoever was told so has it until the
\* command line changes it, and the name and the password stored were chosen
\* together (panel/internal/service/auth.go, CreateAdmin and SetAdmin).
THEOREM ClaimedOnce ==
  ASSUME "command_and_form" \notin Circumstances PROVE Spec => []OneClaim
<1>1. Init => Typed /\ Claimed
  BY TypedInit, ClaimedInit
<1>2. Typed /\ Claimed /\ [Next]_vars => Typed' /\ Claimed'
  BY TypedNext, ClaimedNext
<1>3. ASSUME Claimed PROVE OneClaim
  <2>1. Len(claims) <= 1
    <3>1. CASE claims = <<>>
      BY <3>1
    <3>2. CASE claims # <<>>
      <4>1. Len(claims) = 1
        BY <1>3, <3>2 DEF Claimed
      <4> QED
        BY <4>1
    <3> QED
      BY <3>1, <3>2
  <2>2. claims # <<>> /\ commands = 0 => <<user, hash>> = <<claims[1], claims[1]>>
    BY <1>3 DEF Claimed
  <2>3. command = Nobody => user = hash
    BY <1>3 DEF Claimed
  <2> QED
    BY <2>1, <2>2, <2>3 DEF OneClaim
<1> QED
  BY <1>1, <1>2, <1>3, PTL DEF Spec
=============================================================================
