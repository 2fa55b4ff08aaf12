------------------------------- MODULE Login -------------------------------
(***************************************************************************)
(* The administrator's way in: panel/internal/service (auth.go, totp.go)   *)
(* and panel/internal/web (handlers_auth.go, handlers_totp.go, session.go, *)
(* server.go).                                                             *)
(*                                                                         *)
(* The first account is claimed on /setup, or set from the command line.   *)
(* A login is a password and, once it is on, a second step: a code of the  *)
(* phone, good for the thirty seconds it names and for the ones on either  *)
(* side, or a recovery code.  What a login gets is a signed cookie that    *)
(* carries a generation; the server keeps the generation in memory and in  *)
(* the database, and a logout moves it on.                                 *)
(*                                                                         *)
(* Requests run concurrently.  totpMu is held by whoever checks a code;    *)
(* nothing else is held, and the command line is another process.  One     *)
(* step reads, one step writes; CheckAdmin's two reads are one step.       *)
(*                                                                         *)
(* Time is in periods of thirty seconds.  A secret, and a batch of         *)
(* recovery codes, is known by its number.                                 *)
(* The rate limiter, expiry after twelve hours and CSRF tokens, which only *)
(* refuse more, are left out.                                              *)
(***************************************************************************)
EXTENDS Integers, Sequences, FiniteSets, TLC

CONSTANTS
  Requests,       \* requests that may be under way at once
  Pairs,          \* user names and passwords that are chosen
  Codes,          \* recovery codes in a batch
  Window,         \* setupWindow
  MaxTime,
  MaxCalls,       \* requests
  MaxFaults,      \* stops of the panel, writes that fail
  MaxCommands,    \* -set-admin, -reset-2fa
  Circumstances   \* see LogoutReads and SetAdminUser

Nobody == "nobody"

ASSUME LoginAssumption ==
  /\ "free" \notin Requests /\ Nobody \notin Pairs
  /\ Window \in Nat /\ MaxTime \in Nat \ {0, 1} /\ MaxCalls \in Nat /\ MaxFaults \in Nat /\ MaxCommands \in Nat
  /\ Circumstances \subseteq {"slow_logout", "command_and_form"}

VARIABLES
  now,
  \* the settings
  user, hash, deadline, gen,          \* Nobody, or 0, for a setting that is not there
  secret, pending, lastStep, recovery,
  \* the process: running, the generation it remembers, who holds totpMu, requests
  up, sessionGen, totpMu, req,
  command,       \* the pair a -set-admin has still to write the password of
  \* browsers: the generations of the cookies handed out, in order
  cookies,
  \* history: what has been made so far, codes accepted, and accepted again,
  \* pairs claimed on /setup, cookies a finished logout should have ended
  secrets, batches, spent, again, claims, revoked,
  calls, faults, commands

adminVars   == <<user, hash, deadline>>
totpVars    == <<secret, pending, lastStep, recovery>>
processVars == <<up, sessionGen, totpMu>>
historyVars == <<secrets, batches, spent, again, claims, revoked>>
countVars   == <<calls, faults, commands>>
vars == <<now, adminVars, gen, totpVars, processVars, req, command, cookies, historyVars, countVars>>

Idle == [pc |-> "idle"]

At(r, pc) == req[r].pc = pc
Goes(r, state) == req' = [req EXCEPT ![r] = state]

\* A request arrives.
Arrives(r, state) ==
  /\ up /\ At(r, "idle")
  /\ calls < MaxCalls /\ calls' = calls + 1
  /\ Goes(r, state)
  /\ UNCHANGED <<faults, commands>>

Fault == faults < MaxFaults /\ faults' = faults + 1 /\ UNCHANGED <<calls, commands>>

\* sessions.user: a cookie of the generation the server remembers.
Accepts(i) == up /\ cookies[i] = sessionGen
SignedIn == \E i \in DOMAIN cookies : Accepts(i)

-----------------------------------------------------------------------------
(* Setup *)

\* setupOpen: the deadline is written on the first visit and never moved.
Deadline == IF deadline = 0 THEN now + Window ELSE deadline

SetupChecks(r, p) ==
  /\ Arrives(r, IF now <= Deadline THEN [pc |-> "claim", pair |-> p] ELSE Idle)
  /\ hash = Nobody
  /\ deadline' = Deadline
  /\ UNCHANGED <<now, user, hash, gen, totpVars, processVars, command, cookies, historyVars>>

\* Mutant of SetupClaims: the check made before is relied upon.
SetupClaimsUnchecked(r) ==
  /\ At(r, "claim")
  /\ user' = req[r].pair /\ hash' = req[r].pair
  /\ claims' = Append(claims, req[r].pair)
  /\ Goes(r, [pc |-> "issue"])
  /\ UNCHANGED <<now, deadline, gen, totpVars, processVars, command, cookies, secrets, batches, spent,
                 again, revoked, countVars>>

\* CreateAdmin checks again inside the write.
SetupClaims(r) ==
  /\ At(r, "claim")
  /\ IF hash = Nobody
     THEN /\ user' = req[r].pair /\ hash' = req[r].pair
          /\ claims' = Append(claims, req[r].pair)
          /\ Goes(r, [pc |-> "issue"])
     ELSE Goes(r, Idle) /\ UNCHANGED <<user, hash, claims>>
  /\ UNCHANGED <<now, deadline, gen, totpVars, processVars, command, cookies, secrets, batches, spent,
                 again, revoked, countVars>>

\* sessions.issue, at the end of a setup or a login.
Issue(r) ==
  /\ At(r, "issue")
  /\ cookies' = Append(cookies, sessionGen)
  /\ Goes(r, Idle)
  /\ UNCHANGED <<now, adminVars, gen, totpVars, processVars, command, historyVars, countVars>>

-----------------------------------------------------------------------------
(* The second step *)

PhoneCodes == {<<"phone", s, t>> : s \in 1..secrets, t \in now - 1 .. now + 1}
PaperCodes == {<<"paper", b, c>> : b \in 1..batches, c \in Codes}
Batch(b) == {<<"paper", b, c>> : c \in Codes}

\* totpMatch: a code of this secret, for a step in the window and after notAfter.
totpMatch(s, code, at, notAfter) ==
  code[1] = "phone" /\ code[2] = s /\ code[3] \in at - 1 .. at + 1 /\ code[3] > notAfter

\* What is wrong with a code is not told apart.
RightCode(code, at) == totpMatch(secret, code, at, lastStep) \/ code \in recovery

Spends(code) == spent' = spent \cup {code} /\ again' = again \cup (spent \cap {code})

\* CheckAdmin, without totpMu, of a right pair; a wrong one changes nothing.
LoginChecks(r, code) ==
  /\ Arrives(r, [pc |-> "factor", op |-> "login", code |-> code, at |-> now])
  /\ hash # Nobody
  /\ UNCHANGED <<now, adminVars, gen, totpVars, processVars, command, cookies, historyVars>>

\* DisableTOTP and RegenerateRecoveryCodes, from the settings page.
SettingsAsk(r, op, code) ==
  /\ Arrives(r, [pc |-> "factor", op |-> op, code |-> code, at |-> now])
  /\ SignedIn
  /\ UNCHANGED <<now, adminVars, gen, totpVars, processVars, command, cookies, historyVars>>

\* The request once its code is right, with the recovery codes it has read.
Spending(r) ==
  [pc |-> "spend", op |-> req[r].op, code |-> req[r].code, left |-> recovery]

\* Mutant of FactorReads: totpMu is not taken.
FactorReadsUnlocked(r) ==
  /\ At(r, "factor")
  /\ IF secret # 0 /\ RightCode(req[r].code, req[r].at)
     THEN Goes(r, Spending(r))
     ELSE Goes(r, IF secret = 0 /\ req[r].op = "login" THEN [pc |-> "issue"] ELSE Idle)
  /\ UNCHANGED <<now, adminVars, gen, totpVars, processVars, command, cookies, historyVars, countVars>>

\* checkSecondFactorLocked reads and decides.  A login without a second step is through.
FactorReads(r) ==
  /\ At(r, "factor")
  /\ totpMu = "free"
  /\ IF secret # 0 /\ RightCode(req[r].code, req[r].at)
     THEN totpMu' = r /\ Goes(r, Spending(r))
     ELSE totpMu' = totpMu /\ Goes(r, IF secret = 0 /\ req[r].op = "login" THEN [pc |-> "issue"] ELSE Idle)
  /\ UNCHANGED <<now, adminVars, gen, totpVars, up, sessionGen, command, cookies, historyVars, countVars>>

\* ... and writes down that the code is spent.
FactorWrites(r) ==
  /\ At(r, "spend")
  /\ LET code == req[r].code
     IN  /\ IF code[1] = "phone"
            THEN lastStep' = code[3] /\ UNCHANGED recovery
            ELSE recovery' = req[r].left \ {code} /\ UNCHANGED lastStep
         /\ Spends(code)
  /\ IF req[r].op = "login"
     THEN totpMu' = "free" /\ Goes(r, [pc |-> "issue"])
     ELSE totpMu' = totpMu /\ Goes(r, [pc |-> req[r].op])
  /\ UNCHANGED <<now, adminVars, gen, secret, pending, up, sessionGen, command, cookies, secrets, batches,
                 claims, revoked, countVars>>

ResetTOTP == secret' = 0 /\ pending' = 0 /\ lastStep' = 0 /\ recovery' = {}

DisableResets(r) ==
  /\ At(r, "disable")
  /\ ResetTOTP
  /\ totpMu' = "free" /\ Goes(r, Idle)
  /\ UNCHANGED <<now, adminVars, gen, up, sessionGen, command, cookies, historyVars, countVars>>

RegenerateWrites(r) ==
  /\ At(r, "regenerate")
  /\ batches' = batches + 1
  /\ recovery' = Batch(batches')
  /\ totpMu' = "free" /\ Goes(r, Idle)
  /\ UNCHANGED <<now, adminVars, gen, secret, pending, lastStep, up, sessionGen, command, cookies, secrets,
                 spent, again, claims, revoked, countVars>>

\* A write of one of these fails: the code is spent or not, and the request with it.
FactorFails(r) ==
  /\ Fault
  /\ req[r].pc \in {"spend", "disable", "regenerate", "enable"}
  /\ totpMu' = "free" /\ Goes(r, Idle)
  /\ UNCHANGED <<now, adminVars, gen, totpVars, up, sessionGen, command, cookies, historyVars>>

\* BeginTOTP asks whether it is on, and then parks a secret; totpMu is not taken.
BeginAsks(r) ==
  /\ Arrives(r, [pc |-> "begin"])
  /\ SignedIn /\ secret = 0
  /\ UNCHANGED <<now, adminVars, gen, totpVars, processVars, command, cookies, historyVars>>

BeginParks(r) ==
  /\ At(r, "begin")
  /\ secrets' = secrets + 1
  /\ pending' = secrets'
  /\ Goes(r, Idle)
  /\ UNCHANGED <<now, adminVars, gen, secret, lastStep, recovery, processVars, command, cookies, batches,
                 spent, again, claims, revoked, countVars>>

EnableAsks(r, code) ==
  /\ Arrives(r, [pc |-> "confirm", code |-> code, at |-> now])
  /\ SignedIn
  /\ UNCHANGED <<now, adminVars, gen, totpVars, processVars, command, cookies, historyVars>>

EnableReads(r) ==
  /\ At(r, "confirm")
  /\ totpMu = "free"
  /\ IF pending # 0 /\ totpMatch(pending, req[r].code, req[r].at, 0)
     THEN totpMu' = r /\ Goes(r, [pc |-> "enable", code |-> req[r].code])
     ELSE totpMu' = totpMu /\ Goes(r, Idle)
  /\ UNCHANGED <<now, adminVars, gen, totpVars, up, sessionGen, command, cookies, historyVars, countVars>>

EnableWrites(r) ==
  /\ At(r, "enable")
  /\ LET code == req[r].code
     IN  secret' = code[2] /\ lastStep' = code[3] /\ Spends(code)
  /\ pending' = 0
  /\ batches' = batches + 1 /\ recovery' = Batch(batches')
  /\ totpMu' = "free" /\ Goes(r, Idle)
  /\ UNCHANGED <<now, adminVars, gen, up, sessionGen, command, cookies, secrets, claims, revoked, countVars>>

-----------------------------------------------------------------------------
(* Logout *)

\* A logout under way when another has already written the generation it would
\* write, or cookies of the generation it would remember have been handed out.
Overtaken(q) ==
  \/ At(q, "bump") /\ req[q].base # gen
  \/ At(q, "cache") /\ \E i \in DOMAIN cookies : cookies[i] >= req[q].gen

\* postLogout, which asks for no session, reads the generation.  That one more
\* begins while an overtaken one is still to finish is the circumstance
\* "slow_logout".
LogoutReads(r) ==
  /\ Arrives(r, [pc |-> "bump", base |-> gen, before |-> DOMAIN cookies])
  /\ "slow_logout" \in Circumstances \/ \A q \in Requests : ~Overtaken(q)
  /\ UNCHANGED <<now, adminVars, gen, totpVars, processVars, command, cookies, historyVars>>

LogoutWrites(r) ==
  /\ At(r, "bump")
  /\ gen' = req[r].base + 1
  /\ Goes(r, [pc |-> "cache", gen |-> req[r].base + 1, before |-> req[r].before])
  /\ UNCHANGED <<now, adminVars, totpVars, processVars, command, cookies, historyVars, countVars>>

\* Mutant of LogoutCaches: the server goes on with the generation it had.
LogoutCachesNothing(r) ==
  /\ At(r, "cache")
  /\ revoked' = revoked \cup req[r].before
  /\ Goes(r, Idle)
  /\ UNCHANGED <<now, adminVars, gen, totpVars, processVars, command, cookies, secrets, batches, spent,
                 again, claims, countVars>>

LogoutCaches(r) ==
  /\ At(r, "cache")
  /\ sessionGen' = req[r].gen
  /\ revoked' = revoked \cup req[r].before
  /\ Goes(r, Idle)
  /\ UNCHANGED <<now, adminVars, gen, totpVars, up, totpMu, command, cookies, secrets, batches, spent,
                 again, claims, countVars>>

\* The write fails: a warning is logged, and the browser is logged out all the same.
LogoutFails(r) ==
  /\ Fault
  /\ At(r, "bump")
  /\ Goes(r, Idle)
  /\ UNCHANGED <<now, adminVars, gen, totpVars, processVars, command, cookies, historyVars>>

-----------------------------------------------------------------------------
(* The process and the command line *)

PanelStops ==
  /\ Fault
  /\ up
  /\ up' = FALSE /\ totpMu' = "free" /\ req' = [r \in Requests |-> Idle]
  /\ UNCHANGED <<now, adminVars, gen, totpVars, sessionGen, command, cookies, historyVars>>

\* New reads the generation once.  The installer waits for -set-admin.
PanelStarts ==
  /\ ~up
  /\ "command_and_form" \in Circumstances \/ command = Nobody \/ hash # Nobody
  /\ up' = TRUE /\ sessionGen' = gen
  /\ UNCHANGED <<now, adminVars, gen, totpVars, totpMu, req, command, cookies, historyVars, countVars>>

Command == commands < MaxCommands /\ commands' = commands + 1 /\ UNCHANGED <<calls, faults>>

\* SetAdmin writes the name and then the password.  The installer runs it before
\* the panel serves; while /setup can be claimed it is the circumstance
\* "command_and_form".
SetAdminUser(p) ==
  /\ Command
  /\ command = Nobody
  /\ "command_and_form" \in Circumstances \/ ~up \/ hash # Nobody
  /\ user' = p /\ command' = p
  /\ UNCHANGED <<now, hash, deadline, gen, totpVars, processVars, req, cookies, historyVars>>

SetAdminHash ==
  /\ command # Nobody
  /\ hash' = command /\ command' = Nobody
  /\ UNCHANGED <<now, user, deadline, gen, totpVars, processVars, req, cookies, historyVars, countVars>>

\* -reset-2fa.
ResetCommand ==
  /\ Command
  /\ ResetTOTP
  /\ UNCHANGED <<now, adminVars, gen, processVars, req, command, cookies, historyVars>>

Tick ==
  /\ now < MaxTime
  /\ now' = now + 1
  /\ UNCHANGED <<adminVars, gen, totpVars, processVars, req, command, cookies, historyVars, countVars>>

-----------------------------------------------------------------------------

\* A new database; or an administrator who is signed in and has not confirmed the
\* secret that is parked; or has, and has used no code yet.
Init ==
  /\ now = 2 /\ gen = 0 /\ lastStep = 0
  /\ up = TRUE /\ sessionGen = 0 /\ totpMu = "free" /\ req = [r \in Requests |-> Idle] /\ command = Nobody
  /\ spent = {} /\ again = {} /\ claims = <<>> /\ revoked = {}
  /\ calls = 0 /\ faults = 0 /\ commands = 0
  /\ \/ /\ user = Nobody /\ hash = Nobody /\ deadline = 0 /\ cookies = <<>>
        /\ secrets = 0 /\ pending = 0 /\ secret = 0 /\ batches = 0 /\ recovery = {}
     \/ /\ \E p \in Pairs : user = p /\ hash = p
        /\ deadline = 1 /\ cookies = <<0>> /\ secrets = 1
        /\ \/ pending = 1 /\ secret = 0 /\ batches = 0 /\ recovery = {}
           \/ pending = 0 /\ secret = 1 /\ batches = 1 /\ recovery = Batch(1)

Asks(r) ==
  \/ \E p \in Pairs : SetupChecks(r, p)
  \/ \E code \in PhoneCodes \cup PaperCodes \cup {<<"none">>} : LoginChecks(r, code)
  \/ \E op \in {"disable", "regenerate"}, code \in PhoneCodes \cup PaperCodes : SettingsAsk(r, op, code)
  \/ BeginAsks(r)
  \/ \E code \in PhoneCodes : EnableAsks(r, code)
  \/ LogoutReads(r)

Proceeds(r) ==
  \/ SetupClaims(r) \/ Issue(r)
  \/ FactorReads(r) \/ FactorWrites(r) \/ DisableResets(r) \/ RegenerateWrites(r) \/ FactorFails(r)
  \/ BeginParks(r) \/ EnableReads(r) \/ EnableWrites(r)
  \/ LogoutWrites(r) \/ LogoutCaches(r) \/ LogoutFails(r)

Next ==
  \/ \E r \in Requests : Asks(r) \/ Proceeds(r)
  \/ PanelStops \/ PanelStarts
  \/ \E p \in Pairs : SetAdminUser(p)
  \/ SetAdminHash \/ ResetCommand
  \/ Tick

Spec == Init /\ [][Next]_vars

\* Requests and pairs are alike.
Symmetry == Permutations(Requests) \cup Permutations(Pairs)

-----------------------------------------------------------------------------
(* What must hold *)

\* Types; the lock is held by a request that is checking a code or acting on it,
\* and by nobody else.
TypeOK ==
  /\ now \in 2..MaxTime
  /\ user \in Pairs \cup {Nobody} /\ hash \in Pairs \cup {Nobody} /\ deadline \in 0..(MaxTime + Window)
  /\ gen \in Nat /\ sessionGen \in Nat /\ sessionGen <= gen
  /\ secret \in 0..secrets /\ pending \in 0..secrets /\ lastStep \in 0..(MaxTime + 1)
  /\ recovery \subseteq PaperCodes
  /\ up \in BOOLEAN /\ command \in Pairs \cup {Nobody}
  /\ \A r \in Requests : (totpMu = r) <=> req[r].pc \in {"spend", "disable", "regenerate", "enable"}
  /\ cookies \in Seq(Nat) /\ revoked \subseteq DOMAIN cookies
  /\ calls \in 0..MaxCalls /\ faults \in 0..MaxFaults /\ commands \in 0..MaxCommands

\* "A code is good for one login" (totp.go, checkSecondFactorLocked), whether of
\* the phone or of paper, and whatever it was used for: no code is accepted twice.
SpentOnce == again = {}

\* Logging out "invalidates every cookie issued before it" (server.go,
\* sessionGeneration): once a logout is over, no cookie that was there when it
\* began is accepted again, not even by a panel that has been restarted.
LogoutRevokes == \A i \in revoked : ~Accepts(i)

\* The account is claimed on /setup at most once (auth.go, CreateAdmin), whoever
\* was told so has it until the command line changes it, and the name and the
\* password stored were chosen together.
OneClaim ==
  /\ Len(claims) <= 1
  /\ claims # <<>> /\ commands = 0 => <<user, hash>> = <<claims[1], claims[1]>>
  /\ command = Nobody => user = hash

=============================================================================
