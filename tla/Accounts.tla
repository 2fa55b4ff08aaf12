------------------------------ MODULE Accounts ------------------------------
(***************************************************************************)
(* One account on the panel: its quota, its expiry and its monthly reset,  *)
(* and whether the nodes serve it.                                         *)
(*                                                                         *)
(* The minute scheduler (service/reset.go, RunDueResets) works on a        *)
(* snapshot of the accounts; an operator's edit (service.go, UpdateUser)   *)
(* reads, writes and then stamps the reset cycle in statements of their    *)
(* own; a renewal is one transaction (store/users.go, RenewUser); reports  *)
(* add usage at any moment (store/traffic.go).  The nodes learn of it all  *)
(* from pushes the hub makes later, with the accounts active at that time. *)
(*                                                                         *)
(* Time is a number of minutes; a month has Month of them, and a reset day *)
(* with its clock is one minute of the month, from 1 to Month.             *)
(***************************************************************************)
EXTENDS Integers

CONSTANTS
  Month,          \* minutes in a month
  MaxTime,        \* the last minute
  MaxUsed,        \* bytes on the quota counter
  Limits,         \* quotas an operator gives
  Expiries,       \* expiry dates an operator gives
  ResetDays,      \* reset days an operator gives
  Periods,        \* lengths of a renewal
  MaxCalls,       \* calls by operators
  MaxFaults,      \* restarts, dropped channels, failed sweeps
  Circumstances   \* "races": calls and sweeps interleave statement by statement
                  \* "sweep_fails": a sweep that found an expiry may fail
                  \* "crash_in_call": the panel may stop between two statements of a call

Never == 0      \* no expiry: an account never expires the minute it is created
Nil == -1
Unlimited == 0

ASSUME AccountsAssumption ==
  /\ Month \in Nat \ {0} /\ MaxTime \in Nat /\ MaxUsed \in Nat
  /\ Limits \subseteq Nat /\ Expiries \subseteq Nat /\ ResetDays \subseteq 0..Month
  /\ Periods \subseteq Nat \ {0} /\ MaxCalls \in Nat /\ MaxFaults \in Nat
  /\ Circumstances \subseteq {"races", "sweep_fails", "crash_in_call"}

VARIABLES
  now,
  account,        \* the row of users
  \* the scheduler: where it is, its snapshot and clock, and what it found
  spc, seen, seenAt, expiredSince,
  lastScheduleCheck,
  \* an edit: where it is, the row it read, and the one it writes
  epc, prev, form,
  \* the hub and a node: a push is pending, the channel is up, the account is served
  notified, linked, served,
  \* history: when the schedule last changed or was last carried out
  since,
  calls, faults

sweepVars == <<spc, seen, seenAt, expiredSince, lastScheduleCheck>>
editVars  == <<epc, prev, form>>
nodeVars  == <<notified, linked, served>>
vars == <<now, account, sweepVars, editVars, nodeVars, since, calls, faults>>

-----------------------------------------------------------------------------
(* store/models.go and the calendar of service/reset.go *)

Account ==
  [enabled: BOOLEAN, expires: Nat, limit: Nat, used: Nat,
   resetDay: 0..Month, lastReset: Nat \cup {Nil}]

CreatedAt == 0

DayOf(t) == (t % Month) + 1

\* The schedule an account follows; 0 for none.
ResetSchedule(u) ==
  IF u.resetDay # 0 THEN u.resetDay
  ELSE IF u.expires = Never THEN DayOf(CreatedAt) ELSE 0

Expired(u, t) == u.expires # Never /\ t >= u.expires

Active(u, t) ==
  /\ u.enabled
  /\ ~Expired(u, t)
  /\ u.limit = Unlimited \/ u.used < u.limit

\* The most recent instant of a schedule at or before t.
LastScheduledReset(day, t) == t - ((t - (day - 1)) % Month)

resetDue(u, t) ==
  LET day == ResetSchedule(u)
  IN  day # 0 /\ u.lastReset # Nil /\ u.lastReset < LastScheduledReset(day, t)

-----------------------------------------------------------------------------

\* What a local holds out of its scope.
Blank == [enabled |-> FALSE, expires |-> Never, limit |-> 0, used |-> 0, resetDay |-> 0, lastReset |-> Nil]
SweepReturns == spc' = "idle" /\ seen' = Blank /\ seenAt' = 0 /\ expiredSince' = FALSE
EditReturns  == epc' = "idle" /\ prev' = Blank /\ form' = Blank

Zeroed(u) == [u EXCEPT !.used = 0, !.lastReset = now]
Touched(u) == [u EXCEPT !.lastReset = now]

\* History: a wipe ends the cycle, and so does a change of schedule.
Remember(wiped) ==
  since' = IF wiped \/ ResetSchedule(account') # ResetSchedule(account) THEN now ELSE since

\* Without races, no statement of a call or a sweep falls inside another.
Undisturbed == "races" \in Circumstances \/ (spc = "idle" /\ epc = "idle")

\* The scheduler is started before the panel listens; its first pass is taken
\* to come before the first call or hello.
Started == lastScheduleCheck # Nil

Call == Started /\ calls < MaxCalls /\ calls' = calls + 1
Fault == faults < MaxFaults /\ faults' = faults + 1

-----------------------------------------------------------------------------
(* Reports *)

\* A report takes the account to its limit or past it: the nodes are told.
AddTraffic ==
  /\ linked
  /\ account.used < MaxUsed
  /\ account' = [account EXCEPT !.used = @ + 1]
  /\ notified' = (notified \/ (account.limit # Unlimited /\ account.used < account.limit
                                 /\ account'.used >= account.limit))
  /\ UNCHANGED <<now, sweepVars, editVars, linked, served, since, calls, faults>>

-----------------------------------------------------------------------------
(* Operators *)

\* The edit form, or the toggle: the row is read, and the form filled from it.
EditReads ==
  /\ Call
  /\ epc = "idle" /\ Undisturbed
  /\ \/ \E l \in Limits, e \in Expiries, d \in ResetDays :
          form' = [account EXCEPT !.limit = l, !.expires = e, !.resetDay = d]
     \/ form' = [account EXCEPT !.enabled = ~@]
  /\ epc' = "write"
  /\ UNCHANGED <<now, account, sweepVars, prev, nodeVars, since, faults>>

\* UpdateUser: the row as it is now is kept, and every column but the counter
\* and the stamp is written.
EditWrites ==
  /\ epc = "write"
  /\ prev' = account
  /\ account' = [form EXCEPT !.used = account.used, !.lastReset = account.lastReset]
  /\ Remember(FALSE)
  /\ epc' = "touch"
  /\ UNCHANGED <<now, sweepVars, form, nodeVars, calls, faults>>

\* Mutant of EditTouches: a schedule switched on does not start now.
EditTouchesNothing ==
  /\ epc = "touch"
  /\ EditReturns
  /\ notified' = TRUE
  /\ UNCHANGED <<now, account, sweepVars, linked, served, since, calls, faults>>

\* Another schedule starts its cycle now; and the nodes are told.
EditTouches ==
  /\ epc = "touch"
  /\ account' = IF ResetSchedule(form) # 0 /\ ResetSchedule(form) # ResetSchedule(prev)
                  THEN Touched(account) ELSE account
  /\ EditReturns
  /\ notified' = TRUE
  /\ UNCHANGED <<now, sweepVars, linked, served, since, calls, faults>>

\* One transaction: the period counts from the expiry or from now, whichever is
\* later; a lapsed account's reset day moves to now.
Renewed(u, period, reset) ==
  LET lapsed == u.expires # Never /\ u.expires < now
      from   == IF lapsed THEN now ELSE u.expires
      kept   == [u EXCEPT !.enabled = TRUE, !.expires = IF @ = Never THEN Never ELSE from + period]
      moved  == IF lapsed /\ u.resetDay # 0 THEN Touched([kept EXCEPT !.resetDay = DayOf(now)]) ELSE kept
  IN  IF reset THEN Zeroed(moved) ELSE moved

RenewUser(period, reset) ==
  /\ Call
  /\ Undisturbed
  /\ account' = Renewed(account, period, reset)
  /\ Remember(reset)
  /\ notified' = TRUE
  /\ UNCHANGED <<now, sweepVars, editVars, linked, served, faults>>

ResetUserTraffic ==
  /\ Call
  /\ Undisturbed
  /\ account' = Zeroed(account)
  /\ Remember(TRUE)
  /\ notified' = TRUE
  /\ UNCHANGED <<now, sweepVars, editVars, linked, served, faults>>

-----------------------------------------------------------------------------
(* The scheduler: RunDueResets *)

\* The accounts and the clock are read, and expiriesPassed since the last check.
SweepReads ==
  /\ spc = "idle" /\ Undisturbed
  /\ spc' = "act"
  /\ seen' = account /\ seenAt' = now
  /\ expiredSince' = /\ Started /\ now > lastScheduleCheck
                     /\ account.expires # Never
                     /\ lastScheduleCheck < account.expires /\ account.expires <= now
  /\ lastScheduleCheck' = now
  /\ UNCHANGED <<now, account, editVars, nodeVars, since, calls, faults>>

\* Mutant of Sweep: a reset is carried out in the minute it falls due, or never.
SweepOnTheMinute(u) ==
  IF ResetSchedule(u) # 0 /\ u.lastReset = Nil THEN "touch"
  ELSE IF Expired(u, seenAt) THEN (IF u.used > 0 THEN "reset" ELSE "keep")
  ELSE IF resetDue(u, seenAt) /\ LastScheduledReset(ResetSchedule(u), seenAt) = seenAt
    THEN "reset" ELSE "keep"

\* What the sweep does with an account as it read it.
Sweep(u) ==
  IF ResetSchedule(u) # 0 /\ u.lastReset = Nil THEN "touch"
  ELSE IF Expired(u, seenAt) THEN (IF u.used > 0 THEN "reset" ELSE "keep")
  ELSE IF resetDue(u, seenAt) THEN "reset" ELSE "keep"

\* Mutant of SweepActs: an account brought back under its limit is not pushed.
SweepActsQuietly ==
  /\ spc = "act"
  /\ account' = IF Sweep(seen) = "reset" THEN Zeroed(account)
                ELSE IF Sweep(seen) = "touch" THEN Touched(account) ELSE account
  /\ since' = IF Sweep(seen) = "keep" THEN since ELSE now
  /\ notified' = (notified \/ expiredSince)
  /\ SweepReturns
  /\ UNCHANGED <<now, lastScheduleCheck, editVars, linked, served, calls, faults>>

\* The statement for it, and the notification if anything was zeroed or expired.
SweepActs ==
  /\ spc = "act"
  /\ account' = IF Sweep(seen) = "reset" THEN Zeroed(account)
                ELSE IF Sweep(seen) = "touch" THEN Touched(account) ELSE account
  /\ since' = IF Sweep(seen) = "keep" THEN since ELSE now
  /\ notified' = (notified \/ expiredSince \/ Sweep(seen) = "reset")
  /\ SweepReturns
  /\ UNCHANGED <<now, lastScheduleCheck, editVars, linked, served, calls, faults>>

\* A statement fails, and with it the pass; an expiry it had found is not
\* found again.
SweepFails ==
  /\ spc = "act"
  /\ expiredSince => "sweep_fails" \in Circumstances
  /\ Fault
  /\ SweepReturns
  /\ UNCHANGED <<now, account, lastScheduleCheck, editVars, nodeVars, since, calls>>

-----------------------------------------------------------------------------
(* The nodes *)

\* A flush pushes the accounts active now, to a node that is connected.
Push ==
  /\ notified
  /\ notified' = FALSE
  /\ served' = IF linked THEN Active(account, now) ELSE served
  /\ UNCHANGED <<now, account, sweepVars, editVars, linked, since, calls, faults>>

\* A hello is answered with the accounts active now.
NodeConnects ==
  /\ Started /\ ~linked
  /\ linked' = TRUE
  /\ served' = Active(account, now)
  /\ UNCHANGED <<now, account, sweepVars, editVars, notified, since, calls, faults>>

NodeDrops ==
  /\ linked
  /\ Fault
  /\ linked' = FALSE
  /\ UNCHANGED <<now, account, sweepVars, editVars, notified, served, since, calls>>

\* Calls and sweeps end where they are; the nodes go on serving.
PanelStops ==
  /\ Fault
  /\ epc = "touch" => "crash_in_call" \in Circumstances
  /\ SweepReturns /\ EditReturns
  /\ lastScheduleCheck' = Nil
  /\ notified' = FALSE /\ linked' = FALSE
  /\ UNCHANGED <<now, account, served, since, calls>>

\* A minute passes, with the panel up or down; while it is up the scheduler
\* has run since the last one.
Minute ==
  /\ now < MaxTime
  /\ Started => spc = "idle" /\ lastScheduleCheck = now
  /\ now' = now + 1
  /\ UNCHANGED <<account, sweepVars, editVars, nodeVars, since, calls, faults>>

-----------------------------------------------------------------------------

\* An account created now, or one that predates the stamp.
Init ==
  /\ now = 0
  /\ account \in [enabled: {TRUE}, expires: Expiries, limit: Limits, used: {0},
                  resetDay: ResetDays, lastReset: {0, Nil}]
  /\ spc = "idle" /\ seen = Blank /\ seenAt = 0 /\ expiredSince = FALSE
  /\ lastScheduleCheck = Nil
  /\ epc = "idle" /\ prev = Blank /\ form = Blank
  /\ notified = FALSE /\ linked = FALSE /\ served = FALSE
  /\ since = 0 /\ calls = 0 /\ faults = 0

Renewals == \E p \in Periods, r \in BOOLEAN : RenewUser(p, r)

Next ==
  \/ AddTraffic
  \/ EditReads \/ EditWrites \/ EditTouches \/ Renewals \/ ResetUserTraffic
  \/ SweepReads \/ SweepActs \/ SweepFails
  \/ Push \/ NodeConnects \/ NodeDrops \/ PanelStops
  \/ Minute

Spec == Init /\ [][Next]_vars

\* The scheduler, the calls under way, the hub and the nodes go on.
Fairness ==
  /\ WF_vars(SweepReads) /\ WF_vars(SweepActs)
  /\ WF_vars(EditWrites) /\ WF_vars(EditTouches)
  /\ WF_vars(Push) /\ WF_vars(NodeConnects)

FairSpec == Spec /\ Fairness

-----------------------------------------------------------------------------
(* Properties *)

TypeOK ==
  /\ now \in Nat
  /\ account \in Account /\ seen \in Account /\ prev \in Account /\ form \in Account
  /\ spc \in {"idle", "act"} /\ epc \in {"idle", "write", "touch"}
  /\ seenAt \in Nat /\ expiredSince \in BOOLEAN /\ lastScheduleCheck \in Nat \cup {Nil}
  /\ notified \in BOOLEAN /\ linked \in BOOLEAN /\ served \in BOOLEAN
  /\ since \in Nat /\ calls \in Nat /\ faults \in Nat

\* Usage is wiped by an operator, by the expiry of the account, or because an
\* instant of the schedule it follows has come since that schedule was chosen
\* and last carried out: switching a schedule on, moving it, renewing, clearing
\* an expiry or upgrading from a version without the stamp wipes nothing.
NoRetroactiveWipe ==
  [][account'.used < account.used =>
       \/ ResetUserTraffic \/ Renewals
       \/ Expired(account, now)
       \/ /\ ResetSchedule(account) # 0
          /\ LastScheduledReset(ResetSchedule(account), now) > since]_vars

\* A reset that has come due is carried out, also one that came due while the
\* panel was down.
Due == ~Expired(account, now) /\ resetDue(account, now)
ResetsCatchUp == Due ~> ~Due

\* An account that expires, is disabled or reaches its quota stops being served
\* by every connected node, and one that comes back is served again.
NodesFollow == []<>(linked => served = Active(account, now))

=============================================================================
