------------------------------ MODULE Counters ------------------------------
(***************************************************************************)
(* The bookkeeping that turns the cumulative traffic counters of one core  *)
(* (sing-box or Xray) into the deltas a report carries: the type counters  *)
(* of node/internal/engine/stats.go and its methods.                       *)
(*                                                                         *)
(* Every method treats each user and each direction independently, so one  *)
(* number stands for one user's bytes in one direction.  A nil map is      *)
(* NoReading; an absent entry is 0.                                        *)
(***************************************************************************)
EXTENDS Integers

NoReading == -1

Reading == Nat \cup {NoReading}

(***************************************************************************)
(* reported  : the baseline the last acknowledged report was measured from *)
(* pending   : the reading behind the report in flight, if any             *)
(* carry     : unacknowledged traffic of instances since replaced          *)
(* carrySent : the part of carry the report in flight includes             *)
(* gen       : which instance the baseline belongs to                      *)
(***************************************************************************)
CounterSet ==
  [reported: Nat, pending: Reading, carry: Nat, carrySent: Nat, gen: Nat]

Books(reported, pending, carry, carrySent, gen) ==
  [reported |-> reported, pending |-> pending, carry |-> carry, carrySent |-> carrySent, gen |-> gen]

newCounters == Books(0, NoReading, 0, 0, 0)

\* A counter that went backwards was reset: its new value is the difference.
sub(cur, before) == IF cur < before THEN cur ELSE cur - before

\* What the report in flight holds of the running instance.
FromInstance(c) == IF c.pending = NoReading THEN 0 ELSE sub(c.pending, c.reported)

\* Mutants of retire: the last reading is not kept; the part of it that the
\* report in flight holds is not remembered as sent.
retireForgets(c, final) == Books(0, NoReading, c.carry, c.carrySent, c.gen + 1)
retireUnsent(c, final) ==
  Books(0, NoReading,
        c.carry + (IF final = NoReading THEN 0 ELSE sub(final, c.reported)),
        c.carrySent,
        c.gen + 1)

\* Closing the books on an instance, with its last reading if it gave one.
retire(c, final) ==
  Books(0, NoReading,
        c.carry + (IF final = NoReading THEN 0 ELSE sub(final, c.reported)),
        c.carrySent + FromInstance(c),
        c.gen + 1)

\* What a reading adds to the report: nothing if it is of an older instance.
Measured(c, gen, now) ==
  IF gen # c.gen THEN 0
  ELSE c.carry + (IF now = NoReading THEN 0 ELSE sub(now, c.reported))

\* The next report carries nothing of this core, and settles nothing of it.
skip(c) == Books(c.reported, NoReading, c.carry, 0, c.gen)

\* Taking a reading for a report; the baseline stays where it is.
delta(c, gen, now) ==
  IF gen # c.gen THEN skip(c) ELSE Books(c.reported, now, c.carry, c.carry, c.gen)

\* The highest reading of the running instance so far.
Seen(c) == IF c.pending = NoReading THEN c.reported ELSE c.pending

\* Mutant of commit: an acknowledgement with no reading pending clears the baseline.
commitNil(c) == Books(c.pending, NoReading, sub(c.carry, c.carrySent), 0, c.gen)

\* The report in flight has been acknowledged.
commit(c) == Books(Seen(c), NoReading, sub(c.carry, c.carrySent), 0, c.gen)

-----------------------------------------------------------------------------

\* What an acknowledgement arriving now would settle.
Sent(c) == FromInstance(c) + c.carrySent

\* What the panel has not acknowledged of a core whose counter stands at total.
Owed(c, total) == sub(total, c.reported) + c.carry

\* The books agree with a counter that stands at total.
Balanced(c, total) ==
  /\ c.reported <= total
  /\ c.pending # NoReading => c.reported <= c.pending /\ c.pending <= total
  /\ c.carrySent <= c.carry

=============================================================================
