------------------------- MODULE AddressLimitProofs -------------------------
(***************************************************************************)
(* The rules in Xray stand as they should, for any users, addresses,       *)
(* limits, numbers of unlock rules, calls and faults, and also if a call   *)
(* that missed its deadline is carried out.                                *)
(*                                                                         *)
(* A poll that adds a limit rule takes the unlock rules out one after the  *)
(* other and puts them back.  If one cannot be taken out the deadline has  *)
(* passed and no limit rule is added behind those that are left; and those *)
(* are the last ones, so putting back the first of them may stop there.    *)
(*                                                                         *)
(* And who has a place among a user's addresses keeps it: an address is    *)
(* remembered once, refreshing moves nobody, and dropping moves up only.   *)
(***************************************************************************)
EXTENDS AddressLimit, FiniteSetTheorems, SequenceTheorems, TLAPS

-----------------------------------------------------------------------------
(* Taking a rule out *)

\* The elements of a finite set of numbers have ranks, in their order, from 1.
LEMMA Ranks ==
  ASSUME NEW S \in SUBSET Nat, IsFiniteSet(S)
  PROVE  /\ Cardinality(S) \in Nat
         /\ \A i \in S : Cardinality({k \in S : k <= i}) \in 1..Cardinality(S)
         /\ \A i, j \in S : i < j => Cardinality({k \in S : k <= i}) < Cardinality({k \in S : k <= j})
         /\ \A n \in 1..Cardinality(S) : \E i \in S : Cardinality({k \in S : k <= i}) = n
<1> DEFINE upto(i) == {k \in S : k <= i}
           rank(i) == Cardinality(upto(i))
           C == Cardinality(S)
           f == [i \in S |-> rank(i)]
<1>1. C \in Nat
  BY FS_CardinalityType
<1>2. \A i \in S : /\ IsFiniteSet(upto(i)) /\ rank(i) \in Nat /\ rank(i) <= C
                   /\ upto(i) # {}
  <2> TAKE i \in S
  <2>1. upto(i) \in SUBSET S /\ i \in upto(i)
    OBVIOUS
  <2>2. IsFiniteSet(upto(i)) /\ Cardinality(upto(i)) <= Cardinality(S)
    BY <2>1, FS_Subset
  <2>3. Cardinality(upto(i)) \in Nat
    BY <2>2, FS_CardinalityType
  <2> QED
    BY <2>1, <2>2, <2>3
<1>3. \A i \in S : rank(i) \in 1..C
  <2> TAKE i \in S
  <2>1. rank(i) # 0
    BY <1>2, FS_EmptySet
  <2> QED
    BY <1>1, <1>2, <2>1
<1>4. ASSUME NEW i \in S, NEW j \in S, i < j PROVE rank(i) < rank(j)
  <2>0. i \in Nat /\ j \in Nat /\ \A k \in S : k \in Nat
    OBVIOUS
  <2>1. upto(i) \in SUBSET upto(j) /\ j \in upto(j) /\ j \notin upto(i)
    <3>1. \A k \in upto(i) : k \in upto(j)
      BY <1>4, <2>0
    <3>2. j \in upto(j) /\ j \notin upto(i)
      BY <1>4, <2>0
    <3> QED
      BY <3>1, <3>2
  <2>2. IsFiniteSet(upto(j)) /\ upto(i) # upto(j)
    BY <1>2, <2>1
  <2>3. Cardinality(upto(i)) <= Cardinality(upto(j)) /\ Cardinality(upto(i)) # Cardinality(upto(j))
    BY <2>1, <2>2, FS_Subset
  <2> QED
    BY <1>2, <2>3
<1>5. \A n \in 1..C : \E i \in S : rank(i) = n
  <2> HIDE DEF rank, C
  <2>1. f \in [S -> 1..C]
    BY <1>3
  <2>2. ASSUME NEW i \in S, NEW j \in S, f[i] = f[j] PROVE i = j
    <3>1. f[i] = rank(i) /\ f[j] = rank(j) /\ rank(i) \in Nat /\ rank(j) \in Nat
      BY <1>2
    <3>2. ~(i < j) /\ ~(j < i)
      BY <1>4, <2>2, <3>1
    <3>3. i \in Nat /\ j \in Nat
      OBVIOUS
    <3> QED
      BY <3>2, <3>3
  <2>3. f \in Injection(S, 1..C)
    BY <2>1, <2>2, Zenon DEF Injection, IsInjective
  <2>4. IsFiniteSet(1..C) /\ Cardinality(1..C) = C
    BY <1>1, FS_Interval
  <2>5. f \in Surjection(S, 1..C)
    BY <2>3, <2>4, FS_Injection DEF C
  <2> QED
    BY <2>5 DEF Surjection
<1> QED
  BY <1>1, <1>3, <1>4, <1>5

\* So Ordered lists them: each once, and not before its rank.
LEMMA OrderedFacts ==
  ASSUME NEW S \in SUBSET Nat, IsFiniteSet(S)
  PROVE  /\ Cardinality(S) \in Nat
         /\ Ordered(S) \in [1..Cardinality(S) -> S]
         /\ \A n \in 1..Cardinality(S) : Cardinality({k \in S : k <= Ordered(S)[n]}) = n
         /\ \A i, j \in 1..Cardinality(S) : Ordered(S)[i] < Ordered(S)[j] => i < j
         /\ \A j \in S : \E n \in 1..Cardinality(S) : Ordered(S)[n] = j
<1> DEFINE C == Cardinality(S)
           rank(i) == Cardinality({k \in S : k <= i})
           o == Ordered(S)
<1>1. /\ C \in Nat
      /\ \A i \in S : rank(i) \in 1..C
      /\ \A i, j \in S : i < j => rank(i) < rank(j)
      /\ \A n \in 1..C : \E i \in S : rank(i) = n
  BY Ranks
<1>2. o = [n \in 1..C |-> CHOOSE j \in S : rank(j) = n]
  BY DEF Ordered
<1> HIDE DEF rank, C, o
<1>3. \A n \in 1..C : o[n] \in S /\ rank(o[n]) = n
  BY <1>1, <1>2
<1>4. o \in [1..C -> S]
  BY <1>2, <1>3
<1>5. ASSUME NEW i \in 1..C, NEW j \in 1..C, o[i] < o[j] PROVE i < j
  BY <1>1, <1>3, <1>5
<1>6. ASSUME NEW j \in S PROVE \E n \in 1..C : o[n] = j
  <2>1. rank(j) \in 1..C /\ o[rank(j)] \in S /\ rank(o[rank(j)]) = rank(j)
    BY <1>1, <1>3
  <2>2. ~(o[rank(j)] < j) /\ ~(j < o[rank(j)])
    <3> DEFINE x == o[rank(j)]
    <3>1. x \in S /\ rank(x) = rank(j) /\ rank(j) \in Int
      BY <1>1, <2>1
    <3> HIDE DEF x
    <3>2. ~(x < j) /\ ~(j < x)
      BY <1>1, <3>1
    <3> QED
      BY <3>2 DEF x
  <2>3. o[rank(j)] \in Nat /\ j \in Nat
    BY <2>1
  <2>4. o[rank(j)] = j
    BY <2>2, <2>3
  <2> QED
    BY <2>1, <2>4
<1> QED
  BY <1>1, <1>3, <1>4, <1>5, <1>6 DEF rank, C, o

\* The rules are a sequence, and limit rules come before unlock rules.
Listed == \E n \in Nat : rules = [j \in 1..n |-> rules[j]]
InOrder == \A j, k \in DOMAIN rules : rules[j].kind = "unlock" /\ rules[k].kind = "limit" => k < j

LEMMA RemovedPlaces ==
  ASSUME NEW kind, NEW key, Listed, NEW new, new = RemoveRule(kind, key)
  PROVE  /\ \E n \in Nat : new = [j \in 1..n |-> new[j]]
         /\ \E of \in [DOMAIN new -> DOMAIN rules] :
              /\ \A j \in DOMAIN new : /\ new[j] = rules[of[j]]
                                       /\ ~(rules[of[j]].kind = kind /\ rules[of[j]].key = key)
              /\ \A i, j \in DOMAIN new : of[i] < of[j] => i < j
              /\ \A j \in DOMAIN rules : \/ rules[j].kind = kind /\ rules[j].key = key
                                         \/ \E i \in DOMAIN new : of[i] = j
<1> DEFINE kept == {j \in DOMAIN rules : ~(rules[j].kind = kind /\ rules[j].key = key)}
           C == Cardinality(kept)
           of == Ordered(kept)
<1>1. PICK m \in Nat : rules = [j \in 1..m |-> rules[j]]
  BY DEF Listed
<1>2. DOMAIN rules = 1..m
  BY <1>1
<1>3. kept \in SUBSET (1..m) /\ kept \in SUBSET Nat
  BY <1>2
<1>4. IsFiniteSet(kept)
  <2>1. IsFiniteSet(1..m)
    BY FS_Interval
  <2> QED
    BY <1>3, <2>1, FS_Subset
<1>5. new = [n \in 1..C |-> rules[of[n]]]
  BY DEF RemoveRule, Those
<1>6. /\ C \in Nat /\ of \in [1..C -> kept]
      /\ \A i, j \in 1..C : of[i] < of[j] => i < j
      /\ \A j \in kept : \E n \in 1..C : of[n] = j
  <2> HIDE DEF kept
  <2> QED
    BY <1>3, <1>4, OrderedFacts
<1>7. \A j \in kept : j \in DOMAIN rules /\ ~(rules[j].kind = kind /\ rules[j].key = key)
  OBVIOUS
<1>8. \A j \in DOMAIN rules : (rules[j].kind = kind /\ rules[j].key = key) \/ j \in kept
  OBVIOUS
<1> HIDE DEF kept, C, of
<1>9. DOMAIN new = 1..C /\ \A j \in 1..C : new[j] = rules[of[j]]
  BY <1>5
<1>10. new = [j \in 1..C |-> new[j]]
  BY <1>5
<1>11. of \in [DOMAIN new -> DOMAIN rules]
  BY <1>6, <1>7, <1>9
<1>12. \A j \in DOMAIN new : new[j] = rules[of[j]] /\ ~(rules[of[j]].kind = kind /\ rules[of[j]].key = key)
  BY <1>6, <1>7, <1>9
<1>13. /\ \A i, j \in DOMAIN new : of[i] < of[j] => i < j
       /\ \A j \in DOMAIN rules : \/ rules[j].kind = kind /\ rules[j].key = key
                                  \/ \E i \in DOMAIN new : of[i] = j
  BY <1>6, <1>8, <1>9
<1> QED
  BY <1>6, <1>10, <1>11, <1>12, <1>13

LEMMA Removed ==
  ASSUME NEW kind, NEW key, Listed, InOrder, rules' = RemoveRule(kind, key)
  PROVE  /\ Listed' /\ InOrder'
         /\ \A j \in DOMAIN rules' : \E i \in DOMAIN rules : rules'[j] = rules[i]
         /\ \A k, x : HasRule(k, x)' <=> HasRule(k, x) /\ ~(k = kind /\ x = key)
<1>1. PICK of \in [DOMAIN rules' -> DOMAIN rules] :
        /\ \A j \in DOMAIN rules' : /\ rules'[j] = rules[of[j]]
                                    /\ ~(rules[of[j]].kind = kind /\ rules[of[j]].key = key)
        /\ \A i, j \in DOMAIN rules' : of[i] < of[j] => i < j
        /\ \A j \in DOMAIN rules : \/ rules[j].kind = kind /\ rules[j].key = key
                                   \/ \E i \in DOMAIN rules' : of[i] = j
  BY RemovedPlaces
<1>2. Listed'
  BY RemovedPlaces DEF Listed
<1>3. \A j \in DOMAIN rules' : of[j] \in DOMAIN rules
  BY <1>1
<1>4. InOrder'
  BY <1>1, <1>3 DEF InOrder
<1>5. ASSUME NEW k, NEW x PROVE HasRule(k, x)' <=> HasRule(k, x) /\ ~(k = kind /\ x = key)
  <2>1. ASSUME HasRule(k, x)' PROVE HasRule(k, x) /\ ~(k = kind /\ x = key)
    <3>1. PICK j \in DOMAIN rules' : rules'[j].kind = k /\ rules'[j].key = x
      BY <2>1 DEF HasRule
    <3> QED
      BY <1>1, <1>3, <3>1 DEF HasRule
  <2>2. ASSUME HasRule(k, x), ~(k = kind /\ x = key) PROVE HasRule(k, x)'
    <3>1. PICK j \in DOMAIN rules : rules[j].kind = k /\ rules[j].key = x
      BY <2>2 DEF HasRule
    <3>2. PICK i \in DOMAIN rules' : of[i] = j
      BY <1>1, <2>2, <3>1
    <3> QED
      BY <1>1, <3>1, <3>2 DEF HasRule
  <2> QED
    BY <2>1, <2>2
<1> QED
  BY <1>1, <1>2, <1>3, <1>4, <1>5

\* A rule added goes to the end.
LEMMA Added ==
  ASSUME NEW r, Listed, rules' = Append(rules, r)
  PROVE  /\ Listed'
         /\ \E n \in Nat : /\ DOMAIN rules = 1..n /\ DOMAIN rules' = 1..(n + 1)
                           /\ rules'[n + 1] = r /\ \A j \in 1..n : rules'[j] = rules[j]
         /\ \A k, x : HasRule(k, x)' <=> HasRule(k, x) \/ (r.kind = k /\ r.key = x)
         /\ rules' # rules
<1>1. PICK n \in Nat : rules = [j \in 1..n |-> rules[j]]
  BY DEF Listed
<1> DEFINE S == {rules[j] : j \in 1..n} \cup {r}
<1>2. rules \in [1..n -> S] /\ r \in S /\ DOMAIN rules = 1..n
  BY <1>1
<1>3. rules \in Seq(S)
  BY <1>2, SeqDef
<1>4. Len(rules) = n
  BY <1>2, <1>3
<1> HIDE DEF S
<1>5. /\ rules' \in Seq(S) /\ DOMAIN rules' = 1..(n + 1)
      /\ rules'[n + 1] = r /\ \A j \in 1..n : rules'[j] = rules[j]
      /\ Len(rules') = n + 1
  BY <1>2, <1>3, <1>4
<1>6. Listed'
  <2>1. rules' \in [1..(n + 1) -> S] /\ n + 1 \in Nat
    <3>1. rules' \in [1..Len(rules') -> S]
      BY <1>5, LenProperties
    <3> QED
      BY <1>5, <3>1
  <2>2. rules' = [j \in 1..(n + 1) |-> rules'[j]]
    BY <2>1
  <2>3. \E m \in Nat : rules' = [j \in 1..m |-> rules'[j]]
    BY <2>1, <2>2, Zenon
  <2> QED
    BY <2>3 DEF Listed
<1>7. ASSUME NEW k, NEW x PROVE HasRule(k, x)' <=> HasRule(k, x) \/ (r.kind = k /\ r.key = x)
  BY <1>2, <1>5 DEF HasRule
<1> QED
  BY <1>2, <1>4, <1>5, <1>6, <1>7

-----------------------------------------------------------------------------
(* The invariant *)

Present(i) == HasRule("unlock", i)

Typed == xctx \in BOOLEAN /\ unlock \in Unlocks

\* Unlock rules are those of the process, which is known; without one there are no rules.
Known ==
  /\ \A j \in DOMAIN rules : rules[j].kind = "unlock" => rules[j].key \in 1..unlock
  /\ alive => proc
  /\ ~alive => rules = << >>

\* The unlock rules that are left are the last ones.
LastLeft == \A i \in 1..unlock : Present(i) => \A k \in i..unlock : Present(k)

Quiet == ppc \notin {"takeout", "block", "putback"}

Whereabouts ==
  alive =>
    /\ Quiet => \A i \in 1..unlock : Present(i)
    /\ ppc = "takeout" => at \in 1..unlock /\ \A i \in 1..unlock : Present(i) <=> at <= i
    /\ ppc = "block" => LastLeft /\ (~xctx \/ \A i \in 1..unlock : ~Present(i))
    /\ ppc = "putback" =>
         /\ at \in 1..unlock
         /\ \A i \in 1..unlock : i < at => Present(i)
         /\ \A i \in 1..unlock : at <= i /\ Present(i) => \A k \in i..unlock : Present(k)

IInv == Typed /\ Listed /\ InOrder /\ Known /\ Whereabouts

LEMMA UnlocksNat == Unlocks \subseteq Nat
  BY LimitAssumption

LEMMA AnswersFacts ==
  ASSUME NEW a \in Answers
  PROVE  /\ a.ok => a.done
         /\ a.done => alive /\ xctx
         /\ alive /\ xctx => a.ok \/ a.cost = 1
         /\ a.ok \in BOOLEAN /\ a.done \in BOOLEAN
<1>1. \/ (~alive \/ ~xctx) /\ a = [ok |-> FALSE, done |-> FALSE, cost |-> 0]
      \/ alive /\ xctx /\ a = [ok |-> TRUE, done |-> TRUE, cost |-> 0]
      \/ alive /\ xctx /\ a = [ok |-> FALSE, done |-> FALSE, cost |-> 1]
      \/ alive /\ xctx /\ a = [ok |-> FALSE, done |-> TRUE, cost |-> 1]
  <2>1. CASE ~alive \/ ~xctx
    BY <2>1 DEF Answers
  <2>2. CASE alive /\ xctx
    BY <2>2 DEF Answers
  <2> QED
    BY <2>1, <2>2
<1>2. CASE (~alive \/ ~xctx) /\ a = [ok |-> FALSE, done |-> FALSE, cost |-> 0]
  BY <1>2
<1>3. CASE alive /\ xctx /\ a = [ok |-> TRUE, done |-> TRUE, cost |-> 0]
  BY <1>3
<1>4. CASE alive /\ xctx /\ a = [ok |-> FALSE, done |-> FALSE, cost |-> 1]
  BY <1>4
<1>5. CASE alive /\ xctx /\ a = [ok |-> FALSE, done |-> TRUE, cost |-> 1]
  BY <1>5
<1> QED
  BY <1>1, <1>2, <1>3, <1>4, <1>5

\* A process that has come up.
LEMMA Fresh ==
  ASSUME NEW n \in Unlocks, unlock' = n, alive' = TRUE, proc' = TRUE, xctx' \in BOOLEAN,
         rules' = [i \in 1..n |-> UnlockRule(i)], Quiet'
  PROVE  IInv'
<1>1. n \in Nat
  BY UnlocksNat
<1>2. DOMAIN rules' = 1..n /\ \A i \in 1..n : rules'[i] = UnlockRule(i)
  OBVIOUS
<1>3. \A i \in 1..n : rules'[i].kind = "unlock" /\ rules'[i].key = i
  BY <1>2 DEF UnlockRule
<1>4. Listed'
  <2>1. rules' = [i \in 1..n |-> rules'[i]]
    BY <1>2
  <2> QED
    BY <1>1, <2>1, Zenon DEF Listed
<1>5. InOrder'
  BY <1>2, <1>3 DEF InOrder
<1>6. Known'
  BY <1>2, <1>3 DEF Known
<1>7. \A i \in 1..n : Present(i)'
  BY <1>2, <1>3 DEF Present, HasRule
<1> QED
  BY <1>4, <1>5, <1>6, <1>7 DEF IInv, Typed, Whereabouts, Quiet

\* No rules, and no process.
LEMMA Without ==
  ASSUME IInv, alive' = FALSE, rules' = << >>, xctx' \in BOOLEAN, unlock' = unlock
  PROVE  IInv'
<1>1. DOMAIN rules' = 1..0 /\ 0 \in Nat /\ DOMAIN rules' = {}
  BY EmptySeq
<1>2. Listed'
  <2>1. rules' = [j \in 1..0 |-> rules'[j]]
    BY <1>1
  <2> QED
    BY <1>1, <2>1, Zenon DEF Listed
<1> QED
  BY <1>1, <1>2 DEF IInv, Typed, InOrder, Known, Whereabouts

\* The rules stay, and so does where they stand.
LEMMA RulesStay ==
  ASSUME IInv, UNCHANGED <<rules, unlock, alive>>, alive => proc', xctx' \in BOOLEAN,
         \/ Quiet /\ Quiet'
         \/ UNCHANGED <<ppc, at, xctx>>
         \/ UNCHANGED <<ppc, at>> /\ xctx' = FALSE
  PROVE  IInv'
<1>1. \A i : Present(i)' <=> Present(i)
  BY DEF Present, HasRule
<1>2. Listed' /\ InOrder' /\ Known' /\ Typed'
  BY DEF IInv, Listed, InOrder, Known, Typed
<1>3. Whereabouts'
  <2>1. CASE Quiet /\ Quiet'
    BY <1>1, <2>1 DEF IInv, Whereabouts, Quiet
  <2>2. CASE UNCHANGED <<ppc, at>> /\ (xctx' = xctx \/ xctx' = FALSE)
    <3>1. LastLeft' <=> LastLeft
      BY <1>1 DEF LastLeft
    <3> QED
      BY <1>1, <2>2, <3>1 DEF IInv, Whereabouts, Quiet
  <2> QED
    BY <2>1, <2>2
<1> QED
  BY <1>2, <1>3 DEF IInv

-----------------------------------------------------------------------------
(* Every step keeps it *)

LEMMA AnsweredFacts ==
  ASSUME xctx \in BOOLEAN, NEW a, Answered(a)
  PROVE  xctx' \in BOOLEAN /\ (a.cost = 1 \/ ~xctx => xctx' = FALSE)
<1>1. xctx' = (xctx /\ a.cost = 0)
  BY DEF Answered
<1>2. CASE a.cost = 0
  <2>1. a.cost # 1
    BY <1>2
  <2> QED
    BY <1>1, <1>2, <2>1, Zenon
<1>3. CASE a.cost # 0
  BY <1>1, <1>3, Zenon
<1> QED
  BY <1>2, <1>3

\* An outdated limit rule goes; the unlock rules are not touched.
LEMMA RemoveOutdatedKeeps == ASSUME IInv, NEW u \in Users, RemoveOutdated(u) PROVE IInv'
<1>1. PICK a \in Answers :
        /\ Answered(a) /\ rules' = IF a.done THEN RemoveRule("limit", u) ELSE rules
  BY DEF RemoveOutdated
<1>2. ppc = "unblock" /\ ppc' = ppc /\ UNCHANGED <<unlock, alive, proc>> /\ Quiet /\ Quiet'
  BY DEF RemoveOutdated, Quiet
<1>3. xctx' \in BOOLEAN
  BY <1>1, AnsweredFacts DEF IInv, Typed
<1>4. CASE ~a.done
  <2>1. UNCHANGED rules
    BY <1>1, <1>4
  <2> QED
    BY <1>2, <1>3, <2>1, RulesStay DEF IInv, Known
<1>5. CASE a.done
  <2>1. rules' = RemoveRule("limit", u) /\ alive
    BY <1>1, <1>5, AnswersFacts
  <2>2. /\ Listed' /\ InOrder'
        /\ \A j \in DOMAIN rules' : \E i \in DOMAIN rules : rules'[j] = rules[i]
        /\ \A i : HasRule("unlock", i)' <=> HasRule("unlock", i)
    BY <2>1, Removed DEF IInv
  <2>3. Known'
    BY <1>2, <2>1, <2>2 DEF IInv, Known
  <2>4. Whereabouts'
    BY <1>2, <2>1, <2>2 DEF IInv, Whereabouts, Present, Quiet
  <2> QED
    BY <1>2, <1>3, <2>2, <2>3, <2>4 DEF IInv, Typed
<1> QED
  BY <1>4, <1>5, AnswersFacts

\* An unlock rule is taken out; if it is not, no call after this one is answered.
LEMMA TakeOutKeeps == ASSUME IInv, TakeOut PROVE IInv'
<1>1. PICK a \in Answers :
        /\ Answered(a) /\ rules' = IF a.done THEN RemoveRule("unlock", at) ELSE rules
        /\ IF a.ok /\ at < unlock THEN at' = at + 1 /\ ppc' = ppc ELSE at' = 0 /\ ppc' = "block"
  BY DEF TakeOut
<1>2. ppc = "takeout" /\ UNCHANGED <<unlock, alive, proc>>
  BY DEF TakeOut, coreVars
<1>3. xctx' \in BOOLEAN
  BY <1>1, AnsweredFacts DEF IInv, Typed
<1>4. CASE ~alive
  <2>1. ~a.done
    BY <1>4, AnswersFacts
  <2>2. UNCHANGED rules
    BY <1>1, <2>1
  <2> QED
    BY <1>2, <1>3, <1>4, <2>2 DEF IInv, Typed, Listed, InOrder, Known, Whereabouts
<1>5. CASE alive
  <2>1. at \in 1..unlock /\ (\A i \in 1..unlock : Present(i) <=> at <= i) /\ unlock \in Nat
    BY <1>2, <1>5, UnlocksNat DEF IInv, Whereabouts, Typed
  <2>2. /\ Listed' /\ InOrder' /\ Known'
        /\ \A i : Present(i)' <=> Present(i) /\ ~(a.done /\ i = at)
    <3>1. CASE a.done
      <4>1. /\ Listed' /\ InOrder'
            /\ \A j \in DOMAIN rules' : \E i \in DOMAIN rules : rules'[j] = rules[i]
            /\ \A i : HasRule("unlock", i)' <=> HasRule("unlock", i) /\ i # at
        BY <1>1, <3>1, Removed DEF IInv
      <4>2. Known'
        BY <1>2, <1>5, <4>1 DEF IInv, Known
      <4> QED
        BY <3>1, <4>1, <4>2 DEF Present
    <3>2. CASE ~a.done
      <4>1. UNCHANGED rules
        BY <1>1, <3>2
      <4> QED
        BY <1>2, <3>2, <4>1 DEF IInv, Listed, InOrder, Known, Present, HasRule
    <3> QED
      BY <3>1, <3>2
  <2>3. CASE a.ok /\ at < unlock
    <3>1. at' = at + 1 /\ ppc' = "takeout" /\ a.done
      BY <1>1, <1>2, <2>3, AnswersFacts
    <3>2. \A i \in 1..unlock : Present(i)' <=> at' <= i
      BY <2>1, <2>2, <3>1
    <3> QED
      BY <1>2, <1>3, <2>1, <2>2, <2>3, <3>1, <3>2 DEF IInv, Typed, Whereabouts, Quiet
  <2>4. CASE ~(a.ok /\ at < unlock)
    <3>1. ppc' = "block"
      BY <1>1, <2>4
    <3>2. LastLeft'
      <4>1. \A i \in 1..unlock : Present(i)' => \A k \in i..unlock : Present(k)'
        BY <2>1, <2>2
      <4> QED
        BY <1>2, <4>1 DEF LastLeft
    <3>3. ~xctx' \/ \A i \in 1..unlock : ~Present(i)'
      <4>1. CASE a.ok
        <5>1. at = unlock /\ a.done
          BY <2>1, <2>4, <4>1, AnswersFacts
        <5> QED
          BY <2>1, <2>2, <5>1
      <4>2. CASE ~a.ok
        <5>1. a.cost = 1 \/ ~xctx
          BY <1>5, <4>2, AnswersFacts DEF IInv, Typed
        <5> QED
          BY <1>1, <5>1, AnsweredFacts DEF IInv, Typed
      <4> QED
        BY <4>1, <4>2
    <3> QED
      BY <1>2, <1>3, <2>2, <3>1, <3>2, <3>3 DEF IInv, Typed, Whereabouts, Quiet
  <2> QED
    BY <2>3, <2>4
<1> QED
  BY <1>4, <1>5

\* The unlock rules go first, if there are any and a limit rule is missing.
LEMMA DecideAddingKeeps == ASSUME IInv, DecideAdding PROVE IInv'
<1>1. /\ ppc = "unblock" /\ UNCHANGED <<rules, unlock, alive, proc, xctx>> /\ Quiet
      /\ ppc' = IF Missing = {} THEN "close" ELSE IF unlock = 0 THEN "block" ELSE "takeout"
      /\ at' = IF Missing # {} /\ unlock > 0 THEN 1 ELSE 0
  BY DEF DecideAdding, coreVars, xrayVars, Quiet
<1>2. unlock \in Nat /\ xctx' \in BOOLEAN
  BY <1>1, UnlocksNat DEF IInv, Typed
<1>3. alive => \A i \in 1..unlock : Present(i)'
  BY <1>1 DEF IInv, Whereabouts, Present, HasRule
<1>4. Typed' /\ Listed' /\ InOrder' /\ Known'
  BY <1>1 DEF IInv, Typed, Listed, InOrder, Known
<1>5. CASE Missing = {}
  BY <1>1, <1>3, <1>4, <1>5 DEF IInv, Whereabouts, Quiet
<1>6. CASE Missing # {} /\ unlock = 0
  <2>1. 1..unlock = {} /\ ppc' = "block"
    BY <1>1, <1>6
  <2> QED
    BY <1>1, <1>4, <2>1 DEF IInv, Whereabouts, LastLeft, Quiet
<1>7. CASE Missing # {} /\ unlock # 0
  <2>1. at' = 1 /\ ppc' = "takeout" /\ 1 \in 1..unlock
    BY <1>1, <1>2, <1>7
  <2>2. alive => \A i \in 1..unlock : Present(i)' <=> 1 <= i
    BY <1>2, <1>3
  <2> QED
    BY <1>1, <1>4, <2>1, <2>2 DEF IInv, Whereabouts, Quiet
<1> QED
  BY <1>5, <1>6, <1>7

\* A limit rule is added only when no unlock rule stands.
LEMMA AddMissingKeeps == ASSUME IInv, NEW u \in Users, AddMissing(u) PROVE IInv'
<1> DEFINE r == [LimitRule(u) EXCEPT !.ips = over[u]]
<1>1. PICK a \in Answers, rs \in AddRule(r) :
        /\ Answered(a) /\ rules' = IF a.done THEN rs ELSE rules
  BY DEF AddMissing
<1>2. ppc = "block" /\ UNCHANGED <<ppc, at, unlock, alive, proc>>
  BY DEF AddMissing
<1>3. xctx' \in BOOLEAN /\ (~xctx => xctx' = FALSE)
  BY <1>1, AnsweredFacts DEF IInv, Typed
<1>4. CASE rules' = rules
  <2>1. Typed' /\ Listed' /\ InOrder' /\ Known'
    BY <1>2, <1>3, <1>4 DEF IInv, Typed, Listed, InOrder, Known
  <2>2. \A i : Present(i)' <=> Present(i)
    BY <1>4 DEF Present, HasRule
  <2>3. LastLeft' <=> LastLeft
    BY <1>2, <2>2 DEF LastLeft
  <2>4. Whereabouts'
    BY <1>2, <1>3, <2>2, <2>3 DEF IInv, Whereabouts, Quiet
  <2> QED
    BY <2>1, <2>4 DEF IInv
<1>5. CASE rules' # rules
  <2>1. a.done /\ rules' = Append(rules, r) /\ alive /\ xctx
    <3>1. a.done /\ rules' = rs
      BY <1>1, <1>5
    <3>2. rs = Append(rules, r)
      BY <1>5, <3>1 DEF AddRule
    <3> QED
      BY <3>1, <3>2, AnswersFacts
  <2>2. r.kind = "limit"
    BY DEF LimitRule
  <2>3. LastLeft /\ \A i \in 1..unlock : ~Present(i)
    BY <1>2, <2>1 DEF IInv, Whereabouts, Typed
  <2> HIDE DEF r
  <2>4. /\ Listed'
        /\ \E n \in Nat : /\ DOMAIN rules = 1..n /\ DOMAIN rules' = 1..(n + 1)
                          /\ rules'[n + 1] = r /\ \A j \in 1..n : rules'[j] = rules[j]
        /\ \A k, x : HasRule(k, x)' <=> HasRule(k, x) \/ (r.kind = k /\ r.key = x)
    BY <2>1, Added DEF IInv
  <2>5. \A j \in DOMAIN rules : rules[j].kind # "unlock"
    BY <2>3 DEF IInv, Known, Present, HasRule
  <2>6. \A j \in DOMAIN rules' : rules'[j].kind # "unlock"
    BY <2>2, <2>4, <2>5
  <2>7. InOrder' /\ Known'
    BY <1>2, <2>1, <2>6 DEF IInv, InOrder, Known
  <2>8. \A i : Present(i)' <=> Present(i)
    BY <2>2, <2>4 DEF Present
  <2>9. LastLeft' /\ \A i \in 1..unlock : ~Present(i)'
    BY <1>2, <2>3, <2>8 DEF LastLeft
  <2>10. Whereabouts'
    BY <1>2, <2>9 DEF Whereabouts, Quiet
  <2> QED
    BY <1>2, <1>3, <2>4, <2>7, <2>10 DEF IInv, Typed
<1> QED
  BY <1>4, <1>5

LEMMA BlocksAddedKeeps == ASSUME IInv, BlocksAdded PROVE IInv'
<1>1. /\ ppc = "block" /\ UNCHANGED <<rules, unlock, alive, proc, xctx>>
      /\ ppc' = IF unlock = 0 THEN "close" ELSE "putback"
      /\ at' = IF unlock = 0 THEN 0 ELSE 1
  BY DEF BlocksAdded, coreVars, xrayVars
<1>2. unlock \in Nat
  BY UnlocksNat DEF IInv, Typed
<1>3. \A i : Present(i)' <=> Present(i)
  BY <1>1 DEF Present, HasRule
<1>4. Typed' /\ Listed' /\ InOrder' /\ Known'
  BY <1>1 DEF IInv, Typed, Listed, InOrder, Known
<1>5. CASE unlock = 0
  <2>1. 1..unlock = {} /\ ppc' = "close"
    BY <1>1, <1>5
  <2> QED
    BY <1>1, <1>4, <2>1 DEF IInv, Whereabouts, Quiet
<1>6. CASE unlock # 0
  <2>1. ppc' = "putback" /\ at' = 1 /\ 1 \in 1..unlock /\ \A i \in 1..unlock : ~(i < 1)
    BY <1>1, <1>2, <1>6
  <2>2. alive => LastLeft
    BY <1>1 DEF IInv, Whereabouts
  <2>3. alive => \A i \in 1..unlock : Present(i)' => \A k \in i..unlock : Present(k)'
    BY <1>3, <2>2 DEF LastLeft
  <2> QED
    BY <1>1, <1>4, <2>1, <2>3 DEF IInv, Whereabouts, Quiet
<1> QED
  BY <1>5, <1>6

\* If putting one back stops, it and those after it were never taken out.
LEMMA PutBackKeeps == ASSUME IInv, PutBack PROVE IInv'
<1>1. PICK rs \in IF alive THEN AddRule(UnlockRule(at)) ELSE {rules} :
        /\ rules' = rs
        /\ IF rs # rules /\ at < unlock THEN at' = at + 1 /\ ppc' = ppc ELSE at' = 0 /\ ppc' = "close"
  BY DEF PutBack
<1>2. ppc = "putback" /\ UNCHANGED <<unlock, alive, proc, xctx>>
  BY DEF PutBack, coreVars
<1>3. Typed'
  BY <1>2 DEF IInv, Typed
<1>4. CASE ~alive
  <2>1. UNCHANGED rules
    BY <1>1, <1>4
  <2> QED
    BY <1>2, <1>3, <1>4, <2>1 DEF IInv, Listed, InOrder, Known, Whereabouts
<1>5. CASE alive
  <2>1. /\ at \in 1..unlock /\ unlock \in Nat
        /\ \A i \in 1..unlock : i < at => Present(i)
        /\ \A i \in 1..unlock : at <= i /\ Present(i) => \A k \in i..unlock : Present(k)
    BY <1>2, <1>5, UnlocksNat DEF IInv, Whereabouts, Typed
  <2>2. CASE rules' = rules
    <3>1. Present(at)
      <4>1. HasRule(UnlockRule(at).kind, UnlockRule(at).key)
        <5>1. SUFFICES ASSUME ~HasRule(UnlockRule(at).kind, UnlockRule(at).key) PROVE FALSE
          OBVIOUS
        <5>2. rules' = Append(rules, UnlockRule(at))
          BY <1>1, <1>5, <5>1 DEF AddRule
        <5> QED
          BY <2>2, <5>2, Added DEF IInv
      <4>2. UnlockRule(at).kind = "unlock" /\ UnlockRule(at).key = at
        BY DEF UnlockRule
      <4> QED
        BY <4>1, <4>2 DEF Present
    <3>2. \A i \in 1..unlock : Present(i)
      <4> TAKE i \in 1..unlock
      <4>1. CASE i < at
        BY <2>1, <4>1
      <4>2. CASE ~(i < at)
        <5>1. i \in at..unlock /\ at <= at
          BY <2>1, <4>2
        <5> QED
          BY <2>1, <3>1, <5>1
      <4> QED
        BY <4>1, <4>2
    <3>3. ppc' = "close"
      BY <1>1, <2>2
    <3>4. \A i \in 1..unlock : Present(i)'
      BY <2>2, <3>2 DEF Present, HasRule
    <3> QED
      BY <1>2, <1>3, <2>2, <3>3, <3>4 DEF IInv, Listed, InOrder, Known, Whereabouts, Quiet
  <2>3. CASE rules' # rules
    <3> DEFINE r == UnlockRule(at)
    <3>1. rules' = Append(rules, r)
      BY <1>1, <1>5, <2>3 DEF AddRule
    <3>2. r.kind = "unlock" /\ r.key = at
      BY DEF UnlockRule
    <3> HIDE DEF r
    <3>3. /\ Listed'
          /\ \E n \in Nat : /\ DOMAIN rules = 1..n /\ DOMAIN rules' = 1..(n + 1)
                            /\ rules'[n + 1] = r /\ \A j \in 1..n : rules'[j] = rules[j]
          /\ \A k, x : HasRule(k, x)' <=> HasRule(k, x) \/ (r.kind = k /\ r.key = x)
      BY <3>1, Added DEF IInv
    <3>4. PICK n \in Nat : /\ DOMAIN rules = 1..n /\ DOMAIN rules' = 1..(n + 1)
                           /\ rules'[n + 1] = r /\ \A j \in 1..n : rules'[j] = rules[j]
      BY <3>3
    <3>5. InOrder'
      <4> SUFFICES ASSUME NEW j \in 1..(n + 1), NEW k \in 1..(n + 1),
                          rules'[j].kind = "unlock", rules'[k].kind = "limit"
                   PROVE  k < j
        BY <3>4 DEF InOrder
      <4>1. k # n + 1
        BY <3>2, <3>4
      <4>2. k \in 1..n
        BY <4>1
      <4>3. CASE j = n + 1
        BY <4>2, <4>3
      <4>4. CASE j # n + 1
        <5>1. j \in 1..n
          BY <4>4
        <5> QED
          BY <3>4, <4>2, <5>1 DEF IInv, InOrder
      <4> QED
        BY <4>3, <4>4
    <3>6. Known'
      <4>1. \A j \in DOMAIN rules' : rules'[j] = r \/ \E i \in DOMAIN rules : rules'[j] = rules[i]
        BY <3>4
      <4> QED
        BY <1>2, <1>5, <2>1, <3>2, <4>1 DEF IInv, Known
    <3>7. \A i : Present(i)' <=> Present(i) \/ i = at
      BY <3>2, <3>3 DEF Present
    <3>8. CASE at < unlock
      <4>1. at' = at + 1 /\ ppc' = "putback"
        BY <1>1, <1>2, <2>3, <3>8
      <4>2. at' \in 1..unlock
        BY <2>1, <3>8, <4>1
      <4>3. \A i \in 1..unlock : i < at' => Present(i)'
        BY <2>1, <3>7, <4>1
      <4>4. \A i \in 1..unlock : at' <= i /\ Present(i)' => \A k \in i..unlock : Present(k)'
        BY <2>1, <3>7, <4>1
      <4> QED
        BY <1>2, <1>3, <3>3, <3>5, <3>6, <4>1, <4>2, <4>3, <4>4 DEF IInv, Whereabouts, Quiet
    <3>9. CASE ~(at < unlock)
      <4>1. ppc' = "close"
        BY <1>1, <3>9
      <4>2. \A i \in 1..unlock : Present(i)'
        BY <2>1, <3>7, <3>9
      <4> QED
        BY <1>2, <1>3, <3>3, <3>5, <3>6, <4>1, <4>2 DEF IInv, Whereabouts, Quiet
    <3> QED
      BY <3>8, <3>9
  <2> QED
    BY <2>2, <2>3
<1> QED
  BY <1>4, <1>5

\* Whatever else happens leaves the rules alone, or is a process coming up or gone.
LEMMA InvariantHolds == IInv /\ [Next]_vars => IInv'
<1> SUFFICES ASSUME IInv, [Next]_vars PROVE IInv'
  OBVIOUS
<1>1. xctx \in BOOLEAN /\ (alive => proc)
  BY DEF IInv, Typed, Known
<1>2. CASE PollReads
  BY <1>1, <1>2, RulesStay DEF PollReads, coreVars, xrayVars, Quiet
<1>3. CASE PollEnforces
  <2>1. \E a : Answered(a)
    BY <1>3 DEF PollEnforces
  <2>2. xctx' \in BOOLEAN
    BY <1>1, <2>1, AnsweredFacts
  <2>3. /\ ppc = "sampled" /\ ppc' \in {"unblock", "close"}
        /\ UNCHANGED <<rules, unlock, alive, proc>>
    BY <1>3 DEF PollEnforces, coreVars, xrayVars
  <2> QED
    BY <1>1, <2>2, <2>3, RulesStay DEF Quiet
<1>4. CASE PollCloses
  BY <1>1, <1>4, RulesStay DEF PollCloses, Done, coreVars, xrayVars, Quiet
<1>5. CASE \E u \in Users : RemoveOutdated(u) \/ AddMissing(u)
  BY <1>5, RemoveOutdatedKeeps, AddMissingKeeps
<1>6. CASE \E u \in Users, n \in Limits, known \in BOOLEAN : setLimits(u, n, known)
  BY <1>1, <1>6, RulesStay DEF setLimits, pollVars, coreVars, xrayVars
<1>7. CASE forget
  BY <1>1, <1>7, RulesStay DEF forget, pollVars, coreVars, xrayVars
<1>8. CASE \E n \in Unlocks : XrayStarts(n)
  <2>1. PICK n \in Unlocks : XrayStarts(n)
    BY <1>8
  <2>2. Quiet' /\ xctx' \in BOOLEAN
    BY <1>1, <2>1 DEF XrayStarts, SettingBlocks, pollVars, Quiet
  <2>3. unlock' = n /\ alive' = TRUE /\ proc' = TRUE /\ rules' = [i \in 1..n |-> UnlockRule(i)]
    BY <2>1 DEF XrayStarts, StartLocked
  <2> QED
    BY <2>2, <2>3, Fresh
<1>9. CASE XrayStops
  BY <1>1, <1>9, Without DEF XrayStops, pollVars
<1>10. CASE XrayExits
  BY <1>1, <1>10, Without DEF XrayExits, pollVars, coreVars
<1>11. CASE Supervise
  BY <1>1, <1>11, RulesStay DEF Supervise, pollVars, xrayVars
<1>12. CASE \E c \in Cores, u \in Users, i \in Addrs : Connects(c, u, i) \/ Leaves(c, u, i)
  <2>1. UNCHANGED <<rules, unlock, alive, proc, ppc, at, xctx>>
    BY <1>12 DEF Connects, Leaves, pollVars, coreVars, xrayVars
  <2> QED
    BY <1>1, <2>1, RulesStay
<1>13. CASE Drop
  <2>1. UNCHANGED <<rules, unlock, alive, proc, ppc, at>> /\ xctx' = (ppc = "idle")
    BY <1>13 DEF Drop, coreVars, xrayVars
  <2>2. CASE ppc = "idle"
    BY <1>1, <2>1, <2>2, RulesStay DEF Quiet
  <2>3. CASE ppc # "idle"
    BY <1>1, <2>1, <2>3, RulesStay
  <2> QED
    BY <2>2, <2>3
<1>14. CASE Connect
  BY <1>1, <1>14, RulesStay DEF Connect, pollVars, coreVars, xrayVars
<1>15. CASE Tick
  BY <1>1, <1>15, RulesStay DEF Tick, pollVars, coreVars, xrayVars
<1>16. CASE UNCHANGED vars
  BY <1>1, <1>16, RulesStay DEF vars, pollVars, coreVars, xrayVars
<1> QED
  BY <1>2, <1>3, <1>4, <1>5, <1>6, <1>7, <1>8, <1>9, <1>10, <1>11, <1>12, <1>13, <1>14,
     <1>15, <1>16, DecideAddingKeeps, TakeOutKeeps, BlocksAddedKeeps, PutBackKeeps DEF Next, Poll

LEMMA InvariantStarts == Init => IInv
<1> SUFFICES ASSUME Init PROVE IInv
  OBVIOUS
<1>1. /\ unlock \in Unlocks /\ unlock \in Nat /\ alive = TRUE /\ proc = TRUE /\ xctx = TRUE
      /\ ppc = "idle" /\ rules = [i \in 1..unlock |-> UnlockRule(i)]
  BY UnlocksNat DEF Init
<1>2. DOMAIN rules = 1..unlock /\ \A i \in 1..unlock : rules[i].kind = "unlock" /\ rules[i].key = i
  BY <1>1 DEF UnlockRule
<1>3. Listed
  <2>1. rules = [i \in 1..unlock |-> rules[i]]
    BY <1>1, <1>2
  <2> QED
    BY <1>1, <2>1, Zenon DEF Listed
<1>4. \A i \in 1..unlock : Present(i)
  BY <1>2 DEF Present, HasRule
<1> QED
  BY <1>1, <1>2, <1>3, <1>4 DEF IInv, Typed, InOrder, Known, Whereabouts, Quiet

LEMMA InvariantAlways == Spec => []IInv
  BY InvariantStarts, InvariantHolds, PTL DEF Spec

\* No limit rule ever stands behind an unlock rule, and when no poll is moving
\* rules every unlock rule of the running process is there: however often calls
\* fail, deadlines pass (and the call is carried out or not), sessions end and
\* Xray exits or is replaced (xray.go, setBlocks, removeUnlockRules,
\* addUnlockRules, startLocked).
THEOREM RulesKeepStanding == Spec => []RulesStand
<1>1. IInv => RulesStand
  BY DEF IInv, InOrder, Whereabouts, Present, Quiet, SettingBlocks, RulesStand
<1> QED
  BY <1>1, InvariantAlways, PTL

-----------------------------------------------------------------------------
(* Places of addresses *)

\* An address is remembered once.
Distinct(slots) == \A j, k \in DOMAIN slots : slots[j].ip = slots[k].ip => j = k

\* Sequences made from functions, and joined.
LEMMA Listing ==
  ASSUME NEW S, NEW n \in Nat, NEW f \in [1..n -> S]
  PROVE  f \in Seq(S) /\ Len(f) = n
OBVIOUS

LEMMA Joined ==
  ASSUME NEW S, NEW a \in Seq(S), NEW b \in Seq(S)
  PROVE  /\ a \o b \in Seq(S) /\ Len(a \o b) = Len(a) + Len(b)
         /\ \A k \in 1..Len(a) : (a \o b)[k] = a[k]
         /\ \A k \in 1..Len(a) + Len(b) : k > Len(a) => (a \o b)[k] = b[k - Len(a)] /\ k - Len(a) \in 1..Len(b)
OBVIOUS

\* A slot whose address is seen now.
LEMMA SeenNow ==
  ASSUME NEW x \in Slot
  PROVE  /\ [x EXCEPT !.age = 0] \in Slot
         /\ [x EXCEPT !.age = 0].ip = x.ip /\ [x EXCEPT !.age = 0].age <= x.age
         /\ x.age <= x.age
<1>1. PICK a \in Addrs, g \in 0..(Grace + 1) : x = [ip |-> a, age |-> g]
  BY DEF Slot
<1>2. [x EXCEPT !.age = 0] = [ip |-> a, age |-> 0]
  BY <1>1
<1>3. 0 \in 0..(Grace + 1) /\ g \in Int /\ 0 <= g
  BY LimitAssumption
<1> QED
  BY <1>1, <1>2, <1>3 DEF Slot

\* Refreshing leaves everyone where they were, and none of them older.
LEMMA RefreshedFacts ==
  ASSUME NEW u \in Users, NEW live \in SUBSET Addrs, seen[u] \in Seq(Slot), Distinct(seen[u])
  PROVE  /\ Refreshed(u, live) \in Seq(Slot) /\ Distinct(Refreshed(u, live))
         /\ Len(seen[u]) <= Len(Refreshed(u, live))
         /\ \A k \in 1..Len(seen[u]) : /\ Refreshed(u, live)[k].ip = seen[u][k].ip
                                       /\ Refreshed(u, live)[k].age <= seen[u][k].age
<1> DEFINE s == seen[u]
           known == {s[j].ip : j \in DOMAIN s}
           fresh == live \ known
           o == Ordered(fresh)
           C == Cardinality(fresh)
           old == [j \in DOMAIN s |-> IF s[j].ip \in live THEN [s[j] EXCEPT !.age = 0] ELSE s[j]]
           new == [j \in DOMAIN o |-> [ip |-> o[j], age |-> 0]]
           R == Refreshed(u, live)
<1>1. R = old \o new
  BY DEF Refreshed
<1>2. fresh \in SUBSET Addrs /\ fresh \in SUBSET Nat /\ IsFiniteSet(fresh)
  BY LimitAssumption, FS_Subset
<1>3. /\ C \in Nat /\ o \in [1..C -> fresh]
      /\ \A i, j \in 1..C : o[i] = o[j] => i = j
  <2> HIDE DEF fresh
  <2>1. /\ C \in Nat /\ o \in [1..C -> fresh]
        /\ \A n \in 1..C : Cardinality({k \in fresh : k <= o[n]}) = n
    BY <1>2, OrderedFacts
  <2> HIDE DEF o, C
  <2> QED
    BY <2>1
<1> HIDE DEF o, C
<1>4. s \in Seq(Slot) /\ DOMAIN s = 1..Len(s) /\ Len(s) \in Nat
  OBVIOUS
<1>5. \A j \in 1..Len(s) : s[j] \in Slot
  BY <1>4
<1>6. /\ \A j \in 1..Len(s) : old[j] \in Slot /\ old[j].ip = s[j].ip /\ old[j].age <= s[j].age
      /\ old \in Seq(Slot) /\ Len(old) = Len(s)
  <2>1. \A j \in 1..Len(s) : old[j] = IF s[j].ip \in live THEN [s[j] EXCEPT !.age = 0] ELSE s[j]
    BY <1>4
  <2>2. 0 \in 0..(Grace + 1)
    BY LimitAssumption
  <2>3. \A j \in 1..Len(s) : old[j] \in Slot /\ old[j].ip = s[j].ip /\ old[j].age <= s[j].age
    <3> TAKE j \in 1..Len(s)
    <3>1. s[j] \in Slot
      BY <1>5
    <3>2. CASE s[j].ip \in live
      <4>1. old[j] = [s[j] EXCEPT !.age = 0]
        BY <2>1, <3>2
      <4> QED
        BY <3>1, <4>1, SeenNow
    <3>3. CASE s[j].ip \notin live
      <4>1. old[j] = s[j]
        BY <2>1, <3>3
      <4> QED
        BY <3>1, <4>1, SeenNow
    <3> QED
      BY <3>2, <3>3
  <2>4. old \in [1..Len(s) -> Slot]
    BY <1>4, <2>3
  <2> HIDE DEF old
  <2> QED
    BY <1>4, <2>3, <2>4, Listing
<1>7. /\ \A j \in 1..C : new[j].ip = o[j] /\ o[j] \in fresh
      /\ new \in Seq(Slot) /\ Len(new) = C
  <2>1. DOMAIN o = 1..C
    BY <1>3
  <2>2. \A j \in 1..C : new[j] = [ip |-> o[j], age |-> 0] /\ o[j] \in fresh
    BY <1>3, <2>1
  <2>3. \A j \in 1..C : new[j] \in Slot
    <3> TAKE j \in 1..C
    <3>1. new[j] = [ip |-> o[j], age |-> 0] /\ o[j] \in Addrs
      BY <1>2, <2>2
    <3>2. 0 \in 0..(Grace + 1)
      BY LimitAssumption
    <3> HIDE DEF new
    <3> QED
      BY <3>1, <3>2 DEF Slot
  <2>4. new \in [1..C -> Slot]
    BY <2>1, <2>3
  <2>5. \A j \in 1..C : new[j].ip = o[j]
    <3> TAKE j \in 1..C
    <3>1. new[j] = [ip |-> o[j], age |-> 0]
      BY <2>2
    <3> HIDE DEF new
    <3> QED
      BY <3>1
  <2> HIDE DEF new
  <2> QED
    BY <1>3, <2>2, <2>4, <2>5, Listing
<1> HIDE DEF old, new
<1>8. R \in Seq(Slot) /\ Len(R) = Len(s) + C
  <2> HIDE DEF s, R
  <2>1. old \in Seq(Slot) /\ new \in Seq(Slot) /\ Len(old) = Len(s) /\ Len(new) = C
    BY <1>6, <1>7
  <2>2. old \o new \in Seq(Slot) /\ Len(old \o new) = Len(old) + Len(new)
    BY <2>1, Joined
  <2> QED
    BY <1>1, <2>1, <2>2
<1>9. /\ \A k \in 1..Len(s) : R[k] = old[k]
      /\ \A k \in 1..(Len(s) + C) : k > Len(s) => R[k] = new[k - Len(s)] /\ k - Len(s) \in 1..C
  <2> HIDE DEF s, R
  <2> QED
    BY <1>1, <1>6, <1>7, Joined
<1>10. ASSUME NEW j \in 1..(Len(s) + C), NEW k \in 1..(Len(s) + C), R[j].ip = R[k].ip PROVE j = k
  <2>1. \A x \in 1..Len(s) : s[x].ip \in known
    BY <1>4
  <2>2. \A x \in fresh : x \notin known
    OBVIOUS
  <2> HIDE DEF fresh, known
  <2>3. CASE j <= Len(s) /\ k <= Len(s)
    <3>1. j \in 1..Len(s) /\ k \in 1..Len(s)
      BY <1>4, <2>3
    <3>2. s[j].ip = s[k].ip
      BY <1>6, <1>9, <1>10, <3>1
    <3> QED
      BY <1>4, <3>1, <3>2 DEF Distinct
  <2>4. CASE j <= Len(s) /\ k > Len(s)
    <3>1. j \in 1..Len(s) /\ k - Len(s) \in 1..C
      BY <1>4, <1>9, <2>4
    <3>2. R[j].ip \in known
      BY <1>6, <1>9, <2>1, <3>1
    <3>3. R[k].ip \in fresh
      BY <1>7, <1>9, <2>4, <3>1
    <3> QED
      BY <1>10, <2>2, <3>2, <3>3
  <2>5. CASE j > Len(s) /\ k <= Len(s)
    <3>1. k \in 1..Len(s) /\ j - Len(s) \in 1..C
      BY <1>4, <1>9, <2>5
    <3>2. R[k].ip \in known
      BY <1>6, <1>9, <2>1, <3>1
    <3>3. R[j].ip \in fresh
      BY <1>7, <1>9, <2>5, <3>1
    <3> QED
      BY <1>10, <2>2, <3>2, <3>3
  <2>6. CASE j > Len(s) /\ k > Len(s)
    <3>1. j - Len(s) \in 1..C /\ k - Len(s) \in 1..C
      BY <1>9, <2>6
    <3>2. o[j - Len(s)] = o[k - Len(s)]
      BY <1>7, <1>9, <1>10, <2>6, <3>1
    <3>3. j - Len(s) = k - Len(s)
      BY <1>3, <3>1, <3>2
    <3> QED
      BY <1>3, <1>4, <3>3
  <2> QED
    BY <1>3, <1>4, <2>3, <2>4, <2>5, <2>6
<1>11. Distinct(R)
  BY <1>8, <1>10 DEF Distinct
<1> HIDE DEF R
<1> QED
  BY <1>3, <1>4, <1>6, <1>8, <1>9, <1>11 DEF R

\* Dropping lets those that stay move up.
LEMMA DroppedFacts ==
  ASSUME NEW slots \in Seq(Slot), Distinct(slots)
  PROVE  /\ Dropped(slots) \in Seq(Slot) /\ Distinct(Dropped(slots))
         /\ \A k \in 1..Len(slots) : slots[k].age <= Grace =>
              \E p \in 1..Len(Dropped(slots)) : p <= k /\ Dropped(slots)[p] = slots[k]
<1> DEFINE K == {j \in DOMAIN slots : slots[j].age <= Grace}
           C == Cardinality(K)
           o == Ordered(K)
           D == Dropped(slots)
<1>1. D = [n \in 1..C |-> slots[o[n]]]
  BY DEF Dropped, Those
<1>2. DOMAIN slots = 1..Len(slots) /\ Len(slots) \in Nat
  OBVIOUS
<1>3. K \in SUBSET (1..Len(slots)) /\ K \in SUBSET Nat /\ IsFiniteSet(K)
  <2>1. K \in SUBSET (1..Len(slots)) /\ IsFiniteSet(1..Len(slots))
    BY <1>2, FS_Interval
  <2> QED
    BY <1>2, <2>1, FS_Subset
<1>4. \A k \in 1..Len(slots) : slots[k].age <= Grace => k \in K
  BY <1>2
<1> HIDE DEF K
<1>5. /\ C \in Nat /\ o \in [1..C -> K]
      /\ \A n \in 1..C : Cardinality({k \in K : k <= o[n]}) = n
      /\ \A j \in K : \E n \in 1..C : o[n] = j
  BY <1>3, OrderedFacts
<1> HIDE DEF C, o, D
<1>6. \A n \in 1..C : D[n] = slots[o[n]] /\ o[n] \in 1..Len(slots)
  BY <1>1, <1>3, <1>5
<1>7. D \in Seq(Slot) /\ Len(D) = C
  <2>1. \A n \in 1..C : slots[o[n]] \in Slot
    BY <1>6
  <2>2. D \in [1..C -> Slot]
    BY <1>1, <2>1
  <2> QED
    BY <1>5, <2>2
<1>8. Distinct(D)
  <2> SUFFICES ASSUME NEW j \in 1..C, NEW k \in 1..C, D[j].ip = D[k].ip PROVE j = k
    BY <1>1 DEF Distinct
  <2>1. o[j] = o[k]
    BY <1>2, <1>6 DEF Distinct
  <2> QED
    BY <1>5, <2>1
<1>9. ASSUME NEW k \in 1..Len(slots), slots[k].age <= Grace
      PROVE  \E p \in 1..C : p <= k /\ D[p] = slots[k]
  <2>1. PICK p \in 1..C : o[p] = k
    BY <1>4, <1>5, <1>9
  <2>2. Cardinality({i \in K : i <= k}) = p
    BY <1>5, <2>1
  <2>3. IsFiniteSet(1..k) /\ Cardinality(1..k) = k
    BY <1>2, FS_Interval
  <2>4. {i \in K : i <= k} \in SUBSET (1..k)
    <3>1. \A i \in K : i \in Nat /\ i >= 1
      BY <1>2, <1>3
    <3>2. k \in Nat
      BY <1>2
    <3> QED
      BY <3>1, <3>2
  <2>5. Cardinality({i \in K : i <= k}) <= Cardinality(1..k)
    BY <2>3, <2>4, FS_Subset
  <2> QED
    BY <1>6, <2>1, <2>2, <2>3, <2>5
<1> QED
  BY <1>7, <1>8, <1>9 DEF D

\* What the places rest on: who is remembered is remembered once, and what is
\* read of the cores are addresses.
Remembered == \A u \in Users : seen[u] \in Seq(Slot) /\ Distinct(seen[u])

PInv ==
  /\ limits \in [Users -> Nat]
  /\ open \in [Cores -> [Users -> SUBSET Addrs]]
  /\ sampled \in [Users -> SUBSET Addrs]
  /\ Remembered

\* The verdict spares those that have a place, whoever else is live.
LEMMA Enforced ==
  ASSUME PInv, NEW live \in [Users -> SUBSET Addrs], enforce(live)
  PROVE  Remembered' /\ \A u \in Users : Holders(u) \cap over'[u] = {}
<1>1. PICK refreshed \in {[u \in Users |-> Refreshed(u, live[u])]} :
        /\ seen' = [u \in Users |-> Dropped(refreshed[u])]
        /\ over' = [u \in Users |-> Beyond(seen'[u], limits[u])]
  BY DEF enforce
<1>2. ASSUME NEW u \in Users
      PROVE  seen'[u] \in Seq(Slot) /\ Distinct(seen'[u]) /\ Holders(u) \cap over'[u] = {}
  <2> DEFINE R == Refreshed(u, live[u])
             D == Dropped(R)
             n == limits[u]
  <2>1. seen'[u] = D /\ over'[u] = Beyond(D, n)
    BY <1>1
  <2>2. live[u] \in SUBSET Addrs /\ n \in Nat /\ seen[u] \in Seq(Slot) /\ Distinct(seen[u])
    BY DEF PInv, Remembered
  <2>3. /\ R \in Seq(Slot) /\ Distinct(R)
        /\ Len(seen[u]) <= Len(R)
        /\ \A k \in 1..Len(seen[u]) : R[k].ip = seen[u][k].ip /\ R[k].age <= seen[u][k].age
    BY <2>2, RefreshedFacts
  <2> HIDE DEF R
  <2>4. /\ D \in Seq(Slot) /\ Distinct(D)
        /\ \A k \in 1..Len(R) : R[k].age <= Grace =>
             \E p \in 1..Len(D) : p <= k /\ D[p] = R[k]
    BY <2>3, DroppedFacts
  <2> HIDE DEF D, n
  <2>5. ASSUME NEW i \in Holders(u), i \in Beyond(D, n) PROVE FALSE
    <3>1. PICK k \in DOMAIN seen[u] : k \in 1..n /\ seen[u][k].age <= Grace /\ i = seen[u][k].ip
      BY DEF Holders, n
    <3>2. k \in 1..Len(seen[u]) /\ k \in 1..Len(R) /\ k \in Nat
      BY <2>2, <2>3, <3>1
    <3>3. R[k].ip = i /\ R[k].age <= Grace
      <4>1. R[k] \in Slot /\ seen[u][k] \in Slot
        BY <2>2, <2>3, <3>2
      <4>2. R[k].age \in Int /\ seen[u][k].age \in Int /\ Grace \in Int
        BY <4>1, LimitAssumption DEF Slot
      <4> QED
        BY <2>3, <3>1, <3>2, <4>2
    <3>4. PICK p \in 1..Len(D) : p <= k /\ D[p] = R[k]
      BY <2>4, <3>2, <3>3
    <3>5. PICK j \in (n + 1)..Len(D) : i = D[j].ip
      <4>1. n # 0
        BY <2>2, <3>1
      <4> QED
        BY <2>5, <4>1 DEF Beyond
    <3>6. j \in DOMAIN D /\ p \in DOMAIN D
      BY <2>2, <2>4
    <3>7. j = p
      BY <2>4, <3>3, <3>4, <3>5, <3>6 DEF Distinct
    <3> QED
      BY <2>2, <3>1, <3>2, <3>4, <3>7
  <2> QED
    BY <2>1, <2>4, <2>5
<1> QED
  BY <1>2 DEF Remembered, Distinct

\* The poll hears of addresses only.
LEMMA PollSpares ==
  ASSUME PInv, PollEnforces
  PROVE  PInv' /\ \A u \in Users : Holders(u) \cap over'[u] = {}
<1>1. PICK a \in IF proc THEN Answers ELSE {[ok |-> TRUE, done |-> TRUE, cost |-> 0]} :
        enforce([u \in Users |-> sampled[u] \cup (IF proc /\ a.ok THEN open["xray"][u] ELSE {})])
  BY Zenon DEF PollEnforces
<1> DEFINE live == [u \in Users |-> sampled[u] \cup (IF proc /\ a.ok THEN open["xray"][u] ELSE {})]
<1>2. live \in [Users -> SUBSET Addrs]
  BY DEF PInv, Cores
<1>3. Remembered' /\ \A u \in Users : Holders(u) \cap over'[u] = {}
  <2> HIDE DEF live
  <2>1. enforce(live)
    BY <1>1 DEF live
  <2> QED
    BY <1>2, <2>1, Enforced
<1>4. sampled' = Nobody /\ limits' = limits /\ open' = open
  BY DEF PollEnforces
<1> QED
  BY <1>3, <1>4 DEF PInv, Nobody

\* Time makes the remembered older, and no other.
LEMMA TickKeeps == ASSUME PInv, Tick PROVE PInv'
<1>1. ASSUME NEW u \in Users PROVE seen'[u] \in Seq(Slot) /\ Distinct(seen'[u])
  <2> DEFINE s == seen[u]
             t == [j \in DOMAIN s |-> [s[j] EXCEPT !.age = IF @ > Grace THEN @ ELSE @ + 1]]
  <2>1. seen'[u] = t
    BY DEF Tick
  <2>2. s \in Seq(Slot) /\ Distinct(s) /\ DOMAIN s = 1..Len(s) /\ Len(s) \in Nat
    BY DEF PInv, Remembered
  <2>3. ASSUME NEW j \in 1..Len(s) PROVE t[j] \in Slot /\ t[j].ip = s[j].ip
    <3>1. PICK b \in Addrs, g \in 0..(Grace + 1) : s[j] = [ip |-> b, age |-> g]
      <4>1. s[j] \in Slot
        BY <2>2
      <4> QED
        BY <4>1 DEF Slot
    <3>2. t[j] = [s[j] EXCEPT !.age = IF @ > Grace THEN @ ELSE @ + 1]
      BY <2>2
    <3> HIDE DEF s, t
    <3>3. t[j] = [ip |-> b, age |-> IF g > Grace THEN g ELSE g + 1]
      BY <3>1, <3>2
    <3>4. (IF g > Grace THEN g ELSE g + 1) \in 0..(Grace + 1)
      BY LimitAssumption
    <3> DEFINE h == IF g > Grace THEN g ELSE g + 1
    <3>5. t[j] = [ip |-> b, age |-> h] /\ h \in 0..(Grace + 1)
      BY <3>3, <3>4
    <3> HIDE DEF h
    <3> QED
      BY <3>1, <3>5 DEF Slot
  <2>4. DOMAIN t = 1..Len(s) /\ t = [j \in 1..Len(s) |-> t[j]]
    BY <2>2
  <2> HIDE DEF s, t
  <2>5. t \in [1..Len(s) -> Slot]
    BY <2>3, <2>4
  <2>6. t \in Seq(Slot)
    BY <2>2, <2>5, Listing
  <2>7. Distinct(t)
    BY <2>2, <2>3, <2>4 DEF Distinct
  <2> QED
    BY <2>1, <2>6, <2>7
<1> QED
  BY <1>1 DEF PInv, Remembered, Distinct, Tick, pollVars

\* The steps that decide nothing, in three kinds: those that leave alone what the
\* places rest on, those at the clients, and those at the limits.
Undecided == over' = over

LEMMA PInvStays ==
  ASSUME PInv, UNCHANGED <<limits, open, sampled, seen>>
  PROVE  PInv'
  BY DEF PInv, Remembered, Distinct

LEMMA ClientsKeep ==
  ASSUME PInv, NEW c \in Cores, NEW u \in Users, NEW i \in Addrs, Connects(c, u, i) \/ Leaves(c, u, i)
  PROVE  PInv' /\ Undecided
<1>1. open' \in [Cores -> [Users -> SUBSET Addrs]]
  <2>1. PICK left \in {open[c][u] \cup {i}, open[c][u] \ {i}} :
          open' = [open EXCEPT ![c] = [open[c] EXCEPT ![u] = left]]
    BY DEF Connects, Leaves
  <2>2. open[c] \in [Users -> SUBSET Addrs] /\ open[c][u] \in SUBSET Addrs
    BY DEF PInv
  <2>3. left \in SUBSET Addrs
    BY <2>1, <2>2
  <2>4. [open[c] EXCEPT ![u] = left] \in [Users -> SUBSET Addrs]
    BY <2>2, <2>3
  <2> QED
    BY <2>1, <2>4 DEF PInv
<1>2. UNCHANGED <<limits, sampled, seen, over>>
  BY DEF Connects, Leaves, limiterVars, pollVars
<1> QED
  BY <1>1, <1>2 DEF PInv, Remembered, Distinct, Undecided

\* A core's connections are gone, all of them or those the poll closes.
LEMMA ClosedKeep ==
  ASSUME PInv, UNCHANGED <<limits, sampled, seen, over>>,
         NEW c \in Cores, NEW left \in [Users -> SUBSET Addrs], open' = [open EXCEPT ![c] = left]
  PROVE  PInv' /\ Undecided
<1>1. open' \in [Cores -> [Users -> SUBSET Addrs]]
  BY DEF PInv
<1> QED
  BY <1>1 DEF PInv, Remembered, Distinct, Undecided

LEMMA PlacesKeep ==
  ASSUME PInv, [Next]_vars
  PROVE  PInv' /\ (Undecided \/ \A u \in Users : Holders(u) \cap over'[u] = {})
<1> USE DEF Undecided
<1>1. CASE PollReads
  BY <1>1 DEF PollReads, PInv, Remembered, Distinct, Cores, limiterVars
<1>2. CASE PollEnforces
  BY <1>2, PollSpares
<1>3. CASE PollCloses
  <2>1. UNCHANGED <<limits, seen, over>> /\ sampled' = Nobody
    BY <1>3 DEF PollCloses, Done, limiterVars
  <2>2. open' = [open EXCEPT !["sing-box"] = [u \in Users |-> open["sing-box"][u] \ toClose[u]]]
    BY <1>3 DEF PollCloses
  <2>3. open' \in [Cores -> [Users -> SUBSET Addrs]]
    BY <2>2 DEF PInv, Cores
  <2> QED
    BY <2>1, <2>3 DEF PInv, Remembered, Distinct, Nobody
<1>4. CASE DecideAdding
  BY <1>4, PInvStays DEF DecideAdding, limiterVars
<1>5. CASE TakeOut
  BY <1>5, PInvStays DEF TakeOut, limiterVars
<1>6. CASE BlocksAdded
  BY <1>6, PInvStays DEF BlocksAdded, limiterVars
<1>7. CASE PutBack
  BY <1>7, PInvStays DEF PutBack, limiterVars
<1>8. ASSUME NEW u \in Users, RemoveOutdated(u) \/ AddMissing(u)
      PROVE  PInv' /\ Undecided
  BY <1>8, PInvStays DEF RemoveOutdated, AddMissing, limiterVars
<1>9. ASSUME NEW u \in Users, NEW n \in Limits, NEW known \in BOOLEAN, setLimits(u, n, known)
      PROVE  PInv' /\ Undecided
  <2>1. n \in Nat
    BY LimitAssumption
  <2> QED
    BY <1>9, <2>1 DEF setLimits, PInv, Remembered, Distinct, pollVars
<1>10. CASE forget
  <2>1. UNCHANGED <<limits, open, sampled, over>>
    BY <1>10 DEF forget, pollVars
  <2>2. ASSUME NEW u \in Users PROVE seen'[u] \in Seq(Slot) /\ Distinct(seen'[u])
    <3>1. seen'[u] = IF u \in forgetting THEN <<>> ELSE seen[u]
      BY <1>10 DEF forget
    <3>2. <<>> \in Seq(Slot) /\ Distinct(<<>>)
      BY DEF Distinct
    <3> QED
      BY <3>1, <3>2 DEF PInv, Remembered
  <2> QED
    BY <2>1, <2>2 DEF PInv, Remembered, Distinct
<1>11. ASSUME NEW n \in Unlocks, XrayStarts(n) PROVE PInv' /\ Undecided
  <2>1. Nobody \in [Users -> SUBSET Addrs] /\ "xray" \in Cores
    BY DEF Nobody, Cores
  <2> QED
    BY <1>11, <2>1, ClosedKeep DEF XrayStarts, limiterVars, pollVars
<1>12. CASE XrayStops \/ XrayExits
  <2>1. Nobody \in [Users -> SUBSET Addrs] /\ "xray" \in Cores
    BY DEF Nobody, Cores
  <2> QED
    BY <1>12, <2>1, ClosedKeep DEF XrayStops, XrayExits, limiterVars, pollVars
<1>13. CASE Supervise \/ Drop \/ Connect
  BY <1>13, PInvStays DEF Supervise, Drop, Connect, limiterVars, pollVars
<1>14. ASSUME NEW c \in Cores, NEW u \in Users, NEW i \in Addrs, Connects(c, u, i) \/ Leaves(c, u, i)
       PROVE  PInv' /\ Undecided
  BY <1>14, ClientsKeep
<1>15. CASE Tick
  BY <1>15, TickKeeps DEF Tick
<1>16. CASE UNCHANGED vars
  BY <1>16, PInvStays DEF vars, limiterVars, pollVars
<1> QED
  BY <1>1, <1>2, <1>3, <1>4, <1>5, <1>6, <1>7, <1>8, <1>9, <1>10, <1>11, <1>12, <1>13, <1>14,
     <1>15, <1>16 DEF Next, Poll

LEMMA PlacesStart == Init => PInv
<1> SUFFICES ASSUME Init PROVE PInv
  OBVIOUS
<1>1. limits \in [Users -> Nat]
  BY LimitAssumption DEF Init
<1>2. ASSUME NEW u \in Users PROVE seen[u] \in Seq(Slot) /\ Distinct(seen[u])
  BY DEF Init, Distinct
<1> QED
  BY <1>1, <1>2 DEF Init, PInv, Remembered, Nobody, Cores

\* Whoever has a place keeps it: an address among the first its user's limit
\* allows, and seen within the grace period, is never newly found over the limit,
\* whoever else connects, whichever core answers, and whatever was forgotten in
\* between (iplimit.go, enforce).
THEOREM PlacesKept == Spec => KeepsPlace
<1> DEFINE Kept == \A u \in Users : Holders(u) \cap over'[u] \subseteq over[u]
<1>1. PInv /\ [Next]_vars => PInv' /\ Kept
  BY PlacesKeep DEF Undecided
<1>2. Kept => [Kept]_vars
  OBVIOUS
<1> QED
  BY <1>1, PlacesStart, PTL DEF Spec, KeepsPlace

=============================================================================
