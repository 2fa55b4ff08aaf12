------------------------- MODULE NodeConfigsProofs -------------------------
(***************************************************************************)
(* What nodes are made to serve, for any nodes, addresses, names, ports,   *)
(* hop ranges and bounds.                                                  *)
(*                                                                         *)
(* IInv is about the rows: no two inbounds share an identifier or a tag,   *)
(* none is left without its node or its relay, and an exit names a node    *)
(* there has been.  Tags are kept apart by FreeNumber, which finds a       *)
(* number not taken (FreeNumberFacts, from the counting in Below).         *)
(*                                                                         *)
(* SameConfig says what a configuration depends on: as far as one node     *)
(* sees them, inbounds, the nodes it relays for and exits are what they    *)
(* were.  For each call there is then a lemma (...Untold) that this is so  *)
(* for every node the call does not tell.                                  *)
(***************************************************************************)
EXTENDS NodeConfigs, FiniteSetTheorems, WellFoundedInduction, TLAPS

-----------------------------------------------------------------------------
(* Numbers that are free *)

\* Every set of numbers has a least element.
LEMMA Least ==
  ASSUME NEW T \in SUBSET Nat, T # {}
  PROVE  \E x \in T : \A y \in T : x <= y
<1> DEFINE R == OpToRel(<, Nat)
<1>1. IsWellFoundedOn(R, Nat)
  BY NatLessThanWellFounded
<1>2. \A x, y \in Nat : <<x, y>> \in R <=> x < y
  BY DEF OpToRel
<1> HIDE DEF R
<1>3. PICK x \in T : \A y \in T : ~(<<y, x>> \in R)
  BY <1>1, WFMin
<1>4. ASSUME NEW y \in T PROVE x <= y
  <2>1. x \in Nat /\ y \in Nat /\ ~(<<y, x>> \in R)
    BY <1>3
  <2>2. ~(y < x)
    BY <1>2, <2>1
  <2> QED
    BY <2>1, <2>2
<1> QED
  BY <1>4

\* More elements of a finite set of numbers are below the larger of two of them.
LEMMA Below ==
  ASSUME NEW S \in SUBSET Nat, IsFiniteSet(S), NEW i \in S, NEW j \in Nat, i < j
  PROVE  LET below(n) == {k \in S : k < n} IN
         /\ Cardinality(below(i)) \in Nat /\ Cardinality(below(j)) \in Nat
         /\ Cardinality(below(i)) < Cardinality(below(j))
         /\ Cardinality(below(j)) <= Cardinality(S)
<1> DEFINE below(n) == {k \in S : k < n}
<1>1. below(i) \in SUBSET S /\ below(j) \in SUBSET S
  OBVIOUS
<1>2. IsFiniteSet(below(i)) /\ IsFiniteSet(below(j)) /\ Cardinality(below(j)) <= Cardinality(S)
  BY <1>1, FS_Subset
<1>3. below(i) \in SUBSET below(j)
  <2>1. \A k \in below(i) : k \in below(j)
    <3> SUFFICES ASSUME NEW k \in S, k < i PROVE k < j
      OBVIOUS
    <3> QED
      OBVIOUS
  <2> QED
    BY <2>1
<1>4. i \in below(j) /\ i \notin below(i)
  OBVIOUS
<1>5. Cardinality(below(i)) <= Cardinality(below(j)) /\ Cardinality(below(i)) # Cardinality(below(j))
  BY <1>2, <1>3, <1>4, FS_Subset
<1>6. Cardinality(below(i)) \in Nat /\ Cardinality(below(j)) \in Nat
  BY <1>2, FS_CardinalityType
<1> QED
  BY <1>2, <1>5, <1>6

\* The one with the most elements below it is the largest.
LEMMA MaxFacts ==
  ASSUME NEW S \in SUBSET Nat, IsFiniteSet(S), S # {}
  PROVE  Max(S) \in S /\ \A y \in S : Max(S) >= y
<1> DEFINE below(n) == {k \in S : k < n}
           C == Cardinality(S)
           T == {n \in Nat : \E i \in S : n = C - Cardinality(below(i))}
<1>1. C \in Nat
  BY FS_CardinalityType
<1>2. \A i \in S : Cardinality(below(i)) \in Nat /\ Cardinality(below(i)) <= C
  <2> TAKE i \in S
  <2>1. below(i) \in SUBSET S
    OBVIOUS
  <2>2. IsFiniteSet(below(i)) /\ Cardinality(below(i)) <= C
    BY <2>1, FS_Subset
  <2> QED
    BY <2>2, FS_CardinalityType
<1>3. \A i, j \in S : i < j => Cardinality(below(i)) < Cardinality(below(j))
  BY Below
<1> HIDE DEF below, C
<1>4. T # {} /\ T \in SUBSET Nat
  <2>1. PICK i \in S : TRUE
    OBVIOUS
  <2>2. C - Cardinality(below(i)) \in Nat
    BY <1>1, <1>2
  <2> QED
    BY <2>2
<1>5. PICK n \in T : \A y \in T : n <= y
  BY <1>4, Least
<1>6. PICK i \in S : n = C - Cardinality(below(i))
  OBVIOUS
<1>7. \A j \in S : i >= j
  <2> SUFFICES ASSUME NEW j \in S, i < j PROVE FALSE
    OBVIOUS
  <2>1. Cardinality(below(i)) < Cardinality(below(j))
    BY <1>3
  <2>2. C - Cardinality(below(j)) \in T
    BY <1>1, <1>2
  <2> QED
    BY <1>1, <1>2, <1>5, <1>6, <2>1, <2>2
<1> QED
  BY <1>7 DEF Max

LEMMA MaxAbove ==
  ASSUME NEW S \in SUBSET Nat, IsFiniteSet(S)
  PROVE  1 + Max(S \cup {0}) \in Nat \ {0} /\ 1 + Max(S \cup {0}) \notin S
<1>1. IsFiniteSet(S \cup {0}) /\ S \cup {0} \in SUBSET Nat
  BY FS_AddElement
<1> DEFINE T == S \cup {0}
           m == Max(T)
<1>2. m \in T /\ \A y \in T : m >= y
  <2> HIDE DEF T
  <2> QED
    BY <1>1, MaxFacts DEF T
<1> HIDE DEF m
<1>3. m \in Nat /\ \A y \in S : y \in Nat /\ m >= y
  BY <1>2
<1>4. 1 + m \in Nat \ {0} /\ 1 + m \notin S
  BY <1>3
<1> QED
  BY <1>4 DEF m

\* There is an n-th number outside a finite set, within reach of FreeNumber.
LEMMA FreeNumberFacts ==
  ASSUME NEW S, IsFiniteSet(S), NEW n \in Nat \ {0}
  PROVE  /\ FreeNumber(S, n) \in Nat \ {0} /\ FreeNumber(S, n) \notin S
         /\ Cardinality((1..FreeNumber(S, n)) \ S) = n
<1> DEFINE upto(k) == (1..k) \ S
           N == Cardinality(S) + n
           T == {k \in Nat : Cardinality(upto(k)) >= n}
<1>1. Cardinality(S) \in Nat /\ N \in Nat
  BY FS_CardinalityType
<1>2. \A k \in Nat : IsFiniteSet(1..k) /\ Cardinality(1..k) = k
  BY FS_Interval
<1>3. \A k \in Nat : IsFiniteSet(upto(k)) /\ Cardinality(upto(k)) \in Nat
  <2> TAKE k \in Nat
  <2>1. upto(k) \in SUBSET (1..k)
    OBVIOUS
  <2>2. IsFiniteSet(upto(k))
    BY <1>2, <2>1, FS_Subset
  <2> QED
    BY <2>2, FS_CardinalityType
<1>4. N \in T
  <2>1. Cardinality((1..N) \ S) = Cardinality(1..N) - Cardinality((1..N) \cap S)
    BY <1>1, <1>2, FS_Difference
  <2>2. (1..N) \cap S \in SUBSET S
    OBVIOUS
  <2>3. IsFiniteSet((1..N) \cap S) /\ Cardinality((1..N) \cap S) <= Cardinality(S)
    BY <2>2, FS_Subset
  <2>4. Cardinality((1..N) \cap S) \in Nat
    BY <2>3, FS_CardinalityType
  <2> QED
    BY <1>1, <1>2, <2>1, <2>3, <2>4
<1>5. PICK k \in T : \A y \in T : k <= y
  <2>1. T \in SUBSET Nat /\ T # {}
    BY <1>4
  <2> QED
    BY <2>1, Least
<1>6. k \in Nat /\ Cardinality(upto(k)) >= n /\ k <= N
  BY <1>4, <1>5
<1>7. k # 0
  <2>1. 1..0 = {} /\ Cardinality({}) = 0
    BY FS_EmptySet
  <2>2. Cardinality(upto(0)) = 0
    BY <2>1
  <2> QED
    BY <1>6, <2>2
<1>8. k - 1 \in Nat /\ k - 1 \notin T
  BY <1>5, <1>6, <1>7
<1>9. Cardinality(upto(k - 1)) < n
  <2>1. Cardinality(upto(k - 1)) \in Nat /\ ~(Cardinality(upto(k - 1)) >= n)
    BY <1>3, <1>8
  <2> QED
    BY <2>1
<1>10. k \notin S
  <2> SUFFICES ASSUME k \in S PROVE FALSE
    OBVIOUS
  <2>1. upto(k) = upto(k - 1)
    BY <1>6, <1>7
  <2> QED
    BY <1>3, <1>6, <1>8, <1>9, <2>1
<1>11. Cardinality(upto(k)) = Cardinality(upto(k - 1)) + 1
  <2>1. upto(k) = upto(k - 1) \cup {k} /\ k \notin upto(k - 1)
    BY <1>6, <1>7, <1>10
  <2> QED
    BY <1>3, <1>8, <2>1, FS_AddElement
<1>12. k \in 1..(Cardinality(S) + n) /\ Cardinality((1..k) \ S) = n
  <2>1. Cardinality(upto(k - 1)) \in Nat
    BY <1>3, <1>8
  <2>2. Cardinality(upto(k)) = n
    BY <1>6, <1>9, <1>11, <2>1
  <2>3. k \in 1..N
    BY <1>1, <1>6, <1>7
  <2> QED
    BY <2>2, <2>3
<1> HIDE DEF upto, N, T
<1>13. \E x \in 1..(Cardinality(S) + n) : x \notin S /\ Cardinality((1..x) \ S) = n
  BY <1>10, <1>12
<1>14. /\ FreeNumber(S, n) \in 1..(Cardinality(S) + n)
       /\ FreeNumber(S, n) \notin S /\ Cardinality((1..FreeNumber(S, n)) \ S) = n
  BY <1>13 DEF FreeNumber
<1> QED
  BY <1>1, <1>14

-----------------------------------------------------------------------------
(* The rows *)

\* Every row is an inbound with an identifier and a tag of its own, and no
\* inbound is relayed by its own node.
Rows ==
  /\ inbounds \subseteq Inbound /\ IsFiniteSet(inbounds)
  /\ \A in, other \in inbounds : in # other => in.id # other.id /\ in.tag # other.tag
  /\ \A in \in inbounds : in.relay # in.node

Placed == \A in \in inbounds : in.node \in Existing /\ (in.relay # 0 => in.relay \in Existing)

Exits ==
  /\ exits \subseteq [id : Nat, kind : {"node", "proxy"}, node : NodeIds \cup {0}, port : Ports]
  /\ IsFiniteSet(exits)
  /\ \A e, other \in exits : e # other => e.id # other.id
  /\ \A e \in exits : IF e.kind = "node" THEN e.node \in NodeIds /\ status[e.node] # "new" ELSE e.node = 0

Nodes ==
  /\ status \in [NodeIds -> {"new", "on", "off", "gone"}]
  /\ addr \in [NodeIds -> Addrs] /\ name \in [NodeIds -> Names]
  /\ rules \in [NodeIds -> SUBSET Nat] /\ policy \in 0..1
  /\ connected \subseteq NodeIds /\ pending \subseteq NodeIds
  /\ \A n \in connected : status[n] # "new"
  /\ calls \in 0..MaxCalls /\ faults \in 0..MaxFaults

IInv == Nodes /\ Rows /\ Placed /\ Exits

LEMMA ImpliesTypeOK == IInv => TypeOK
  BY DEF IInv, Nodes, Rows, Placed, Exits, TypeOK

LEMMA ExistingFacts ==
  /\ Existing \subseteq NodeIds /\ IsFiniteSet(Existing) /\ 0 \notin NodeIds
  /\ NodeIds \subseteq Nat
<1>1. Existing \in SUBSET NodeIds
  BY DEF Existing
<1> QED
  BY <1>1, ConfigAssumption, FS_Subset

\* What one edit does to the rows: each is written again, or stays.
LEMMA Rewritten ==
  ASSUME Rows, NEW g \in [inbounds -> Inbound], inbounds' = {g[i] : i \in inbounds},
         \A i \in inbounds : g[i].id = i.id /\ g[i].relay # g[i].node,
         \A i, j \in inbounds : i # j => g[i].tag # g[j].tag
  PROVE  Rows'
<1>1. IsFiniteSet(inbounds')
  <2>1. g \in Surjection(inbounds, inbounds')
    BY DEF Surjection
  <2> QED
    BY <2>1, FS_Surjection DEF Rows
<1>2. inbounds' \subseteq Inbound /\ \A in \in inbounds' : in.relay # in.node
  OBVIOUS
<1>3. ASSUME NEW in \in inbounds', NEW other \in inbounds', in # other
      PROVE  in.id # other.id /\ in.tag # other.tag
  <2>1. PICK i \in inbounds, j \in inbounds : in = g[i] /\ other = g[j]
    OBVIOUS
  <2>2. i # j
    BY <1>3, <2>1
  <2> QED
    BY <2>1, <2>2 DEF Rows
<1> QED
  BY <1>1, <1>2, <1>3 DEF Rows

LEMMA OneWritten ==
  ASSUME Rows, NEW in \in inbounds, NEW new \in Inbound, inbounds' = (inbounds \ {in}) \cup {new},
         new.id = in.id, new.relay # new.node,
         \A other \in inbounds : other.id # in.id => other.tag # new.tag
  PROVE  Rows'
<1> DEFINE g == [i \in inbounds |-> IF i = in THEN new ELSE i]
<1>1. g \in [inbounds -> Inbound]
  BY DEF Rows
<1>2. inbounds' = {g[i] : i \in inbounds}
  OBVIOUS
<1>3. \A i \in inbounds : g[i].id = i.id /\ g[i].relay # g[i].node
  BY DEF Rows
<1>4. \A i, j \in inbounds : i # j => g[i].tag # g[j].tag
  BY DEF Rows
<1> QED
  BY <1>1, <1>2, <1>3, <1>4, Rewritten

LEMMA OneAdded ==
  ASSUME Rows, NEW new \in Inbound, inbounds' = inbounds \cup {new}, new.relay # new.node,
         \A other \in inbounds : other.id # new.id /\ other.tag # new.tag
  PROVE  Rows'
<1>1. IsFiniteSet(inbounds')
  BY FS_AddElement DEF Rows
<1> QED
  BY <1>1 DEF Rows

LEMMA SomeRemoved ==
  ASSUME Rows, inbounds' \subseteq inbounds
  PROVE  Rows'
<1>1. IsFiniteSet(inbounds')
  BY FS_Subset DEF Rows
<1> QED
  BY <1>1 DEF Rows

LEMMA NumbersFinite ==
  ASSUME NEW ins, IsFiniteSet(ins), NEW kind, NEW nm
  PROVE  IsFiniteSet(Numbers(ins, kind, nm))
<1> DEFINE S == {i \in ins : i.tag[1] = kind /\ i.tag[2] = nodeSlug(nm)}
           f == [i \in S |-> i.tag[3]]
<1>1. IsFiniteSet(S)
  BY FS_Subset
<1>2. f \in Surjection(S, Numbers(ins, kind, nm))
  BY DEF Surjection, Numbers
<1> QED
  BY <1>1, <1>2, FS_Surjection

LEMMA SlugNat == ASSUME NEW nm \in Names PROVE nodeSlug(nm) \in Nat
  BY ConfigAssumption DEF nodeSlug

\* A tag derived is not taken.
LEMMA Derived ==
  ASSUME Rows, NEW kind \in Kinds, NEW nm \in Names
  PROVE  /\ deriveInboundTag(kind, nm) \in (Kinds \cup {"hand"}) \X Nat \X Nat
         /\ \A in \in inbounds : in.tag # deriveInboundTag(kind, nm)
<1> DEFINE S == Numbers(inbounds, kind, nm)
           k == FreeNumber(S, 1)
<1>1. IsFiniteSet(S)
  BY NumbersFinite DEF Rows
<1>2. k \in Nat \ {0} /\ k \notin S
  <2> HIDE DEF S
  <2>1. 1 \in Nat \ {0}
    OBVIOUS
  <2> QED
    BY <1>1, <2>1, FreeNumberFacts
<1> HIDE DEF k
<1>3. deriveInboundTag(kind, nm) = <<kind, nodeSlug(nm), k>>
  BY DEF deriveInboundTag, k
<1>4. \A in \in inbounds : in.tag # <<kind, nodeSlug(nm), k>>
  <2> SUFFICES ASSUME NEW in \in inbounds, in.tag = <<kind, nodeSlug(nm), k>> PROVE FALSE
    OBVIOUS
  <2>1. in.tag[1] = kind /\ in.tag[2] = nodeSlug(nm) /\ in.tag[3] = k
    OBVIOUS
  <2> QED
    BY <1>2, <2>1 DEF Numbers
<1> QED
  BY <1>2, <1>3, <1>4, SlugNat

\* The tags of a node that is renamed are new, and differ from each other.
LEMMA RetaggedFacts ==
  ASSUME Rows, NEW n \in NodeIds, NEW nm \in Names, NEW i \in InboundsOf(n)
  PROVE  /\ Retagged(i, nm) \in Inbound
         /\ Retagged(i, nm) = [i EXCEPT !.tag = Retagged(i, nm).tag]
         /\ \A other \in inbounds \ InboundsOf(n) : other.tag # Retagged(i, nm).tag
         /\ \A j \in InboundsOf(n) : i.id < j.id => Retagged(j, nm).tag # Retagged(i, nm).tag
<1> DEFINE older(x) == {y \in InboundsOf(n) : y.kind = x.kind /\ y.id < x.id}
           S(x) == Numbers(inbounds \ InboundsOf(n), x.kind, nm)
           k(x) == FreeNumber(S(x), Cardinality(older(x)) + 1)
<1>1. \A x \in InboundsOf(n) : x \in inbounds /\ x.node = n /\ x \in Inbound
  BY DEF InboundsOf, Rows
<1>2. \A x \in InboundsOf(n) : Retagged(x, nm) = [x EXCEPT !.tag = <<x.kind, nodeSlug(nm), k(x)>>]
  BY <1>1 DEF Retagged
<1>3. ASSUME NEW x \in InboundsOf(n)
      PROVE  /\ IsFiniteSet(S(x)) /\ IsFiniteSet(older(x)) /\ Cardinality(older(x)) \in Nat
  <2>1. older(x) \in SUBSET inbounds /\ inbounds \ InboundsOf(n) \in SUBSET inbounds
    BY <1>1
  <2>2. IsFiniteSet(older(x)) /\ IsFiniteSet(inbounds \ InboundsOf(n))
    BY <2>1, FS_Subset DEF Rows
  <2> QED
    BY <2>2, NumbersFinite, FS_CardinalityType
<1>4. ASSUME NEW x \in InboundsOf(n)
      PROVE  /\ k(x) \in Nat \ {0} /\ k(x) \notin S(x)
             /\ Cardinality((1..k(x)) \ S(x)) = Cardinality(older(x)) + 1
  <2> HIDE DEF S, older
  <2>1. Cardinality(older(x)) + 1 \in Nat \ {0}
    BY <1>3
  <2> QED
    BY <1>3, <2>1, FreeNumberFacts
<1>5. ASSUME NEW j \in InboundsOf(n), i.id < j.id, i.kind = j.kind
      PROVE  Cardinality(older(i)) < Cardinality(older(j))
  <2>1. i.id \in Nat /\ j.id \in Nat /\ \A y \in InboundsOf(n) : y.id \in Nat
    BY <1>1 DEF Inbound
  <2>2. \A y \in older(i) : y \in older(j)
    BY <1>5, <2>1
  <2>3. older(i) \in SUBSET older(j) /\ i \in older(j) /\ i \notin older(i)
    BY <1>5, <2>1, <2>2
  <2>4. Cardinality(older(i)) <= Cardinality(older(j)) /\ Cardinality(older(i)) # Cardinality(older(j))
    BY <1>3, <2>3, FS_Subset
  <2>5. Cardinality(older(i)) \in Nat /\ Cardinality(older(j)) \in Nat
    BY <1>3
  <2> HIDE DEF older
  <2> QED
    BY <2>4, <2>5
<1>6. \A x \in InboundsOf(n) : Retagged(x, nm).tag = <<x.kind, nodeSlug(nm), k(x)>>
  BY <1>1, <1>2 DEF Inbound
<1>7. ASSUME NEW other \in inbounds \ InboundsOf(n) PROVE other.tag # Retagged(i, nm).tag
  <2> SUFFICES ASSUME other.tag = <<i.kind, nodeSlug(nm), k(i)>> PROVE FALSE
    BY <1>6
  <2>1. other.tag[1] = i.kind /\ other.tag[2] = nodeSlug(nm) /\ other.tag[3] = k(i)
    OBVIOUS
  <2>2. k(i) \in S(i)
    <3> HIDE DEF k
    <3> QED
      BY <2>1 DEF Numbers
  <2> QED
    BY <1>4, <2>2
<1>8. ASSUME NEW j \in InboundsOf(n), i.id < j.id PROVE Retagged(j, nm).tag # Retagged(i, nm).tag
  <2> SUFFICES ASSUME Retagged(j, nm).tag = Retagged(i, nm).tag PROVE FALSE
    OBVIOUS
  <2>1. i.kind = j.kind /\ k(i) = k(j)
    <3> HIDE DEF k
    <3> QED
      BY <1>6
  <2>2. S(i) = S(j)
    BY <2>1
  <2>3. Cardinality(older(i)) + 1 = Cardinality(older(j)) + 1
    <3> HIDE DEF k, S, older
    <3> QED
      BY <1>4, <2>1, <2>2
  <2> HIDE DEF older
  <2> QED
    BY <1>3, <1>5, <1>8, <2>1, <2>3
<1>9. Retagged(i, nm) \in Inbound /\ Retagged(i, nm) = [i EXCEPT !.tag = Retagged(i, nm).tag]
  <2>1. k(i) \in Nat /\ nodeSlug(nm) \in Nat /\ i \in Inbound
    BY <1>1, <1>4, SlugNat
  <2> HIDE DEF k
  <2> QED
    BY <1>2, <1>6, <2>1 DEF Inbound
<1> QED
  BY <1>7, <1>8, <1>9

-----------------------------------------------------------------------------
(* What a configuration depends on *)

\* What a node serves for itself.
SameOwn(i, j) == Listener(i) = Listener(j) /\ i.kind = j.kind /\ i.on = j.on /\ i.node = j.node

\* What a node listens to for another.
SameRelay(i, j) ==
  i.on = j.on /\ i.node = j.node /\ i.tag = j.tag /\ i.port = j.port /\ i.relay = j.relay /\ i.rport = j.rport

SameFor(n, i, j) ==
  /\ i.node = n \/ j.node = n => SameOwn(i, j)
  /\ i.relay = n \/ j.relay = n => SameRelay(i, j)

\* An edit of the rows that a node does not see: what it serves or relays is
\* there afterwards, and nothing else.
UnseenBy(n) ==
  /\ \A i \in inbounds : i.node = n \/ i.relay = n => \E j \in inbounds' : SameFor(n, i, j)
  /\ \A j \in inbounds' : j.node = n \/ j.relay = n => \E i \in inbounds : SameFor(n, i, j)

SameOrigins(n) ==
  \A i \in inbounds : i.relay = n => addr'[i.node] = addr[i.node] /\ (status'[i.node] = "on" <=> status[i.node] = "on")

SameExits(n) ==
  /\ \A e \in exits \cup exits' :
       (e.kind = "node" /\ e.node = n) \/ e.id \in rules[n] \/ e.id \in rules'[n] => e \in exits /\ e \in exits'
  /\ \A e \in exits : e \in exits' => (e.id \in rules[n] <=> e.id \in rules'[n])
  /\ \A e \in exits : e.id \in rules[n] /\ e.kind = "node" =>
       addr'[e.node] = addr[e.node] /\ (status'[e.node] = "on" <=> status[e.node] = "on")

LEMMA SameConfig ==
  ASSUME NEW n \in NodeIds, (status'[n] = "on" <=> status[n] = "on"), policy' = policy,
         status[n] = "on" => UnseenBy(n) /\ SameOrigins(n) /\ SameExits(n)
  PROVE  Config(n)' = Config(n)
<1>1. CASE status[n] # "on"
  BY <1>1 DEF Config, NothingBut
<1>2. CASE status[n] = "on"
  <2>1. UnseenBy(n) /\ SameOrigins(n) /\ SameExits(n)
    BY <1>2
  <2>2. ASSUME NEW i \in inbounds, i.node = n, i.on
        PROVE  \E j \in inbounds' : j.node = n /\ j.on /\ j.kind = i.kind /\ Listener(j) = Listener(i)
    BY <2>1, <2>2 DEF UnseenBy, SameFor, SameOwn
  <2>3. ASSUME NEW j \in inbounds', j.node = n, j.on
        PROVE  \E i \in inbounds : i.node = n /\ i.on /\ j.kind = i.kind /\ Listener(j) = Listener(i)
    BY <2>1, <2>3 DEF UnseenBy, SameFor, SameOwn
  <2>4. SingboxInbounds(n)' = SingboxInbounds(n)
    <3>1. \A o : o \in SingboxInbounds(n) <=> \E i \in inbounds : i.node = n /\ i.on /\ i.kind # "xhttp" /\ o = Listener(i)
      BY DEF SingboxInbounds, InboundsOf
    <3>2. \A o : o \in SingboxInbounds(n)' <=> \E i \in inbounds' : i.node = n /\ i.on /\ i.kind # "xhttp" /\ o = Listener(i)
      BY DEF SingboxInbounds, InboundsOf, Listener
    <3>3. \A o : o \in SingboxInbounds(n)' <=> o \in SingboxInbounds(n)
      BY <2>2, <2>3, <3>1, <3>2
    <3> QED
      BY <3>3
  <2>5. XrayInbounds(n)' = XrayInbounds(n)
    <3>1. \A o : o \in XrayInbounds(n) <=> \E i \in inbounds : i.node = n /\ i.on /\ i.kind = "xhttp" /\ o = Listener(i)
      BY DEF XrayInbounds, InboundsOf
    <3>2. \A o : o \in XrayInbounds(n)' <=> \E i \in inbounds' : i.node = n /\ i.on /\ i.kind = "xhttp" /\ o = Listener(i)
      BY DEF XrayInbounds, InboundsOf, Listener
    <3>3. \A o : o \in XrayInbounds(n)' <=> o \in XrayInbounds(n)
      BY <2>2, <2>3, <3>1, <3>2
    <3> QED
      BY <3>3
  <2>6. RelayListeners(n)' = RelayListeners(n)
    <3>1. \A o : o \in RelayListeners(n) <=>
             \E i \in inbounds : /\ i.relay = n /\ i.on /\ status[i.node] = "on"
                                 /\ o = [tag |-> i.tag, port |-> i.rport, addr |-> addr[i.node], to |-> i.port]
      BY DEF RelayListeners, RelayedVia
    <3>2. \A o : o \in RelayListeners(n)' <=>
             \E i \in inbounds' : /\ i.relay = n /\ i.on /\ status'[i.node] = "on"
                                  /\ o = [tag |-> i.tag, port |-> i.rport, addr |-> addr'[i.node], to |-> i.port]
      BY DEF RelayListeners, RelayedVia
    <3>3. ASSUME NEW i \in inbounds, i.relay = n
          PROVE  \E j \in inbounds' : SameRelay(i, j) /\ j.relay = n
      BY <2>1, <3>3 DEF UnseenBy, SameFor, SameRelay
    <3>4. ASSUME NEW j \in inbounds', j.relay = n
          PROVE  \E i \in inbounds : SameRelay(i, j) /\ i.relay = n
      BY <2>1, <3>4 DEF UnseenBy, SameFor, SameRelay
    <3>5. ASSUME NEW o \in RelayListeners(n) PROVE o \in RelayListeners(n)'
      <4>1. PICK i \in inbounds : /\ i.relay = n /\ i.on /\ status[i.node] = "on"
                                  /\ o = [tag |-> i.tag, port |-> i.rport, addr |-> addr[i.node], to |-> i.port]
        BY <3>1
      <4>2. PICK j \in inbounds' : SameRelay(i, j) /\ j.relay = n
        BY <3>3, <4>1
      <4> QED
        BY <2>1, <3>2, <4>1, <4>2 DEF SameOrigins, SameRelay
    <3>6. ASSUME NEW o \in RelayListeners(n)' PROVE o \in RelayListeners(n)
      <4>1. PICK j \in inbounds' : /\ j.relay = n /\ j.on /\ status'[j.node] = "on"
                                   /\ o = [tag |-> j.tag, port |-> j.rport, addr |-> addr'[j.node], to |-> j.port]
        BY <3>2
      <4>2. PICK i \in inbounds : SameRelay(i, j) /\ i.relay = n
        BY <3>4, <4>1
      <4> QED
        BY <2>1, <3>1, <4>1, <4>2 DEF SameOrigins, SameRelay
    <3> QED
      BY <3>5, <3>6
  <2>7. ExitListeners(n)' = ExitListeners(n)
    BY <2>1 DEF SameExits, ExitListeners
  <2>8. Outbounds(n)' = Outbounds(n)
    <3> DEFINE out(e, a) == [id |-> e.id, kind |-> e.kind, node |-> e.node,
                             addr |-> IF e.kind = "node" THEN a[e.node] ELSE 0, port |-> e.port]
    <3>1. \A o : o \in Outbounds(n) <=>
             \E e \in exits : e.id \in rules[n] /\ (e.kind = "node" => status[e.node] = "on") /\ o = out(e, addr)
      BY DEF Outbounds, Reachable
    <3>2. \A o : o \in Outbounds(n)' <=>
             \E e \in exits' : e.id \in rules'[n] /\ (e.kind = "node" => status'[e.node] = "on") /\ o = out(e, addr')
      BY DEF Outbounds, Reachable
    <3>3. \A e \in exits : e.id \in rules[n] =>
             /\ e \in exits' /\ e.id \in rules'[n] /\ out(e, addr) = out(e, addr')
             /\ (e.kind = "node" => status'[e.node] = "on") <=> (e.kind = "node" => status[e.node] = "on")
      BY <2>1 DEF SameExits
    <3>4. \A e \in exits' : e.id \in rules'[n] => e \in exits /\ e.id \in rules[n]
      BY <2>1 DEF SameExits
    <3> HIDE DEF out
    <3>5. \A o : o \in Outbounds(n)' <=> o \in Outbounds(n)
      BY <3>1, <3>2, <3>3, <3>4
    <3> QED
      BY <3>5
  <2>9. Bridge(n)' = Bridge(n)
    BY <2>5, <2>8 DEF Bridge
  <2> QED
    BY <1>2, <2>4, <2>5, <2>6, <2>7, <2>8, <2>9 DEF Config
<1> QED
  BY <1>1, <1>2

-----------------------------------------------------------------------------
(* Every step keeps the types *)

LEMMA CallFacts == ASSUME Nodes, Call PROVE calls' \in 0..MaxCalls
  BY ConfigAssumption DEF Nodes, Call

LEMMA FaultFacts == ASSUME Nodes, Fault PROVE faults' \in 0..MaxFaults
  BY ConfigAssumption DEF Nodes, Fault

LEMMA TellFacts ==
  ASSUME Nodes, NEW S \in SUBSET (NodeIds \cup {0}), Tell(S)
  PROVE  /\ pending' \subseteq NodeIds
         /\ \A n \in NodeIds : n \notin pending' => n \notin pending /\ n \notin S
  BY ExistingFacts DEF Nodes, Tell

LEMMA RowFacts ==
  ASSUME Rows, NEW in \in inbounds
  PROVE  /\ in \in Inbound /\ in.id \in Nat /\ in.node \in NodeIds /\ in.kind \in Kinds /\ in.port \in Ports
         /\ in.hops \in SUBSET Ports /\ in.sni \in Addrs \cup {0} /\ in.relay \in NodeIds \cup {0}
         /\ in.rport \in Ports \cup {0} /\ in.on \in BOOLEAN /\ in.relay # in.node
         /\ in.tag \in (Kinds \cup {"hand"}) \X Nat \X Nat
  BY DEF Rows, Inbound

LEMMA RelayHostsFacts ==
  ASSUME Rows, NEW S \in SUBSET inbounds
  PROVE  RelayHosts(S) \in SUBSET NodeIds
  BY RowFacts DEF RelayHosts

\* Nothing but the rows and who is told.
LEMMA StatusStays ==
  ASSUME IInv, UNCHANGED <<nodeVars, policy, connected, faults>>, Call,
         rules' \in [NodeIds -> SUBSET Nat], NEW S \in SUBSET (NodeIds \cup {0}), Tell(S)
  PROVE  Nodes' /\ Existing' = Existing
  BY CallFacts, TellFacts DEF IInv, Nodes, nodeVars, Existing

LEMMA ExitsStay == ASSUME Exits, UNCHANGED <<exits, status>> PROVE Exits'
  BY DEF Exits

LEMMA PushKeeps == ASSUME IInv, NEW n \in NodeIds, Push(n) \/ Connect(n) \/ Disconnect(n) PROVE IInv'
<1>1. UNCHANGED <<inbounds, exits, status, addr, name, rules, policy, calls>> /\ faults' \in 0..MaxFaults
  BY FaultFacts DEF Push, Connect, Disconnect, dbVars, nodeVars, unlockVars, IInv, Nodes
<1>2. /\ connected' \subseteq NodeIds /\ pending' \subseteq NodeIds
      /\ \A m \in connected' : status[m] # "new"
  BY DEF Push, Connect, Disconnect, dbVars, nodeVars, IInv, Nodes
<1>3. Rows' /\ Placed' /\ Exits' /\ Nodes'
  BY <1>1, <1>2, ExitsStay DEF IInv, Rows, Placed, Existing, Nodes
<1> QED
  BY <1>3 DEF IInv

LEMMA RestartKeeps == ASSUME IInv, PanelRestart \/ UNCHANGED vars PROVE IInv'
<1>1. UNCHANGED <<inbounds, exits, status, addr, name, rules, policy, calls>> /\ faults' \in 0..MaxFaults
  BY FaultFacts DEF PanelRestart, vars, dbVars, nodeVars, unlockVars, IInv, Nodes
<1>2. /\ connected' \subseteq NodeIds /\ pending' \subseteq NodeIds
      /\ \A m \in connected' : status[m] # "new"
  BY DEF PanelRestart, vars, hubVars, IInv, Nodes
<1>3. Rows' /\ Placed' /\ Exits' /\ Nodes'
  BY <1>1, <1>2, ExitsStay DEF IInv, Rows, Placed, Existing, Nodes
<1> QED
  BY <1>3 DEF IInv

LEMMA CreateNodeKeeps ==
  ASSUME IInv, NEW n \in NodeIds, NEW a \in Addrs, NEW nm \in Names, CreateNode(n, a, nm)
  PROVE  IInv' /\ n \notin Existing /\ Existing' = Existing \cup {n}
<1>1. /\ Call /\ n = 1 + Max(Existing \cup {0})
      /\ status' = [status EXCEPT ![n] = "on"] /\ addr' = [addr EXCEPT ![n] = a]
      /\ name' = [name EXCEPT ![n] = nm]
      /\ UNCHANGED <<inbounds, exits, rules, policy, connected, pending, faults>>
  BY DEF CreateNode, unlockVars, hubVars
<1>2. n \notin Existing
  <2>1. Existing \in SUBSET Nat
    BY ExistingFacts
  <2> QED
    BY <1>1, <2>1, ExistingFacts, MaxAbove
<1>3. Existing' = Existing \cup {n}
  BY <1>1 DEF Existing, IInv, Nodes
<1>4. Nodes'
  BY <1>1, CallFacts DEF IInv, Nodes
<1>5. Rows' /\ Placed' /\ Exits'
  BY <1>1, <1>3 DEF IInv, Rows, Placed, Exits, Nodes
<1> QED
  BY <1>2, <1>3, <1>4, <1>5 DEF IInv

LEMMA DeleteNodeKeeps ==
  ASSUME IInv, NEW n \in NodeIds, DeleteNode(n)
  PROVE  IInv' /\ Existing' = Existing \ {n} /\ n \in Existing
<1>1. /\ Call /\ n \in Existing /\ RelayedVia(n) = {}
      /\ status' = [status EXCEPT ![n] = "gone"]
      /\ inbounds' = inbounds \ InboundsOf(n) /\ Tell(RelayHosts(InboundsOf(n)))
      /\ UNCHANGED <<addr, name, exits, rules, policy, connected, faults>>
  BY DEF DeleteNode, unlockVars
<1>2. Existing' = Existing \ {n}
  BY <1>1 DEF Existing, IInv, Nodes
<1>3. Rows'
  BY <1>1, SomeRemoved DEF IInv
<1>4. pending' \subseteq NodeIds
  <2>1. RelayHosts(InboundsOf(n)) \in SUBSET NodeIds
    BY RelayHostsFacts DEF IInv, InboundsOf
  <2> QED
    BY <1>1, <2>1, TellFacts DEF IInv
<1>5. Nodes'
  BY <1>1, <1>4, CallFacts DEF IInv, Nodes
<1>6. Placed'
  BY <1>1, <1>2 DEF IInv, Placed, InboundsOf, RelayedVia
<1>7. Exits'
  BY <1>1 DEF IInv, Exits, Nodes
<1> QED
  BY <1>1, <1>2, <1>3, <1>5, <1>6, <1>7 DEF IInv

\* The inbounds of a node after it was saved under a name, and who is told.
Renamed(n, nm) == [i \in inbounds |-> IF i.node = n /\ nm # name[n] THEN Retagged(i, nm) ELSE i]

LEMMA UpdateNodeFacts ==
  ASSUME IInv, NEW n \in NodeIds, NEW st, NEW a, NEW nm \in Names, UpdateNode(n, st, a, nm)
  PROVE  LET g == Renamed(n, nm) IN
         /\ g \in [inbounds -> Inbound]
         /\ inbounds' = {g[i] : i \in inbounds}
         /\ \A i \in inbounds : g[i] = [i EXCEPT !.tag = g[i].tag] /\ (i.node # n => g[i] = i)
         /\ \A i, j \in inbounds : i # j => g[i].tag # g[j].tag
<1> DEFINE g == Renamed(n, nm)
           retagged == IF nm = name[n] THEN InboundsOf(n) ELSE {Retagged(in, nm) : in \in InboundsOf(n)}
<1>1. inbounds' = (inbounds \ InboundsOf(n)) \cup retagged
  BY DEF UpdateNode
<1>2. \A i \in inbounds : i \in InboundsOf(n) <=> i.node = n
  BY DEF InboundsOf
<1>3. InboundsOf(n) \in SUBSET inbounds
  BY DEF InboundsOf
<1>4. \A i \in inbounds : g[i] = IF i.node = n /\ nm # name[n] THEN Retagged(i, nm) ELSE i
  BY DEF Renamed
<1>5. \A i \in inbounds : i \in Inbound /\ i = [i EXCEPT !.tag = i.tag]
  BY DEF IInv, Rows, Inbound
<1>6. \A i \in InboundsOf(n) : Retagged(i, nm) \in Inbound /\ Retagged(i, nm) = [i EXCEPT !.tag = Retagged(i, nm).tag]
  BY RetaggedFacts DEF IInv
<1>7. \A i \in inbounds : g[i] \in Inbound /\ g[i] = [i EXCEPT !.tag = g[i].tag]
  BY <1>2, <1>4, <1>5, <1>6
<1>8. g \in [inbounds -> Inbound]
  BY <1>4, <1>7 DEF Renamed
<1>9. inbounds' = {g[i] : i \in inbounds}
  <2>1. CASE nm = name[n]
    <3>1. inbounds' = inbounds /\ \A i \in inbounds : g[i] = i
      BY <1>1, <1>3, <1>4, <2>1
    <3> HIDE DEF g
    <3> QED
      BY <3>1
  <2>2. CASE nm # name[n]
    <3>1. \A x : x \in inbounds' <=> \/ x \in inbounds /\ x.node # n
                                   \/ \E i \in inbounds : i.node = n /\ x = Retagged(i, nm)
      BY <1>1, <1>2, <1>3, <2>2
    <3>2. \A x : x \in inbounds' <=> \E i \in inbounds : x = g[i]
      BY <1>4, <2>2, <3>1
    <3> HIDE DEF g
    <3> QED
      BY <3>2
  <2> QED
    BY <2>1, <2>2
<1>10. ASSUME NEW i \in inbounds, NEW j \in inbounds, i # j PROVE g[i].tag # g[j].tag
  <2>1. i.tag # j.tag /\ i.id # j.id /\ i.id \in Nat /\ j.id \in Nat
    BY <1>10, RowFacts DEF IInv, Rows
  <2>2. CASE nm = name[n] \/ (i.node # n /\ j.node # n)
    BY <1>4, <2>1, <2>2
  <2>3. CASE nm # name[n] /\ i.node = n /\ j.node # n
    BY <1>2, <1>4, <2>3, RetaggedFacts DEF IInv
  <2>4. CASE nm # name[n] /\ i.node # n /\ j.node = n
    BY <1>2, <1>4, <2>4, RetaggedFacts DEF IInv
  <2>5. CASE nm # name[n] /\ i.node = n /\ j.node = n
    <3>1. i \in InboundsOf(n) /\ j \in InboundsOf(n) /\ g[i] = Retagged(i, nm) /\ g[j] = Retagged(j, nm)
      BY <1>2, <1>4, <2>5
    <3>2. CASE i.id < j.id
      BY <3>1, <3>2, RetaggedFacts DEF IInv
    <3>3. CASE j.id < i.id
      BY <3>1, <3>3, RetaggedFacts DEF IInv
    <3> QED
      BY <2>1, <3>2, <3>3
  <2> QED
    BY <2>2, <2>3, <2>4, <2>5
<1>11. \A i \in inbounds : i.node # n => g[i] = i
  BY <1>4
<1> QED
  BY <1>7, <1>8, <1>9, <1>10, <1>11

LEMMA UpdateNodeKeeps ==
  ASSUME IInv, NEW n \in NodeIds, NEW st \in {"on", "off"}, NEW a \in Addrs, NEW nm \in Names,
         UpdateNode(n, st, a, nm)
  PROVE  IInv' /\ Existing' = Existing
<1> DEFINE g == Renamed(n, nm)
           retagged == IF nm = name[n] THEN InboundsOf(n) ELSE {Retagged(in, nm) : in \in InboundsOf(n)}
           changed == st # status[n] \/ retagged # InboundsOf(n)
           S == (IF changed THEN {n} ELSE {}) \cup (IF changed \/ a # addr[n] THEN RelayHosts(InboundsOf(n)) ELSE {})
<1>1. /\ Call /\ n \in Existing
      /\ status' = [status EXCEPT ![n] = st] /\ addr' = [addr EXCEPT ![n] = a]
      /\ name' = [name EXCEPT ![n] = nm] /\ Tell(S)
      /\ UNCHANGED <<exits, rules, policy, connected, faults>>
  BY DEF UpdateNode, unlockVars
<1>2. Existing' = Existing
  BY <1>1 DEF Existing, IInv, Nodes
<1>3. /\ g \in [inbounds -> Inbound] /\ inbounds' = {g[i] : i \in inbounds}
      /\ \A i \in inbounds : g[i] = [i EXCEPT !.tag = g[i].tag]
      /\ \A i, j \in inbounds : i # j => g[i].tag # g[j].tag
  BY UpdateNodeFacts
<1> HIDE DEF g
<1>4. \A i \in inbounds : g[i].id = i.id /\ g[i].relay = i.relay /\ g[i].node = i.node
  BY <1>3, RowFacts DEF IInv, Inbound
<1>5. Rows'
  <2>1. \A i \in inbounds : g[i].id = i.id /\ g[i].relay # g[i].node
    BY <1>4, RowFacts DEF IInv
  <2> QED
    BY <1>3, <2>1, Rewritten DEF IInv
<1>6. Placed'
  BY <1>2, <1>3, <1>4 DEF IInv, Placed
<1>7. pending' \subseteq NodeIds
  <2>1. S \in SUBSET (NodeIds \cup {0})
    <3>1. RelayHosts(InboundsOf(n)) \in SUBSET NodeIds
      BY RelayHostsFacts DEF IInv, InboundsOf
    <3> QED
      BY <3>1
  <2> QED
    BY <1>1, <2>1, TellFacts DEF IInv
<1>8. Nodes'
  BY <1>1, <1>7, CallFacts DEF IInv, Nodes, Existing
<1>9. Exits'
  BY <1>1 DEF IInv, Exits, Nodes
<1> QED
  BY <1>2, <1>5, <1>6, <1>8, <1>9 DEF IInv

\* The inbounds after the panel's domain moved.
Moved(from, to) == [i \in inbounds |-> IF i.sni = from THEN [i EXCEPT !.sni = to] ELSE i]

LEMMA MovePanelHostKeeps ==
  ASSUME IInv, NEW from \in Addrs, NEW to \in Addrs, MovePanelHost(from, to)
  PROVE  /\ IInv' /\ Existing' = Existing
         /\ inbounds' = {Moved(from, to)[i] : i \in inbounds}
<1> DEFINE g == Moved(from, to)
           moving == {n \in Existing : addr[n] = from}
           renamed == {in \in inbounds : in.sni = from}
           S == (UNION {RelayHosts(InboundsOf(n)) : n \in moving}) \cup {in.node : in \in renamed} \cup RelayHosts(renamed)
<1>1. /\ Call
      /\ addr' = [n \in NodeIds |-> IF n \in moving THEN to ELSE addr[n]]
      /\ inbounds' = (inbounds \ renamed) \cup {[in EXCEPT !.sni = to] : in \in renamed}
      /\ Tell(S)
      /\ UNCHANGED <<status, name, exits, rules, policy, connected, faults>>
  BY DEF MovePanelHost, unlockVars
<1>2. Existing' = Existing
  BY <1>1 DEF Existing
<1>3. inbounds' = {g[i] : i \in inbounds}
  BY <1>1 DEF Moved
<1>4. \A i \in inbounds : g[i] = IF i.sni = from THEN [i EXCEPT !.sni = to] ELSE i
  BY DEF Moved
<1>5. \A i \in inbounds : /\ g[i] \in Inbound /\ g[i].id = i.id /\ g[i].tag = i.tag
                          /\ g[i].relay = i.relay /\ g[i].node = i.node
  <2> HIDE DEF g
  <2> TAKE i \in inbounds
  <2>1. i \in Inbound
    BY RowFacts DEF IInv
  <2>2. CASE i.sni = from
    BY <1>4, <2>1, <2>2 DEF Inbound
  <2>3. CASE i.sni # from
    BY <1>4, <2>1, <2>3
  <2> QED
    BY <2>2, <2>3
<1>6. g \in [inbounds -> Inbound]
  BY <1>5 DEF Moved
<1> HIDE DEF g
<1>7. Rows'
  <2>1. \A i \in inbounds : g[i].id = i.id /\ g[i].relay # g[i].node
    BY <1>5, RowFacts DEF IInv
  <2>2. \A i, j \in inbounds : i # j => g[i].tag # g[j].tag
    BY <1>5 DEF IInv, Rows
  <2> QED
    BY <1>3, <1>6, <2>1, <2>2, Rewritten DEF IInv
<1>8. Placed'
  BY <1>2, <1>3, <1>5 DEF IInv, Placed
<1>9. pending' \subseteq NodeIds
  <2>1. S \in SUBSET (NodeIds \cup {0})
    <3>1. \A n \in moving : RelayHosts(InboundsOf(n)) \in SUBSET NodeIds
      BY RelayHostsFacts DEF IInv, InboundsOf
    <3>2. RelayHosts(renamed) \in SUBSET NodeIds
      BY RelayHostsFacts DEF IInv
    <3>3. \A in \in renamed : in.node \in NodeIds
      BY RowFacts DEF IInv
    <3> HIDE DEF moving, renamed
    <3>4. UNION {RelayHosts(InboundsOf(n)) : n \in moving} \in SUBSET NodeIds
      <4> SUFFICES ASSUME NEW n \in moving, NEW x \in RelayHosts(InboundsOf(n)) PROVE x \in NodeIds
        OBVIOUS
      <4> QED
        BY <3>1
    <3>5. {in.node : in \in renamed} \in SUBSET NodeIds
      BY <3>3
    <3> QED
      BY <3>2, <3>4, <3>5
  <2> QED
    BY <1>1, <2>1, TellFacts DEF IInv
<1>10. Nodes'
  BY <1>1, <1>9, CallFacts DEF IInv, Nodes, Existing
<1>11. Exits'
  BY <1>1 DEF IInv, Exits
<1> QED
  BY <1>2, <1>3, <1>7, <1>8, <1>10, <1>11 DEF IInv, g

LEMMA CreateInboundKeeps ==
  ASSUME IInv, NEW n \in NodeIds, NEW kind \in Kinds, NEW port \in Ports, NEW hops \in Hops,
         NEW relay \in Relays, CreateInbound(n, kind, port, hops, relay)
  PROVE  /\ IInv' /\ Existing' = Existing
         /\ LET in == BuildInbound(n, kind, port, hops, relay) IN
            /\ in \in Inbound /\ in.node = n /\ in.relay = relay[1]
            /\ inbounds' = inbounds \cup {in} /\ \A other \in inbounds : other.id # in.id
<1> DEFINE in == BuildInbound(n, kind, port, hops, relay)
<1>1. /\ Call /\ n \in Existing /\ Accepted(in) /\ inbounds' = inbounds \cup {in} /\ Tell({n, in.relay})
      /\ UNCHANGED <<nodeVars, exits, rules, policy, connected, faults>>
  BY DEF CreateInbound, unlockVars
<1>2. in.id \in Nat /\ \A other \in inbounds : other.id # in.id
  <2> DEFINE T == {i.id : i \in inbounds}
             f == [i \in inbounds |-> i.id]
  <2>1. f \in Surjection(inbounds, T)
    BY DEF Surjection
  <2>2. IsFiniteSet(T)
    BY <2>1, FS_Surjection DEF IInv, Rows
  <2>3. T \in SUBSET Nat
    BY RowFacts DEF IInv
  <2>4. in.id = 1 + Max(T \cup {0})
    BY DEF BuildInbound
  <2>5. 1 + Max(T \cup {0}) \in Nat \ {0} /\ 1 + Max(T \cup {0}) \notin T
    <3> HIDE DEF T
    <3> QED
      BY <2>2, <2>3, MaxAbove
  <2> QED
    BY <2>4, <2>5
<1>3. relay[1] \in NodeIds \cup {0} /\ relay[2] \in Ports \cup {0}
  BY DEF Relays
<1>4. in.tag = deriveInboundTag(kind, name[n]) /\ name[n] \in Names /\ addr[n] \in Addrs
  BY DEF BuildInbound, IInv, Nodes
<1>5. in.tag \in (Kinds \cup {"hand"}) \X Nat \X Nat /\ \A other \in inbounds : other.tag # in.tag
  BY <1>4, Derived DEF IInv
<1> DEFINE sni == IF kind = "hysteria2" THEN addr[n] ELSE 0
           id == in.id
           tag == in.tag
<1>6. /\ in = [id |-> id, node |-> n, kind |-> kind, tag |-> tag, port |-> port, hops |-> hops,
               sni |-> sni, relay |-> relay[1], rport |-> relay[2], on |-> TRUE]
      /\ hops \in SUBSET Ports /\ sni \in Addrs \cup {0}
  BY <1>4, ConfigAssumption DEF BuildInbound
<1> HIDE DEF in
<1>7. in \in Inbound /\ in.node = n /\ in.relay = relay[1]
  <2>1. id \in Nat /\ tag \in (Kinds \cup {"hand"}) \X Nat \X Nat
    BY <1>2, <1>5
  <2> HIDE DEF id, tag, sni
  <2> QED
    BY <1>3, <1>6, <2>1 DEF Inbound
<1>8. in.relay # 0 => in.relay # in.node /\ in.relay \in Existing
  BY <1>1 DEF Accepted, checkRelay
<1>9. Rows'
  <2>1. in.relay # in.node
    BY <1>7, <1>8, ExistingFacts
  <2> QED
    BY <1>1, <1>2, <1>5, <1>7, <2>1, OneAdded DEF IInv
<1>10. Nodes' /\ Existing' = Existing
  <2>1. {n, in.relay} \in SUBSET (NodeIds \cup {0})
    BY <1>3, <1>7
  <2> QED
    BY <1>1, <2>1, StatusStays DEF IInv, Nodes
<1>11. Placed'
  BY <1>1, <1>7, <1>8, <1>10 DEF IInv, Placed
<1>12. Exits'
  BY <1>1 DEF IInv, Exits, nodeVars
<1> QED
  BY <1>1, <1>2, <1>7, <1>9, <1>10, <1>11, <1>12 DEF IInv, in

LEMMA EditInboundKeeps ==
  ASSUME IInv, NEW in \in inbounds, NEW port \in Ports, NEW hops \in SUBSET Ports,
         NEW relay, relay[1] \in NodeIds \cup {0}, relay[2] \in Ports \cup {0},
         NEW tag \in (Kinds \cup {"hand"}) \X Nat \X Nat, EditInbound(in, port, hops, relay, tag)
  PROVE  /\ IInv' /\ Existing' = Existing
         /\ LET new == [in EXCEPT !.port = port, !.hops = hops, !.relay = relay[1], !.rport = relay[2], !.tag = tag] IN
            new \in Inbound /\ new.id = in.id /\ new.node = in.node
<1> DEFINE new == [in EXCEPT !.port = port, !.hops = hops, !.relay = relay[1], !.rport = relay[2], !.tag = tag]
           relayChange == \/ new.relay # in.relay \/ new.rport # in.rport
                          \/ new.relay # 0 /\ (new.port # in.port \/ new.tag # in.tag)
           S == (IF new.port # in.port \/ new.hops # in.hops \/ new.tag # in.tag THEN {in.node} ELSE {})
                  \cup (IF relayChange THEN {in.relay, new.relay} ELSE {})
<1>1. /\ Call /\ Accepted(new) /\ inbounds' = (inbounds \ {in}) \cup {new} /\ Tell(S)
      /\ UNCHANGED <<nodeVars, exits, rules, policy, connected, faults>>
  BY DEF EditInbound, unlockVars
<1>2. in \in Inbound /\ in.node \in NodeIds /\ in.relay \in NodeIds \cup {0}
  BY RowFacts DEF IInv
<1>3. new \in Inbound /\ new.id = in.id /\ new.node = in.node /\ new.relay = relay[1]
  BY <1>2 DEF Inbound
<1>4. S \in SUBSET (NodeIds \cup {0})
  BY <1>2, <1>3
<1> HIDE DEF new, S
<1>5. new.relay # 0 => new.relay # new.node /\ new.relay \in Existing
  BY <1>1 DEF Accepted, checkRelay
<1>6. Rows'
  <2>1. new.relay # new.node
    BY <1>2, <1>3, <1>5, ExistingFacts
  <2>2. \A other \in inbounds : other.id # in.id => other.tag # new.tag
    BY <1>1, <1>3 DEF Accepted
  <2> QED
    BY <1>1, <1>3, <2>1, <2>2, OneWritten DEF IInv
<1>7. Nodes' /\ Existing' = Existing
  BY <1>1, <1>4, StatusStays DEF IInv, Nodes
<1>8. Placed'
  BY <1>1, <1>3, <1>5, <1>7 DEF IInv, Placed
<1>9. Exits'
  BY <1>1 DEF IInv, Exits, nodeVars
<1> QED
  BY <1>3, <1>6, <1>7, <1>8, <1>9 DEF IInv, new

LEMMA SwitchKeeps ==
  ASSUME IInv, NEW in \in inbounds, SetInboundEnabled(in, ~in.on) \/ DeleteInbound(in)
  PROVE  IInv' /\ Existing' = Existing
<1>1. /\ Call /\ Tell({in.node, in.relay})
      /\ UNCHANGED <<nodeVars, exits, rules, policy, connected, faults>>
  BY DEF SetInboundEnabled, DeleteInbound, unlockVars
<1>2. in \in Inbound /\ in.node \in NodeIds /\ in.relay \in NodeIds \cup {0} /\ in.relay # in.node
  BY RowFacts DEF IInv
<1>3. Nodes' /\ Existing' = Existing
  BY <1>1, <1>2, StatusStays DEF IInv, Nodes
<1>4. Exits'
  BY <1>1 DEF IInv, Exits, nodeVars
<1>5. CASE SetInboundEnabled(in, ~in.on)
  <2> DEFINE new == [in EXCEPT !.on = ~in.on]
  <2>1. inbounds' = (inbounds \ {in}) \cup {new}
    BY <1>5 DEF SetInboundEnabled
  <2>2. /\ new \in Inbound /\ new.id = in.id /\ new.node = in.node /\ new.relay = in.relay
        /\ new.tag = in.tag
    BY <1>2 DEF Inbound
  <2> HIDE DEF new
  <2>3. \A other \in inbounds : other.id # in.id => other.tag # new.tag
    BY <2>2 DEF IInv, Rows
  <2>4. Rows'
    BY <1>2, <2>1, <2>2, <2>3, OneWritten DEF IInv
  <2>5. Placed'
    BY <1>3, <2>1, <2>2 DEF IInv, Placed
  <2> QED
    BY <1>3, <1>4, <2>4, <2>5 DEF IInv
<1>6. CASE DeleteInbound(in)
  <2>1. inbounds' = inbounds \ {in}
    BY <1>6 DEF DeleteInbound
  <2>2. Rows'
    BY <2>1, SomeRemoved DEF IInv
  <2>3. Placed'
    BY <1>3, <2>1 DEF IInv, Placed
  <2> QED
    BY <1>3, <1>4, <2>2, <2>3 DEF IInv
<1> QED
  BY <1>5, <1>6

LEMMA ServedByFacts ==
  ASSUME Exits, NEW e \in exits
  PROVE  /\ ServedBy(e) \in SUBSET NodeIds /\ e.id \in Nat
         /\ \A id : UsedBy(id) \in SUBSET NodeIds
  BY DEF Exits, ServedBy, UsedBy

\* The exit of a form that was accepted.
LEMMA ExitFacts ==
  ASSUME IInv, NEW id \in Nat, NEW port \in Ports, NEW kind, NEW n,
         (kind = "proxy" /\ n = 0) \/ (kind = "node" /\ n \in NodeIds),
         NEW e, e = [id |-> id, kind |-> kind, node |-> n, port |-> port], checkExit(e)
  PROVE  /\ e \in [id : Nat, kind : {"node", "proxy"}, node : NodeIds \cup {0}, port : Ports]
         /\ IF e.kind = "node" THEN e.node \in NodeIds /\ status[e.node] # "new" ELSE e.node = 0
         /\ ServedBy(e) \in SUBSET NodeIds /\ e.id = id
<1>1. e.id = id /\ e.kind = kind /\ e.node = n /\ e.port = port
  OBVIOUS
<1>2. CASE kind = "proxy"
  BY <1>1, <1>2 DEF ServedBy
<1>3. CASE kind = "node"
  <2>1. e.node \in Existing
    BY <1>1, <1>3 DEF checkExit
  <2> QED
    BY <1>1, <1>3, <2>1 DEF ServedBy, Existing
<1> QED
  BY <1>2, <1>3

LEMMA CreateExitKeeps ==
  ASSUME IInv, NEW kind, NEW n, NEW port \in Ports,
         (kind = "proxy" /\ n = 0) \/ (kind = "node" /\ n \in NodeIds), CreateExit(kind, n, port)
  PROVE  /\ IInv' /\ Existing' = Existing
<1> DEFINE id == 1 + Max({x.id : x \in exits} \cup {0})
           e == [id |-> id, kind |-> kind, node |-> n, port |-> port]
<1>1. id \in Nat /\ \A other \in exits : other.id # id
  <2> DEFINE T == {x.id : x \in exits}
             f == [x \in exits |-> x.id]
  <2>1. f \in Surjection(exits, T)
    BY DEF Surjection
  <2>2. IsFiniteSet(T)
    BY <2>1, FS_Surjection DEF IInv, Exits
  <2>3. T \in SUBSET Nat
    BY DEF IInv, Exits
  <2>4. 1 + Max(T \cup {0}) \in Nat \ {0} /\ 1 + Max(T \cup {0}) \notin T
    <3> HIDE DEF T
    <3> QED
      BY <2>2, <2>3, MaxAbove
  <2> QED
    BY <2>4
<1>2. /\ Call /\ checkExit(e) /\ exits' = exits \cup {e} /\ Tell(UsedBy(e.id) \cup ServedBy(e))
      /\ UNCHANGED <<nodeVars, inbounds, rules, policy, connected, faults>>
  BY DEF CreateExit
<1> HIDE DEF id
<1>3. /\ e \in [id : Nat, kind : {"node", "proxy"}, node : NodeIds \cup {0}, port : Ports]
      /\ IF e.kind = "node" THEN e.node \in NodeIds /\ status[e.node] # "new" ELSE e.node = 0
      /\ ServedBy(e) \in SUBSET NodeIds /\ e.id = id
  BY <1>1, <1>2, ExitFacts
<1> HIDE DEF e
<1>4. UsedBy(e.id) \cup ServedBy(e) \in SUBSET (NodeIds \cup {0})
  BY <1>3 DEF UsedBy
<1>5. Nodes' /\ Existing' = Existing
  BY <1>2, <1>4, StatusStays DEF IInv, Nodes
<1>6. IsFiniteSet(exits')
  BY <1>2, FS_AddElement DEF IInv, Exits
<1>7. Exits'
  BY <1>1, <1>2, <1>3, <1>6 DEF IInv, Exits, nodeVars
<1>8. Rows' /\ Placed'
  BY <1>2, <1>5 DEF IInv, Rows, Placed
<1> QED
  BY <1>5, <1>7, <1>8 DEF IInv

LEMMA UpdateExitKeeps ==
  ASSUME IInv, NEW old \in exits, NEW kind, NEW n, NEW port \in Ports,
         (kind = "proxy" /\ n = 0) \/ (kind = "node" /\ n \in NodeIds), UpdateExit(old, kind, n, port)
  PROVE  /\ IInv' /\ Existing' = Existing
<1> DEFINE id == old.id
           e == [id |-> id, kind |-> kind, node |-> n, port |-> port]
<1>1. /\ Call /\ checkExit(e) /\ exits' = (exits \ {old}) \cup {e}
      /\ Tell(UsedBy(e.id) \cup ServedBy(old) \cup ServedBy(e))
      /\ UNCHANGED <<nodeVars, inbounds, rules, policy, connected, faults>>
  BY DEF UpdateExit
<1>2. id \in Nat
  BY DEF IInv, Exits
<1> HIDE DEF id
<1>3. /\ e \in [id : Nat, kind : {"node", "proxy"}, node : NodeIds \cup {0}, port : Ports]
      /\ IF e.kind = "node" THEN e.node \in NodeIds /\ status[e.node] # "new" ELSE e.node = 0
      /\ ServedBy(e) \in SUBSET NodeIds /\ e.id = id
  BY <1>1, <1>2, ExitFacts
<1> HIDE DEF e
<1>4. UsedBy(e.id) \cup ServedBy(old) \cup ServedBy(e) \in SUBSET (NodeIds \cup {0})
  BY <1>3, ServedByFacts DEF IInv
<1>5. Nodes' /\ Existing' = Existing
  BY <1>1, <1>4, StatusStays DEF IInv, Nodes
<1>6. IsFiniteSet(exits')
  <2>1. IsFiniteSet(exits \ {old})
    BY FS_RemoveElement DEF IInv, Exits
  <2> QED
    BY <1>1, <2>1, FS_AddElement
<1>7. Exits'
  BY <1>1, <1>3, <1>6 DEF IInv, Exits, nodeVars, id
<1>8. Rows' /\ Placed'
  BY <1>1, <1>5 DEF IInv, Rows, Placed
<1> QED
  BY <1>5, <1>7, <1>8 DEF IInv

LEMMA DeleteExitKeeps ==
  ASSUME IInv, NEW e \in exits, DeleteExit(e)
  PROVE  IInv' /\ Existing' = Existing
<1>1. /\ Call /\ exits' = exits \ {e} /\ rules' = [n \in NodeIds |-> rules[n] \ {e.id}] /\ Tell(ServedBy(e))
      /\ UNCHANGED <<nodeVars, inbounds, policy, connected, faults>>
  BY DEF DeleteExit
<1>2. rules' \in [NodeIds -> SUBSET Nat]
  BY <1>1 DEF IInv, Nodes
<1>3. Nodes' /\ Existing' = Existing
  <2>1. ServedBy(e) \in SUBSET (NodeIds \cup {0})
    BY ServedByFacts DEF IInv
  <2> QED
    BY <1>1, <1>2, <2>1, StatusStays
<1>4. IsFiniteSet(exits')
  BY <1>1, FS_RemoveElement DEF IInv, Exits
<1>5. Exits' /\ Rows' /\ Placed'
  BY <1>1, <1>3, <1>4 DEF IInv, Exits, Rows, Placed, nodeVars
<1> QED
  BY <1>3, <1>5 DEF IInv

LEMMA RulesKeeps ==
  ASSUME IInv, SetPolicy \/ \E n \in NodeIds, ids \in SUBSET {e.id : e \in exits} : SetNodeUnlock(n, ids)
  PROVE  IInv' /\ Existing' = Existing
<1>1. Exits' /\ Rows' /\ Existing' = Existing /\ Placed'
  BY DEF SetPolicy, SetNodeUnlock, IInv, Exits, Rows, Placed, Existing, nodeVars, unlockVars
<1>2. CASE SetPolicy
  <2>1. pending' \subseteq NodeIds
    <3>1. Existing \in SUBSET (NodeIds \cup {0})
      BY ExistingFacts
    <3> QED
      BY <1>2, <3>1, TellFacts DEF SetPolicy, IInv
  <2>2. policy' \in 0..1
    BY <1>2 DEF SetPolicy, IInv, Nodes
  <2>3. Nodes'
    BY <1>2, <2>1, <2>2, CallFacts DEF SetPolicy, IInv, Nodes, nodeVars, unlockVars
  <2> QED
    BY <1>1, <2>3 DEF IInv
<1>3. ASSUME NEW n \in NodeIds, NEW ids \in SUBSET {e.id : e \in exits}, SetNodeUnlock(n, ids) PROVE IInv'
  <2>1. rules' \in [NodeIds -> SUBSET Nat]
    <3>1. ids \in SUBSET Nat
      BY DEF IInv, Exits
    <3> QED
      BY <1>3, <3>1 DEF SetNodeUnlock, IInv, Nodes
  <2>2. Nodes'
    <3>1. {n} \in SUBSET (NodeIds \cup {0})
      OBVIOUS
    <3> QED
      BY <1>3, <2>1, <3>1, StatusStays DEF SetNodeUnlock
  <2> QED
    BY <1>1, <2>2 DEF IInv
<1> QED
  BY <1>1, <1>2, <1>3

\* The forms as Next has them.
LEMMA Forms ==
  ASSUME IInv, [Next]_vars
  PROVE  \/ \E n \in NodeIds : Push(n) \/ Connect(n) \/ Disconnect(n)
         \/ PanelRestart \/ UNCHANGED vars
         \/ \E n \in NodeIds, a \in Addrs, nm \in Names : CreateNode(n, a, nm)
         \/ \E n \in NodeIds, st \in {"on", "off"}, a \in Addrs, nm \in Names : UpdateNode(n, st, a, nm)
         \/ \E n \in NodeIds : DeleteNode(n)
         \/ \E from \in Addrs, to \in Addrs : MovePanelHost(from, to)
         \/ \E n \in NodeIds, kind \in Kinds, port \in Ports, hops \in Hops, relay \in Relays :
              CreateInbound(n, kind, port, hops, relay)
         \/ \E in \in inbounds, port \in Ports, hops \in SUBSET Ports, relay \in (NodeIds \cup {0}) \X (Ports \cup {0}),
               tag \in (Kinds \cup {"hand"}) \X Nat \X Nat : EditInbound(in, port, hops, relay, tag)
         \/ \E in \in inbounds : SetInboundEnabled(in, ~in.on) \/ DeleteInbound(in)
         \/ \E port \in Ports, kind \in {"node", "proxy"}, n \in NodeIds \cup {0} :
              /\ (kind = "proxy" /\ n = 0) \/ (kind = "node" /\ n \in NodeIds)
              /\ CreateExit(kind, n, port) \/ \E e \in exits : UpdateExit(e, kind, n, port)
         \/ \E e \in exits : DeleteExit(e)
         \/ SetPolicy \/ \E n \in NodeIds, ids \in SUBSET {e.id : e \in exits} : SetNodeUnlock(n, ids)
<1>1. CASE NodeForms
  <2>1. PICK n \in NodeIds :
          \/ \E a \in Addrs, nm \in Names : CreateNode(n, a, nm) \/ UpdateNode(n, status[n], a, nm)
          \/ UpdateNode(n, IF status[n] = "on" THEN "off" ELSE "on", addr[n], name[n])
          \/ DeleteNode(n)
    BY <1>1 DEF NodeForms
  <2>2. \A st, a, nm : UpdateNode(n, st, a, nm) => status[n] \in {"on", "off"}
    BY DEF UpdateNode, Existing
  <2>3. addr[n] \in Addrs /\ name[n] \in Names
    BY DEF IInv, Nodes
  <2>4. (IF status[n] = "on" THEN "off" ELSE "on") \in {"on", "off"}
    OBVIOUS
  <2> QED
    BY <2>1, <2>2, <2>3, <2>4
<1>2. CASE InboundForms
  <2>1. \A relay \in Relays : relay \in (NodeIds \cup {0}) \X (Ports \cup {0})
    BY DEF Relays
  <2>2. \A hops \in Hops : hops \in SUBSET Ports
    BY ConfigAssumption
  <2>3. \A in \in inbounds : /\ <<in.relay, in.rport>> \in (NodeIds \cup {0}) \X (Ports \cup {0})
                             /\ in.port \in Ports /\ in.hops \in SUBSET Ports
                             /\ in.tag \in (Kinds \cup {"hand"}) \X Nat \X Nat
    BY RowFacts DEF IInv
  <2>4. HandTag \in (Kinds \cup {"hand"}) \X Nat \X Nat
    BY DEF HandTag
  <2>5. CASE \E port \in Ports, hops \in Hops, relay \in Relays :
               \E n \in NodeIds, kind \in Kinds : CreateInbound(n, kind, port, hops, relay)
    BY <2>5
  <2>6. CASE \E port \in Ports, hops \in Hops, relay \in Relays :
               \E in \in inbounds : EditInbound(in, port, hops, relay, in.tag)
    BY <2>1, <2>2, <2>3, <2>6
  <2>7. CASE \E in \in inbounds : EditInbound(in, in.port, in.hops, <<in.relay, in.rport>>, HandTag)
    BY <2>3, <2>4, <2>7
  <2>8. CASE \E in \in inbounds : SetInboundEnabled(in, ~in.on) \/ DeleteInbound(in)
    BY <2>8
  <2> QED
    BY <1>2, <2>5, <2>6, <2>7, <2>8 DEF InboundForms
<1>3. CASE ExitForms
  <2>1. CASE \E e \in exits : DeleteExit(e)
    BY <2>1
  <2>2. ASSUME NEW port \in Ports, NEW place \in ({"proxy"} \X {0}) \cup ({"node"} \X NodeIds),
               CreateExit(place[1], place[2], port) \/ \E e \in exits : UpdateExit(e, place[1], place[2], port)
        PROVE  \E kind \in {"node", "proxy"}, n \in NodeIds \cup {0} :
                 /\ (kind = "proxy" /\ n = 0) \/ (kind = "node" /\ n \in NodeIds)
                 /\ CreateExit(kind, n, port) \/ \E e \in exits : UpdateExit(e, kind, n, port)
    <3>1. (place[1] = "proxy" /\ place[2] = 0) \/ (place[1] = "node" /\ place[2] \in NodeIds)
      <4>1. CASE place \in {"proxy"} \X {0}
        BY <4>1
      <4>2. CASE place \in {"node"} \X NodeIds
        BY <4>2
      <4> QED
        BY <4>1, <4>2
    <3> QED
      BY <2>2, <3>1
  <2> QED
    BY <1>3, <2>1, <2>2 DEF ExitForms
<1>4. CASE RuleForms
  BY <1>4 DEF RuleForms
<1> QED
  BY <1>1, <1>2, <1>3, <1>4 DEF Next, Service

LEMMA InvariantHolds == IInv /\ [Next]_vars => IInv'
<1> SUFFICES ASSUME IInv, [Next]_vars PROVE IInv'
  OBVIOUS
<1>1. ASSUME NEW in \in inbounds, NEW port \in Ports, NEW hops \in SUBSET Ports,
             NEW relay \in (NodeIds \cup {0}) \X (Ports \cup {0}),
             NEW tag \in (Kinds \cup {"hand"}) \X Nat \X Nat, EditInbound(in, port, hops, relay, tag)
      PROVE  IInv'
  <2>1. relay[1] \in NodeIds \cup {0} /\ relay[2] \in Ports \cup {0}
    OBVIOUS
  <2> QED
    BY <1>1, <2>1, EditInboundKeeps
<1>2. ASSUME NEW port \in Ports, NEW kind \in {"node", "proxy"}, NEW n \in NodeIds \cup {0},
             (kind = "proxy" /\ n = 0) \/ (kind = "node" /\ n \in NodeIds),
             CreateExit(kind, n, port) \/ \E e \in exits : UpdateExit(e, kind, n, port)
      PROVE  IInv'
  BY <1>2, CreateExitKeeps, UpdateExitKeeps
<1> QED
  BY <1>1, <1>2, Forms, PushKeeps, RestartKeeps, CreateNodeKeeps, UpdateNodeKeeps, DeleteNodeKeeps,
     MovePanelHostKeeps, CreateInboundKeeps, SwitchKeeps, DeleteExitKeeps, RulesKeeps

LEMMA Triple == ASSUME NEW a, NEW b, NEW c PROVE IsFiniteSet({a, b, c})
<1>1. IsFiniteSet({a})
  BY FS_Singleton
<1>2. IsFiniteSet({a} \cup {b})
  BY <1>1, FS_AddElement
<1>3. IsFiniteSet(({a} \cup {b}) \cup {c})
  BY <1>2, FS_AddElement
<1>4. ({a} \cup {b}) \cup {c} = {a, b, c}
  OBVIOUS
<1> QED
  BY <1>3, <1>4

LEMMA InvariantStarts == Init => IInv
<1> SUFFICES ASSUME Init PROVE IInv
  OBVIOUS
<1>1. /\ {1, 2, 3} \subseteq NodeIds /\ {1, 2, 3} \subseteq Ports /\ {1, 2} \subseteq Addrs
      /\ NodeIds \subseteq Names /\ 0 \notin NodeIds
  BY ConfigAssumption
<1> DEFINE one == [id |-> 1, node |-> 1, kind |-> "xhttp", tag |-> <<"xhttp", 1, 1>>, port |-> 1, hops |-> {},
                   sni |-> 0, relay |-> 2, rport |-> 2, on |-> TRUE]
           two == [id |-> 2, node |-> 2, kind |-> "xhttp", tag |-> <<"xhttp", 2, 1>>, port |-> 1, hops |-> {},
                   sni |-> 0, relay |-> 0, rport |-> 0, on |-> TRUE]
           three == [id |-> 3, node |-> 3, kind |-> "hysteria2", tag |-> <<"hysteria2", 0, 1>>, port |-> 1,
                     hops |-> {2}, sni |-> 1, relay |-> 0, rport |-> 0, on |-> FALSE]
           four == [id |-> 1, kind |-> "node", node |-> 2, port |-> 3]
           five == [id |-> 2, kind |-> "node", node |-> 3, port |-> 3]
<1>2. status = [n \in NodeIds |-> IF n <= 2 THEN "on" ELSE IF n = 3 THEN "off" ELSE "new"]
  BY DEF Init
<1>3. status[1] = "on" /\ status[2] = "on" /\ status[3] = "off"
  BY <1>1, <1>2
<1>4. 1 \in Existing /\ 2 \in Existing /\ 3 \in Existing
  BY <1>1, <1>3 DEF Existing
<1>5. inbounds = {one, two, three} /\ exits = {four, five}
  BY DEF Init
<1>6. one \in Inbound /\ two \in Inbound /\ three \in Inbound
  BY <1>1 DEF Inbound, Kinds
<1>7. Rows
  <2>1. IsFiniteSet(inbounds)
    BY <1>5, Triple
  <2>2. one.relay # one.node /\ two.relay # two.node /\ three.relay # three.node
    OBVIOUS
  <2>3. one.id # two.id /\ one.id # three.id /\ two.id # three.id
    OBVIOUS
  <2>4. one.tag # two.tag /\ one.tag # three.tag /\ two.tag # three.tag
    OBVIOUS
  <2> HIDE DEF one, two, three
  <2> QED
    BY <1>5, <1>6, <2>1, <2>2, <2>3, <2>4 DEF Rows
<1>8. Placed
  <2>1. one.relay = 2 /\ one.node = 1 /\ two.relay = 0 /\ two.node = 2 /\ three.relay = 0 /\ three.node = 3
    OBVIOUS
  <2> HIDE DEF one, two, three
  <2> QED
    BY <1>4, <1>5, <2>1 DEF Placed
<1>9. Exits
  <2>1. IsFiniteSet(exits)
    <3>1. exits = {four, five, five}
      BY <1>5
    <3> HIDE DEF four, five
    <3> QED
      BY <3>1, Triple
  <2>2. /\ four \in [id : Nat, kind : {"node", "proxy"}, node : NodeIds \cup {0}, port : Ports]
        /\ five \in [id : Nat, kind : {"node", "proxy"}, node : NodeIds \cup {0}, port : Ports]
    BY <1>1
  <2>3. four.id # five.id /\ four.kind = "node" /\ five.kind = "node" /\ four.node = 2 /\ five.node = 3
    OBVIOUS
  <2> HIDE DEF four, five
  <2> QED
    BY <1>1, <1>3, <1>5, <2>1, <2>2, <2>3 DEF Exits
<1>10. Nodes
  <2>1. addr \in [NodeIds -> Addrs] /\ name \in [NodeIds -> Names] /\ rules \in [NodeIds -> SUBSET Nat]
    BY <1>1 DEF Init
  <2>2. status \in [NodeIds -> {"new", "on", "off", "gone"}]
    BY <1>2
  <2>3. policy = 0 /\ connected = {1, 2} /\ pending = {} /\ calls = 0 /\ faults = 0
    BY DEF Init
  <2> QED
    BY <1>1, <1>3, <2>1, <2>2, <2>3, ConfigAssumption DEF Nodes
<1> QED
  BY <1>7, <1>8, <1>9, <1>10 DEF IInv

LEMMA InvariantAlways == Spec => []IInv
  BY InvariantStarts, InvariantHolds, PTL DEF Spec

\* Rows keep their types whatever is edited, in any circumstance; no two inbounds
\* have a tag or an identifier in common, also when a node is renamed
\* (node_rename.go, retagNodeInbounds), and none is left on or relayed by a node
\* that is not there.
THEOREM TypeCorrect == Spec => []TypeOK
  BY InvariantAlways, ImpliesTypeOK, PTL

-----------------------------------------------------------------------------
(* Ports that are redirected *)

\* An inbound as far as ports and relays go.
Wires(i, j) ==
  j.id = i.id /\ j.node = i.node /\ j.port = i.port /\ j.hops = i.hops /\ j.relay = i.relay /\ j.rport = i.rport

\* Only the form of an inbound changes them, and that one has been checked.
LEMMA Edited ==
  ASSUME IInv, [Next]_vars
  PROVE  \/ \A j \in inbounds' : \E i \in inbounds : Wires(i, j)
         \/ \E new \in Inbound : /\ Accepted(new)
                                 /\ \A j \in inbounds' : j = new \/ (j \in inbounds /\ j.id # new.id)
<1>1. CASE UNCHANGED inbounds
  BY <1>1 DEF Wires
<1>2. ASSUME NEW n \in NodeIds, NEW st \in {"on", "off"}, NEW a \in Addrs, NEW nm \in Names,
             UpdateNode(n, st, a, nm)
      PROVE  \A j \in inbounds' : \E i \in inbounds : Wires(i, j)
  <2> DEFINE g == Renamed(n, nm)
  <2>1. /\ inbounds' = {g[i] : i \in inbounds}
        /\ \A i \in inbounds : g[i] = [i EXCEPT !.tag = g[i].tag]
    BY <1>2, UpdateNodeFacts
  <2> HIDE DEF g
  <2>2. \A i \in inbounds : Wires(i, g[i])
    BY <2>1, RowFacts DEF IInv, Wires, Inbound
  <2> QED
    BY <2>1, <2>2
<1>3. ASSUME NEW from \in Addrs, NEW to \in Addrs, MovePanelHost(from, to)
      PROVE  \A j \in inbounds' : \E i \in inbounds : Wires(i, j)
  <2> DEFINE g == Moved(from, to)
  <2>1. /\ inbounds' = {g[i] : i \in inbounds}
        /\ \A i \in inbounds : g[i] = IF i.sni = from THEN [i EXCEPT !.sni = to] ELSE i
    BY <1>3, MovePanelHostKeeps DEF Moved
  <2> HIDE DEF g
  <2>2. \A i \in inbounds : Wires(i, g[i])
    BY <2>1, RowFacts DEF IInv, Wires, Inbound
  <2> QED
    BY <2>1, <2>2
<1>4. ASSUME NEW n \in NodeIds, NEW kind \in Kinds, NEW port \in Ports, NEW hops \in Hops,
             NEW relay \in Relays, CreateInbound(n, kind, port, hops, relay)
      PROVE  \E new \in Inbound : /\ Accepted(new)
                                  /\ \A j \in inbounds' : j = new \/ (j \in inbounds /\ j.id # new.id)
  <2> DEFINE in == BuildInbound(n, kind, port, hops, relay)
  <2>1. Accepted(in)
    BY <1>4 DEF CreateInbound
  <2>2. in \in Inbound /\ inbounds' = inbounds \cup {in} /\ \A other \in inbounds : other.id # in.id
    BY <1>4, CreateInboundKeeps
  <2> HIDE DEF in
  <2> QED
    BY <2>1, <2>2
<1>5. ASSUME NEW in \in inbounds, NEW port \in Ports, NEW hops \in SUBSET Ports,
             NEW relay \in (NodeIds \cup {0}) \X (Ports \cup {0}),
             NEW tag \in (Kinds \cup {"hand"}) \X Nat \X Nat, EditInbound(in, port, hops, relay, tag)
      PROVE  \E new \in Inbound : /\ Accepted(new)
                                  /\ \A j \in inbounds' : j = new \/ (j \in inbounds /\ j.id # new.id)
  <2> DEFINE new == [in EXCEPT !.port = port, !.hops = hops, !.relay = relay[1], !.rport = relay[2], !.tag = tag]
  <2>1. relay[1] \in NodeIds \cup {0} /\ relay[2] \in Ports \cup {0}
    OBVIOUS
  <2>2. new \in Inbound /\ new.id = in.id
    <3>1. in \in Inbound
      BY RowFacts DEF IInv
    <3> QED
      BY <2>1, <3>1 DEF Inbound
  <2>3. Accepted(new) /\ inbounds' = (inbounds \ {in}) \cup {new}
    BY <1>5 DEF EditInbound
  <2> HIDE DEF new
  <2>4. \A j \in inbounds : j # in => j.id # in.id
    BY DEF IInv, Rows
  <2> QED
    BY <2>2, <2>3, <2>4
<1>6. ASSUME NEW in \in inbounds, SetInboundEnabled(in, ~in.on) \/ DeleteInbound(in)
      PROVE  \A j \in inbounds' : \E i \in inbounds : Wires(i, j)
  <2>1. CASE DeleteInbound(in)
    BY <2>1 DEF DeleteInbound, Wires
  <2>2. CASE SetInboundEnabled(in, ~in.on)
    <3> DEFINE new == [in EXCEPT !.on = ~in.on]
    <3>1. Wires(in, new)
      BY RowFacts DEF IInv, Wires, Inbound
    <3>2. inbounds' = (inbounds \ {in}) \cup {new}
      BY <2>2 DEF SetInboundEnabled
    <3> HIDE DEF new
    <3>3. \A i \in inbounds : Wires(i, i)
      BY DEF Wires
    <3> QED
      BY <3>1, <3>2, <3>3
  <2> QED
    BY <1>6, <2>1, <2>2
<1>7. ASSUME NEW n \in NodeIds, DeleteNode(n)
      PROVE  \A j \in inbounds' : \E i \in inbounds : Wires(i, j)
  BY <1>7 DEF DeleteNode, Wires
<1>8. (\E n \in NodeIds : Push(n) \/ Connect(n) \/ Disconnect(n)) \/ PanelRestart \/ UNCHANGED vars => UNCHANGED inbounds
  BY DEF Push, Connect, Disconnect, PanelRestart, vars, dbVars
<1>9. (\E n \in NodeIds, a \in Addrs, nm \in Names : CreateNode(n, a, nm)) => UNCHANGED inbounds
  BY DEF CreateNode
<1>10. \A kind, n, port : CreateExit(kind, n, port) \/ (\E e \in exits : UpdateExit(e, kind, n, port)) => UNCHANGED inbounds
  BY DEF CreateExit, UpdateExit
<1>11. (\E e \in exits : DeleteExit(e)) \/ SetPolicy \/ (\E n, ids : SetNodeUnlock(n, ids)) => UNCHANGED inbounds
  BY DEF DeleteExit, SetPolicy, SetNodeUnlock
<1> QED
  BY <1>1, <1>2, <1>3, <1>4, <1>5, <1>6, <1>7, <1>8, <1>9, <1>10, <1>11, Forms

LEMMA HopsKeep == IInv /\ HopsApart /\ [Next]_vars => HopsApart'
<1> SUFFICES ASSUME IInv, HopsApart, [Next]_vars PROVE HopsApart'
  OBVIOUS
<1>1. Rows'
  BY InvariantHolds DEF IInv
<1> SUFFICES ASSUME NEW in \in inbounds', NEW other \in inbounds', in # other
             PROVE  /\ in.node = other.node => in.hops \cap ({other.port} \cup other.hops) = {}
                    /\ in.node = other.relay => other.rport \notin in.hops
  BY DEF HopsApart
<1>2. in.id # other.id
  BY <1>1 DEF Rows
<1>3. CASE \A j \in inbounds' : \E i \in inbounds : Wires(i, j)
  <2>1. PICK i \in inbounds, o \in inbounds : Wires(i, in) /\ Wires(o, other)
    BY <1>3
  <2>2. i # o
    BY <1>2, <2>1 DEF Wires
  <2> QED
    BY <2>1, <2>2 DEF Wires, HopsApart
<1>4. ASSUME NEW new \in Inbound, Accepted(new),
             \A j \in inbounds' : j = new \/ (j \in inbounds /\ j.id # new.id)
      PROVE  /\ in.node = other.node => in.hops \cap ({other.port} \cup other.hops) = {}
             /\ in.node = other.relay => other.rport \notin in.hops
  <2>1. CASE in = new
    <3>1. other \in inbounds /\ other.id # in.id
      BY <1>2, <1>4, <2>1
    <3> QED
      BY <1>4, <2>1, <3>1 DEF Accepted, checkHopConflicts
  <2>2. CASE other = new
    <3>1. in \in inbounds /\ in.id # new.id
      BY <1>2, <1>4, <2>2
    <3>2. in.node # 0
      BY <3>1, RowFacts, ExistingFacts DEF IInv
    <3> QED
      BY <1>4, <2>2, <3>1, <3>2 DEF Accepted, checkHopConflicts
  <2>3. CASE in # new /\ other # new
    BY <1>4, <2>3 DEF HopsApart
  <2> QED
    BY <2>1, <2>2, <2>3
<1> QED
  BY <1>3, <1>4, Edited

\* The rows it starts with, as far as ports and relays go.
LEMMA FirstRows ==
  ASSUME Init
  PROVE  \E one, two, three :
           /\ inbounds = {one, two, three}
           /\ one.node = 1 /\ one.hops = {} /\ one.relay = 2
           /\ two.node = 2 /\ two.hops = {} /\ two.relay = 0
           /\ three.node = 3 /\ three.relay = 0
<1> DEFINE one == [id |-> 1, node |-> 1, kind |-> "xhttp", tag |-> <<"xhttp", 1, 1>>, port |-> 1, hops |-> {},
                   sni |-> 0, relay |-> 2, rport |-> 2, on |-> TRUE]
           two == [id |-> 2, node |-> 2, kind |-> "xhttp", tag |-> <<"xhttp", 2, 1>>, port |-> 1, hops |-> {},
                   sni |-> 0, relay |-> 0, rport |-> 0, on |-> TRUE]
           three == [id |-> 3, node |-> 3, kind |-> "hysteria2", tag |-> <<"hysteria2", 0, 1>>, port |-> 1,
                     hops |-> {2}, sni |-> 1, relay |-> 0, rport |-> 0, on |-> FALSE]
<1>1. inbounds = {one, two, three}
  BY DEF Init
<1>2. /\ one.node = 1 /\ one.hops = {} /\ one.relay = 2
      /\ two.node = 2 /\ two.hops = {} /\ two.relay = 0
      /\ three.node = 3 /\ three.relay = 0
  OBVIOUS
<1> HIDE DEF one, two, three
<1> QED
  BY <1>1, <1>2

\* No edit makes a hop range take in the port of another listener of the node, in
\* any circumstance (hopping.go, checkHopConflicts).
THEOREM RangesStayApart == Spec => []HopsApart
<1>1. Init => HopsApart
  <2> SUFFICES ASSUME Init, NEW in \in inbounds, NEW other \in inbounds, in # other
               PROVE  /\ in.node = other.node => in.hops \cap ({other.port} \cup other.hops) = {}
                      /\ in.node = other.relay => other.rport \notin in.hops
    BY DEF HopsApart
  <2>1. PICK one, two, three :
          /\ inbounds = {one, two, three}
          /\ one.node = 1 /\ one.hops = {} /\ one.relay = 2
          /\ two.node = 2 /\ two.hops = {} /\ two.relay = 0
          /\ three.node = 3 /\ three.relay = 0
    BY FirstRows
  <2>2. in.node # other.node /\ (in.hops = {} \/ (in.node = 3 /\ other.relay # 3))
    BY <2>1
  <2> QED
    BY <2>2
<1> QED
  BY <1>1, HopsKeep, InvariantAlways, PTL DEF Spec

-----------------------------------------------------------------------------
(* Who is told *)

LEMMA Itself == \A n, i : SameFor(n, i, i)
  BY DEF SameFor, SameOwn, SameRelay

\* A node sees nothing of rows that were not written.
LEMMA RowsStay == ASSUME NEW n \in NodeIds, inbounds' = inbounds PROVE UnseenBy(n)
  BY Itself DEF UnseenBy

LEMMA PlacesStay == ASSUME NEW n \in NodeIds, UNCHANGED <<addr, status>> PROVE SameOrigins(n)
  BY DEF SameOrigins

LEMMA ExitRowsStay ==
  ASSUME NEW n \in NodeIds, UNCHANGED <<addr, status, exits>>, rules'[n] = rules[n] PROVE SameExits(n)
  BY DEF SameExits

\* A new node changes nothing for the others: no row mentions a number never given.
LEMMA CreateNodeUntold ==
  ASSUME IInv, "reused_id" \notin Circumstances, NEW n \in NodeIds, NEW a \in Addrs, NEW nm \in Names,
         CreateNode(n, a, nm), NEW m \in NodeIds, m \in Existing', m \in connected
  PROVE  m \in Existing /\ Config(m)' = Config(m)
<1>1. /\ status[n] = "new" /\ UNCHANGED <<inbounds, exits, rules, policy>>
      /\ status' = [status EXCEPT ![n] = "on"] /\ addr' = [addr EXCEPT ![n] = a]
  BY DEF CreateNode, unlockVars
<1>2. m # n /\ m \in Existing
  BY <1>1, CreateNodeKeeps DEF IInv, Nodes
<1>3. \A k \in NodeIds \ {n} : status'[k] = status[k] /\ addr'[k] = addr[k]
  BY <1>1 DEF IInv, Nodes
<1>4. SameOrigins(m)
  <2>1. \A i \in inbounds : i.node \in NodeIds \ {n}
    BY <1>1 DEF IInv, Placed, Existing
  <2> QED
    BY <1>3, <2>1 DEF SameOrigins
<1>5. SameExits(m)
  <2>1. \A e \in exits : e.kind = "node" => e.node \in NodeIds \ {n}
    BY <1>1 DEF IInv, Exits
  <2> QED
    BY <1>1, <1>3, <2>1 DEF SameExits
<1> QED
  BY <1>1, <1>2, <1>3, <1>4, <1>5, RowsStay, SameConfig

\* The node whose address, name or status is edited, and the nodes that relay for it.
LEMMA UpdateNodeUntold ==
  ASSUME IInv, "exit_nodes" \notin Circumstances, NEW n \in NodeIds, NEW st \in {"on", "off"}, NEW a \in Addrs,
         NEW nm \in Names, UpdateNode(n, st, a, nm), NEW m \in NodeIds, m \in Existing', m \notin pending'
  PROVE  Config(m)' = Config(m)
<1> DEFINE g == Renamed(n, nm)
           retagged == IF nm = name[n] THEN InboundsOf(n) ELSE {Retagged(in, nm) : in \in InboundsOf(n)}
           changed == st # status[n] \/ retagged # InboundsOf(n)
           S == (IF changed THEN {n} ELSE {}) \cup (IF changed \/ a # addr[n] THEN RelayHosts(InboundsOf(n)) ELSE {})
<1>1. /\ status' = [status EXCEPT ![n] = st] /\ addr' = [addr EXCEPT ![n] = a] /\ Tell(S)
      /\ inbounds' = (inbounds \ InboundsOf(n)) \cup retagged
      /\ (a = addr[n] /\ st = status[n]) \/ ExitUsers(n) = {}
      /\ UNCHANGED <<exits, rules, policy>>
  BY DEF UpdateNode, unlockVars
<1>2. m \in Existing
  BY UpdateNodeKeeps
<1>3. m \notin S
  <2>1. RelayHosts(InboundsOf(n)) \in SUBSET NodeIds
    BY RelayHostsFacts DEF IInv, InboundsOf
  <2>2. S \in SUBSET (NodeIds \cup {0})
    BY <2>1
  <2> HIDE DEF S
  <2> QED
    BY <1>1, <2>2, TellFacts DEF IInv
<1>4. changed => m # n
  BY <1>3
<1>5. changed \/ a # addr[n] => \A i \in inbounds : i.relay = m => i.node # n
  <2>1. changed \/ a # addr[n] => m \notin RelayHosts(InboundsOf(n))
    BY <1>3
  <2> QED
    BY <2>1, ExistingFacts DEF RelayHosts, InboundsOf
<1>6. \A k \in NodeIds : k # n => status'[k] = status[k] /\ addr'[k] = addr[k]
  BY <1>1 DEF IInv, Nodes
<1>7. status'[n] = st /\ addr'[n] = a
  BY <1>1 DEF IInv, Nodes
<1>8. UnseenBy(m)
  <2>1. CASE changed
    <3>1. m # n /\ \A i \in inbounds : i.relay = m => i.node # n
      BY <1>4, <1>5, <2>1
    <3>2. /\ inbounds' = {g[i] : i \in inbounds}
          /\ \A i \in inbounds : g[i] = [i EXCEPT !.tag = g[i].tag] /\ (i.node # n => g[i] = i)
      BY UpdateNodeFacts
    <3> HIDE DEF g, changed
    <3>3. \A i \in inbounds : g[i].relay = i.relay /\ g[i].node = i.node
      BY <3>2, RowFacts DEF IInv, Inbound
    <3>4. \A i \in inbounds : (i.node = m \/ i.relay = m) => g[i] = i
      BY <3>1, <3>2
    <3> QED
      BY <3>2, <3>3, <3>4, Itself DEF UnseenBy
  <2>2. CASE ~changed
    <3>1. inbounds' = inbounds
      BY <1>1, <2>2 DEF InboundsOf
    <3> QED
      BY <3>1, RowsStay
  <2> QED
    BY <2>1, <2>2
<1>9. SameOrigins(m)
  <2>1. ASSUME NEW i \in inbounds, i.relay = m
        PROVE  addr'[i.node] = addr[i.node] /\ status'[i.node] = status[i.node]
    <3>1. i.node \in NodeIds
      BY RowFacts DEF IInv
    <3>2. CASE i.node = n
      BY <1>5, <1>7, <2>1, <3>2
    <3>3. CASE i.node # n
      BY <1>6, <3>1, <3>3
    <3> QED
      BY <3>2, <3>3
  <2> HIDE DEF changed
  <2> QED
    BY <2>1 DEF SameOrigins
<1>10. SameExits(m)
  <2>1. ASSUME NEW e \in exits, e.id \in rules[m], e.kind = "node"
        PROVE  addr'[e.node] = addr[e.node] /\ status'[e.node] = status[e.node]
    <3>1. e.node \in NodeIds
      BY <2>1 DEF IInv, Exits
    <3>2. CASE e.node = n
      <4>1. m \in ExitUsers(n)
        BY <1>2, <2>1, <3>2 DEF ExitUsers
      <4> QED
        BY <1>1, <1>7, <3>2, <4>1
    <3>3. CASE e.node # n
      BY <1>6, <3>1, <3>3
    <3> QED
      BY <3>2, <3>3
  <2> QED
    BY <1>1, <2>1 DEF SameExits
<1>11. status'[m] = status[m]
  BY <1>4, <1>6, <1>7
<1> HIDE DEF changed
<1> QED
  BY <1>1, <1>8, <1>9, <1>10, <1>11, SameConfig

LEMMA DeleteNodeUntold ==
  ASSUME IInv, "exit_nodes" \notin Circumstances, NEW n \in NodeIds, DeleteNode(n),
         NEW m \in NodeIds, m \in Existing', m \notin pending'
  PROVE  m \in Existing /\ Config(m)' = Config(m)
<1>1. /\ ExitUsers(n) = {} /\ status' = [status EXCEPT ![n] = "gone"]
      /\ inbounds' = inbounds \ InboundsOf(n) /\ Tell(RelayHosts(InboundsOf(n)))
      /\ UNCHANGED <<addr, exits, rules, policy>>
  BY DEF DeleteNode, unlockVars
<1>2. m # n /\ m \in Existing
  BY DeleteNodeKeeps
<1>3. m \notin RelayHosts(InboundsOf(n))
  <2>1. RelayHosts(InboundsOf(n)) \in SUBSET (NodeIds \cup {0})
    BY RelayHostsFacts DEF IInv, InboundsOf
  <2> QED
    BY <1>1, <2>1, TellFacts DEF IInv
<1>4. \A i \in inbounds : i.relay = m => i.node # n
  BY <1>3, ExistingFacts DEF RelayHosts, InboundsOf
<1>5. \A k \in NodeIds : k # n => status'[k] = status[k]
  BY <1>1 DEF IInv, Nodes
<1>6. UnseenBy(m)
  <2>1. \A i \in inbounds : (i.node = m \/ i.relay = m) => i \in inbounds'
    BY <1>1, <1>2, <1>4 DEF InboundsOf
  <2> QED
    BY <1>1, <2>1, Itself DEF UnseenBy
<1>7. SameOrigins(m)
  <2>1. \A i \in inbounds : i.node \in NodeIds
    BY RowFacts DEF IInv
  <2> QED
    BY <1>1, <1>4, <1>5, <2>1 DEF SameOrigins
<1>8. SameExits(m)
  <2>1. \A e \in exits : e.id \in rules[m] /\ e.kind = "node" => e.node \in NodeIds /\ e.node # n
    BY <1>1, <1>2 DEF IInv, Exits, ExitUsers
  <2> QED
    BY <1>1, <1>5, <2>1 DEF SameExits
<1> QED
  BY <1>1, <1>2, <1>5, <1>6, <1>7, <1>8, SameConfig

\* The nodes that relay for one that moved, those whose certificate is for the old
\* name, and the hosts of those inbounds.
LEMMA MovePanelHostUntold ==
  ASSUME IInv, "exit_nodes" \notin Circumstances, NEW from \in Addrs, NEW to \in Addrs, MovePanelHost(from, to),
         NEW m \in NodeIds, m \in Existing', m \notin pending'
  PROVE  Config(m)' = Config(m)
<1> DEFINE g == Moved(from, to)
           moving == {n \in Existing : addr[n] = from}
           renamed == {in \in inbounds : in.sni = from}
           movers == UNION {RelayHosts(InboundsOf(n)) : n \in moving}
           owners == {in.node : in \in renamed}
           S == movers \cup owners \cup RelayHosts(renamed)
<1>1. /\ addr' = [n \in NodeIds |-> IF n \in moving THEN to ELSE addr[n]]
      /\ \A n \in moving : ExitUsers(n) = {}
      /\ Tell(S)
      /\ UNCHANGED <<status, exits, rules, policy>>
  BY DEF MovePanelHost, unlockVars
<1>2. m \in Existing
  BY MovePanelHostKeeps
<1>3. m \notin movers /\ m \notin owners /\ m \notin RelayHosts(renamed)
  <2>1. \A n \in moving : RelayHosts(InboundsOf(n)) \in SUBSET NodeIds
    BY RelayHostsFacts DEF IInv, InboundsOf
  <2>2. RelayHosts(renamed) \in SUBSET NodeIds
    BY RelayHostsFacts DEF IInv
  <2>3. \A in \in renamed : in.node \in NodeIds
    BY RowFacts DEF IInv
  <2> HIDE DEF moving, renamed
  <2>4. movers \in SUBSET NodeIds
    <3> SUFFICES ASSUME NEW n \in moving, NEW x \in RelayHosts(InboundsOf(n)) PROVE x \in NodeIds
      OBVIOUS
    <3> QED
      BY <2>1
  <2>5. owners \in SUBSET NodeIds
    BY <2>3
  <2> HIDE DEF movers, owners
  <2>6. S \in SUBSET (NodeIds \cup {0})
    BY <2>2, <2>4, <2>5
  <2>7. m \notin S
    BY <1>1, <2>6, TellFacts DEF IInv
  <2> QED
    BY <2>7
<1>4. \A i \in inbounds : (i.node = m \/ i.relay = m) => i.sni # from
  BY <1>3, ExistingFacts DEF RelayHosts
<1>5. \A i \in inbounds : i.relay = m => i.node \notin moving
  <2> SUFFICES ASSUME NEW i \in inbounds, i.relay = m, i.node \in moving PROVE FALSE
    OBVIOUS
  <2>1. m \in RelayHosts(InboundsOf(i.node))
    BY ExistingFacts DEF RelayHosts, InboundsOf
  <2> QED
    BY <1>3, <2>1
<1>6. \A k \in NodeIds : k \notin moving => addr'[k] = addr[k]
  BY <1>1
<1>7. UnseenBy(m)
  <2>1. /\ inbounds' = {g[i] : i \in inbounds}
        /\ \A i \in inbounds : g[i] = IF i.sni = from THEN [i EXCEPT !.sni = to] ELSE i
    BY MovePanelHostKeeps DEF Moved
  <2> HIDE DEF g
  <2>2. \A i \in inbounds : g[i].relay = i.relay /\ g[i].node = i.node
    BY <2>1, RowFacts DEF IInv, Inbound
  <2>3. \A i \in inbounds : (i.node = m \/ i.relay = m) => g[i] = i
    BY <1>4, <2>1
  <2> QED
    BY <2>1, <2>2, <2>3, Itself DEF UnseenBy
<1>8. SameOrigins(m)
  <2>1. \A i \in inbounds : i.node \in NodeIds
    BY RowFacts DEF IInv
  <2> HIDE DEF moving
  <2> QED
    BY <1>1, <1>5, <1>6, <2>1 DEF SameOrigins
<1>9. SameExits(m)
  <2>1. \A e \in exits : e.id \in rules[m] /\ e.kind = "node" => e.node \in NodeIds /\ m \in ExitUsers(e.node)
    BY <1>2 DEF IInv, Exits, ExitUsers
  <2> HIDE DEF moving
  <2>2. \A e \in exits : e.id \in rules[m] /\ e.kind = "node" => addr'[e.node] = addr[e.node]
    BY <1>1, <1>6, <2>1
  <2> QED
    BY <1>1, <2>2 DEF SameExits
<1> QED
  BY <1>1, <1>7, <1>8, <1>9, SameConfig

LEMMA CreateInboundUntold ==
  ASSUME IInv, NEW n \in NodeIds, NEW kind \in Kinds, NEW port \in Ports, NEW hops \in Hops,
         NEW relay \in Relays, CreateInbound(n, kind, port, hops, relay),
         NEW m \in NodeIds, m \notin pending'
  PROVE  Config(m)' = Config(m)
<1> DEFINE in == BuildInbound(n, kind, port, hops, relay)
<1>1. inbounds' = inbounds \cup {in} /\ Tell({n, in.relay}) /\ UNCHANGED <<status, addr, exits, rules, policy>>
  BY DEF CreateInbound, nodeVars, unlockVars
<1>2. in \in Inbound /\ in.node = n
  BY CreateInboundKeeps
<1> HIDE DEF in
<1>3. m # in.node /\ m # in.relay
  <2>1. {n, in.relay} \in SUBSET (NodeIds \cup {0})
    BY <1>2 DEF Inbound
  <2> QED
    BY <1>1, <1>2, <2>1, TellFacts DEF IInv
<1>4. UnseenBy(m)
  BY <1>1, <1>3, Itself DEF UnseenBy
<1> QED
  BY <1>1, <1>4, PlacesStay, ExitRowsStay, SameConfig

\* The node of an inbound is told of what it shows, the hosts of what they listen to.
LEMMA EditInboundUntold ==
  ASSUME IInv, NEW in \in inbounds, NEW port \in Ports, NEW hops \in SUBSET Ports,
         NEW relay, relay[1] \in NodeIds \cup {0}, relay[2] \in Ports \cup {0},
         NEW tag \in (Kinds \cup {"hand"}) \X Nat \X Nat, EditInbound(in, port, hops, relay, tag),
         NEW m \in NodeIds, m \notin pending'
  PROVE  Config(m)' = Config(m)
<1> DEFINE new == [in EXCEPT !.port = port, !.hops = hops, !.relay = relay[1], !.rport = relay[2], !.tag = tag]
           shown == new.port # in.port \/ new.hops # in.hops \/ new.tag # in.tag
           relayChange == \/ new.relay # in.relay \/ new.rport # in.rport
                          \/ new.relay # 0 /\ (new.port # in.port \/ new.tag # in.tag)
           S == (IF shown THEN {in.node} ELSE {}) \cup (IF relayChange THEN {in.relay, new.relay} ELSE {})
<1>1. /\ inbounds' = (inbounds \ {in}) \cup {new} /\ Tell(S)
      /\ UNCHANGED <<status, addr, exits, rules, policy>>
  BY DEF EditInbound, nodeVars, unlockVars
<1>2. in \in Inbound /\ in.node \in NodeIds /\ in.relay \in NodeIds \cup {0}
  BY RowFacts DEF IInv
<1>3. /\ new.id = in.id /\ new.node = in.node /\ new.kind = in.kind /\ new.sni = in.sni /\ new.on = in.on
      /\ new.relay = relay[1]
  BY <1>2 DEF Inbound
<1>4. m \notin S
  <2>1. S \in SUBSET (NodeIds \cup {0})
    BY <1>2, <1>3
  <2> HIDE DEF S
  <2> QED
    BY <1>1, <2>1, TellFacts DEF IInv
<1> HIDE DEF new
<1>5. SameFor(m, in, new)
  <2>1. ASSUME in.relay = m \/ new.relay = m PROVE SameRelay(in, new)
    <3>1. ~relayChange
      BY <1>4, <2>1
    <3>2. new.relay = in.relay /\ new.rport = in.rport /\ new.port = in.port /\ new.tag = in.tag
      BY <2>1, <3>1, ExistingFacts
    <3> QED
      BY <1>3, <3>2 DEF SameRelay
  <2>2. in.node = m \/ new.node = m => SameOwn(in, new)
    BY <1>3, <1>4 DEF Listener, SameOwn
  <2> QED
    BY <2>1, <2>2 DEF SameFor
<1>6. UnseenBy(m)
  BY <1>1, <1>5, Itself DEF UnseenBy
<1> QED
  BY <1>1, <1>6, PlacesStay, ExitRowsStay, SameConfig

LEMMA SwitchUntold ==
  ASSUME IInv, NEW in \in inbounds, SetInboundEnabled(in, ~in.on) \/ DeleteInbound(in),
         NEW m \in NodeIds, m \notin pending'
  PROVE  Config(m)' = Config(m)
<1>1. Tell({in.node, in.relay}) /\ UNCHANGED <<status, addr, exits, rules, policy>>
  BY DEF SetInboundEnabled, DeleteInbound, nodeVars, unlockVars
<1>2. in \in Inbound /\ in.node \in NodeIds /\ in.relay \in NodeIds \cup {0}
  BY RowFacts DEF IInv
<1>3. m # in.node /\ m # in.relay
  <2>1. {in.node, in.relay} \in SUBSET (NodeIds \cup {0})
    BY <1>2
  <2> QED
    BY <1>1, <2>1, TellFacts DEF IInv
<1>4. UnseenBy(m)
  <2>1. CASE DeleteInbound(in)
    <3>1. inbounds' = inbounds \ {in}
      BY <2>1 DEF DeleteInbound
    <3> QED
      BY <1>3, <3>1, Itself DEF UnseenBy
  <2>2. CASE SetInboundEnabled(in, ~in.on)
    <3> DEFINE new == [in EXCEPT !.on = ~in.on]
    <3>1. inbounds' = (inbounds \ {in}) \cup {new}
      BY <2>2 DEF SetInboundEnabled
    <3>2. new.node = in.node /\ new.relay = in.relay
      BY <1>2 DEF Inbound
    <3> HIDE DEF new
    <3> QED
      BY <1>3, <3>1, <3>2, Itself DEF UnseenBy
  <2> QED
    BY <2>1, <2>2
<1> QED
  BY <1>1, <1>4, PlacesStay, ExitRowsStay, SameConfig

\* The node that serves an exit is told, and those that send to it.
LEMMA CreateExitUntold ==
  ASSUME IInv, NEW kind, NEW n, NEW port \in Ports,
         (kind = "proxy" /\ n = 0) \/ (kind = "node" /\ n \in NodeIds), CreateExit(kind, n, port),
         NEW m \in NodeIds, m \notin pending'
  PROVE  Config(m)' = Config(m)
<1> DEFINE e == [id |-> 1 + Max({x.id : x \in exits} \cup {0}), kind |-> kind, node |-> n, port |-> port]
<1>1. /\ exits' = exits \cup {e} /\ Tell(UsedBy(e.id) \cup ServedBy(e))
      /\ UNCHANGED <<status, addr, inbounds, rules, policy>>
  BY DEF CreateExit, nodeVars
<1>2. e.kind = kind /\ e.node = n
  OBVIOUS
<1> HIDE DEF e
<1>3. m \notin UsedBy(e.id) /\ m \notin ServedBy(e)
  <2>1. ServedBy(e) \in SUBSET (NodeIds \cup {0})
    BY <1>2 DEF ServedBy
  <2>2. UsedBy(e.id) \cup ServedBy(e) \in SUBSET (NodeIds \cup {0})
    BY <2>1 DEF UsedBy
  <2> QED
    BY <1>1, <2>2, TellFacts DEF IInv
<1>4. e.id \notin rules[m] /\ ~(e.kind = "node" /\ e.node = m)
  BY <1>3 DEF UsedBy, ServedBy
<1>5. SameExits(m)
  BY <1>1, <1>4 DEF SameExits
<1> QED
  BY <1>1, <1>5, RowsStay, PlacesStay, SameConfig

\* The node that served it before as well.
LEMMA UpdateExitUntold ==
  ASSUME IInv, NEW old \in exits, NEW kind, NEW n, NEW port \in Ports,
         (kind = "proxy" /\ n = 0) \/ (kind = "node" /\ n \in NodeIds), UpdateExit(old, kind, n, port),
         NEW m \in NodeIds, m \notin pending'
  PROVE  Config(m)' = Config(m)
<1> DEFINE e == [id |-> old.id, kind |-> kind, node |-> n, port |-> port]
<1>1. /\ exits' = (exits \ {old}) \cup {e} /\ Tell(UsedBy(e.id) \cup ServedBy(old) \cup ServedBy(e))
      /\ UNCHANGED <<status, addr, inbounds, rules, policy>>
  BY DEF UpdateExit, nodeVars
<1>2. e.kind = kind /\ e.node = n /\ e.id = old.id
  OBVIOUS
<1> HIDE DEF e
<1>3. m \notin UsedBy(e.id) /\ m \notin ServedBy(old) /\ m \notin ServedBy(e)
  <2>1. ServedBy(e) \in SUBSET (NodeIds \cup {0})
    BY <1>2 DEF ServedBy
  <2>2. UsedBy(e.id) \cup ServedBy(old) \cup ServedBy(e) \in SUBSET (NodeIds \cup {0})
    BY <2>1, ServedByFacts DEF IInv
  <2> QED
    BY <1>1, <2>2, TellFacts DEF IInv
<1>4. /\ e.id \notin rules[m] /\ old.id \notin rules[m]
      /\ ~(e.kind = "node" /\ e.node = m) /\ ~(old.kind = "node" /\ old.node = m)
  BY <1>2, <1>3 DEF UsedBy, ServedBy
<1>5. SameExits(m)
  BY <1>1, <1>4 DEF SameExits
<1> QED
  BY <1>1, <1>5, RowsStay, PlacesStay, SameConfig

LEMMA DeleteExitUntold ==
  ASSUME IInv, NEW e \in exits, DeleteExit(e), NEW m \in NodeIds, m \in Existing', m \notin pending'
  PROVE  Config(m)' = Config(m)
<1>1. /\ exits' = exits \ {e} /\ rules' = [n \in NodeIds |-> rules[n] \ {e.id}] /\ Tell(ServedBy(e))
      /\ UsedBy(e.id) \cap Existing = {}
      /\ UNCHANGED <<status, addr, inbounds, policy>>
  BY DEF DeleteExit, nodeVars
<1>2. m \in Existing
  BY DeleteExitKeeps
<1>3. m \notin UsedBy(e.id) /\ m \notin ServedBy(e)
  <2>1. ServedBy(e) \in SUBSET (NodeIds \cup {0})
    BY ServedByFacts DEF IInv
  <2> QED
    BY <1>1, <1>2, <2>1, TellFacts DEF IInv
<1>4. e.id \notin rules[m] /\ ~(e.kind = "node" /\ e.node = m)
  BY <1>3 DEF UsedBy, ServedBy
<1>5. rules'[m] = rules[m]
  BY <1>1, <1>4
<1>6. SameExits(m)
  BY <1>1, <1>4, <1>5 DEF SameExits
<1> QED
  BY <1>1, <1>6, RowsStay, PlacesStay, SameConfig

LEMMA RulesUntold ==
  ASSUME IInv, SetPolicy \/ \E n \in NodeIds, ids \in SUBSET {e.id : e \in exits} : SetNodeUnlock(n, ids),
         NEW m \in NodeIds, m \in Existing', m \notin pending'
  PROVE  Config(m)' = Config(m)
<1>1. m \in Existing
  BY RulesKeeps
<1>2. CASE SetPolicy
  <2>1. Existing \in SUBSET (NodeIds \cup {0}) /\ Tell(Existing)
    BY <1>2, ExistingFacts DEF SetPolicy
  <2>2. m \notin Existing
    BY <2>1, TellFacts DEF IInv
  <2> QED
    BY <1>1, <2>2
<1>3. ASSUME NEW n \in NodeIds, NEW ids \in SUBSET {e.id : e \in exits}, SetNodeUnlock(n, ids)
      PROVE  Config(m)' = Config(m)
  <2>1. /\ rules' = [rules EXCEPT ![n] = ids] /\ Tell({n})
        /\ UNCHANGED <<status, addr, inbounds, exits, policy>>
    BY <1>3 DEF SetNodeUnlock, nodeVars
  <2>2. m # n
    <3>1. {n} \in SUBSET (NodeIds \cup {0})
      OBVIOUS
    <3> QED
      BY <2>1, <3>1, TellFacts DEF IInv
  <2>3. rules'[m] = rules[m]
    BY <2>1, <2>2 DEF IInv, Nodes
  <2> QED
    BY <2>1, <2>3, RowsStay, PlacesStay, ExitRowsStay, SameConfig
<1> QED
  BY <1>2, <1>3

\* What the hub does leaves the database alone.
LEMMA HubUntold == ASSUME NEW m \in NodeIds, UNCHANGED dbVars PROVE Config(m)' = Config(m)
<1>1. UNCHANGED <<status, addr, inbounds, exits, rules, policy>>
  BY DEF dbVars, nodeVars, unlockVars
<1> QED
  BY <1>1, RowsStay, PlacesStay, ExitRowsStay, SameConfig

\* Each node has been pushed a configuration of its own.
Pushed == served = [n \in NodeIds |-> served[n]] /\ NobodyUntold

LEMMA PushUntold ==
  ASSUME IInv, Pushed, NEW n \in NodeIds, Push(n) \/ Connect(n) \/ Disconnect(n)
  PROVE  Pushed'
<1>1. UNCHANGED dbVars
  BY DEF Push, Connect, Disconnect
<1>2. Existing' = Existing
  BY <1>1 DEF dbVars, nodeVars, Existing
<1>3. \A m \in NodeIds : Config(m)' = Config(m)
  BY <1>1, HubUntold
<1>4. CASE Push(n)
  <2>1. /\ n \in pending /\ pending' = pending \ {n} /\ connected' = connected
        /\ served' = IF n \in connected /\ n \in Existing THEN [served EXCEPT ![n] = Config(n)] ELSE served
    BY <1>4 DEF Push
  <2>2. served' = [m \in NodeIds |-> served'[m]]
    BY <2>1 DEF Pushed
  <2>3. ASSUME NEW m \in NodeIds, m \in Existing, m \in connected, m \notin pending'
        PROVE  served'[m] = Config(m)
    <3>1. CASE m = n
      BY <2>1, <2>3, <3>1 DEF Pushed
    <3>2. CASE m # n
      <4>1. served[m] = Config(m)
        BY <2>1, <2>3, <3>2 DEF Pushed, NobodyUntold, Settled
      <4> QED
        BY <2>1, <3>2, <4>1
    <3> QED
      BY <3>1, <3>2
  <2>4. NobodyUntold'
    BY <1>2, <1>3, <2>1, <2>3 DEF NobodyUntold, Settled
  <2> QED
    BY <2>2, <2>4 DEF Pushed
<1>5. CASE Connect(n) \/ Disconnect(n)
  <2>1. /\ served' = served
        /\ \A m \in NodeIds : m \in connected' /\ m \notin pending' => m \in connected /\ m \notin pending
    BY <1>5 DEF Connect, Disconnect
  <2>2. NobodyUntold'
    BY <1>2, <1>3, <2>1 DEF Pushed, NobodyUntold, Settled
  <2> QED
    BY <2>1, <2>2 DEF Pushed
<1> QED
  BY <1>4, <1>5

LEMMA RestartUntold == ASSUME IInv, Pushed, PanelRestart \/ UNCHANGED vars PROVE Pushed'
<1>1. UNCHANGED dbVars /\ served' = served
  BY DEF PanelRestart, vars
<1>2. Existing' = Existing
  BY <1>1 DEF dbVars, nodeVars, Existing
<1>3. \A m \in NodeIds : Config(m)' = Config(m)
  BY <1>1, HubUntold
<1>4. \A m \in NodeIds : m \in connected' /\ m \notin pending' => m \in connected /\ m \notin pending
  BY DEF PanelRestart, vars, hubVars
<1>5. NobodyUntold'
  BY <1>1, <1>2, <1>3, <1>4 DEF Pushed, NobodyUntold, Settled
<1> QED
  BY <1>1, <1>5 DEF Pushed

\* A call pushes to no one: it is enough that it tells whom it changes.
LEMMA CallUntold ==
  ASSUME Pushed, UNCHANGED <<connected, served>>, pending \subseteq pending',
         \A m \in NodeIds : m \in Existing' /\ m \in connected /\ m \notin pending' =>
                              m \in Existing /\ Config(m)' = Config(m)
  PROVE  Pushed'
<1>1. NobodyUntold'
  BY DEF Pushed, NobodyUntold, Settled
<1> QED
  BY <1>1 DEF Pushed

LEMMA PushedHolds ==
  ASSUME "exit_nodes" \notin Circumstances, "reused_id" \notin Circumstances, IInv, Pushed, [Next]_vars
  PROVE  Pushed'
<1>1. ASSUME NEW n \in NodeIds, NEW a \in Addrs, NEW nm \in Names, CreateNode(n, a, nm) PROVE Pushed'
  <2>1. UNCHANGED <<connected, served>> /\ pending \subseteq pending'
    BY <1>1 DEF CreateNode, hubVars
  <2> QED
    BY <1>1, <2>1, CreateNodeUntold, CallUntold
<1>2. ASSUME NEW n \in NodeIds, NEW st \in {"on", "off"}, NEW a \in Addrs, NEW nm \in Names,
             UpdateNode(n, st, a, nm)
      PROVE  Pushed'
  <2>1. UNCHANGED <<connected, served>> /\ pending \subseteq pending'
    BY <1>2 DEF UpdateNode, Tell
  <2>2. Existing' = Existing
    BY <1>2, UpdateNodeKeeps
  <2> QED
    BY <1>2, <2>1, <2>2, UpdateNodeUntold, CallUntold
<1>3. ASSUME NEW n \in NodeIds, DeleteNode(n) PROVE Pushed'
  <2>1. UNCHANGED <<connected, served>> /\ pending \subseteq pending'
    BY <1>3 DEF DeleteNode, Tell
  <2> QED
    BY <1>3, <2>1, DeleteNodeUntold, CallUntold
<1>4. ASSUME NEW from \in Addrs, NEW to \in Addrs, MovePanelHost(from, to) PROVE Pushed'
  <2>1. UNCHANGED <<connected, served>> /\ pending \subseteq pending'
    BY <1>4 DEF MovePanelHost, Tell
  <2>2. Existing' = Existing
    BY <1>4, MovePanelHostKeeps
  <2> QED
    BY <1>4, <2>1, <2>2, MovePanelHostUntold, CallUntold
<1>5. ASSUME NEW n \in NodeIds, NEW kind \in Kinds, NEW port \in Ports, NEW hops \in Hops,
             NEW relay \in Relays, CreateInbound(n, kind, port, hops, relay)
      PROVE  Pushed'
  <2>1. UNCHANGED <<connected, served>> /\ pending \subseteq pending'
    BY <1>5 DEF CreateInbound, Tell
  <2>2. Existing' = Existing
    BY <1>5, CreateInboundKeeps
  <2> QED
    BY <1>5, <2>1, <2>2, CreateInboundUntold, CallUntold
<1>6. ASSUME NEW in \in inbounds, NEW port \in Ports, NEW hops \in SUBSET Ports,
             NEW relay \in (NodeIds \cup {0}) \X (Ports \cup {0}),
             NEW tag \in (Kinds \cup {"hand"}) \X Nat \X Nat, EditInbound(in, port, hops, relay, tag)
      PROVE  Pushed'
  <2>1. UNCHANGED <<connected, served>> /\ pending \subseteq pending'
    BY <1>6 DEF EditInbound, Tell
  <2>2. relay[1] \in NodeIds \cup {0} /\ relay[2] \in Ports \cup {0}
    OBVIOUS
  <2>3. Existing' = Existing
    BY <1>6, <2>2, EditInboundKeeps
  <2>4. \A m \in NodeIds : m \notin pending' => Config(m)' = Config(m)
    BY <1>6, <2>2, EditInboundUntold
  <2> QED
    BY <2>1, <2>3, <2>4, CallUntold
<1>7. ASSUME NEW in \in inbounds, SetInboundEnabled(in, ~in.on) \/ DeleteInbound(in) PROVE Pushed'
  <2>1. UNCHANGED <<connected, served>> /\ pending \subseteq pending'
    BY <1>7 DEF SetInboundEnabled, DeleteInbound, Tell
  <2>2. Existing' = Existing
    BY <1>7, SwitchKeeps
  <2> QED
    BY <1>7, <2>1, <2>2, SwitchUntold, CallUntold
<1>8. ASSUME NEW port \in Ports, NEW kind \in {"node", "proxy"}, NEW n \in NodeIds \cup {0},
             (kind = "proxy" /\ n = 0) \/ (kind = "node" /\ n \in NodeIds),
             CreateExit(kind, n, port) \/ \E e \in exits : UpdateExit(e, kind, n, port)
      PROVE  Pushed'
  <2>1. UNCHANGED <<connected, served>> /\ pending \subseteq pending'
    BY <1>8 DEF CreateExit, UpdateExit, Tell
  <2>2. Existing' = Existing
    BY <1>8, CreateExitKeeps, UpdateExitKeeps
  <2> QED
    BY <1>8, <2>1, <2>2, CreateExitUntold, UpdateExitUntold, CallUntold
<1>9. ASSUME NEW e \in exits, DeleteExit(e) PROVE Pushed'
  <2>1. UNCHANGED <<connected, served>> /\ pending \subseteq pending'
    BY <1>9 DEF DeleteExit, Tell
  <2>2. Existing' = Existing
    BY <1>9, DeleteExitKeeps
  <2> QED
    BY <1>9, <2>1, <2>2, DeleteExitUntold, CallUntold
<1>10. ASSUME SetPolicy \/ \E n \in NodeIds, ids \in SUBSET {e.id : e \in exits} : SetNodeUnlock(n, ids)
       PROVE  Pushed'
  <2>1. UNCHANGED <<connected, served>> /\ pending \subseteq pending'
    BY <1>10 DEF SetPolicy, SetNodeUnlock, Tell
  <2>2. Existing' = Existing
    BY <1>10, RulesKeeps
  <2> QED
    BY <1>10, <2>1, <2>2, RulesUntold, CallUntold
<1> QED
  BY <1>1, <1>2, <1>3, <1>4, <1>5, <1>6, <1>7, <1>8, <1>9, <1>10, PushUntold, RestartUntold, Forms

\* Whatever is edited, on whichever node, no node whose configuration it changes is
\* left untold (service.go, the callers of notify): none is settled with another
\* configuration than the database's.  Not for the users of an exit whose node
\* moves, stops or goes, nor where a number is given again.
THEOREM NoneUntold ==
  ASSUME "exit_nodes" \notin Circumstances, "reused_id" \notin Circumstances
  PROVE  Spec => []NobodyUntold
<1>1. Init => Pushed
  <2> SUFFICES ASSUME Init PROVE Pushed
    OBVIOUS
  <2>1. /\ served = [n \in NodeIds |-> IF n <= 3 THEN Config(n) ELSE NothingBut(0)]
        /\ connected = {1, 2}
    BY DEF Init
  <2>2. \A n \in NodeIds : n \in connected => n <= 3
    BY <2>1
  <2> QED
    BY <2>1, <2>2 DEF Pushed, NobodyUntold, Settled
<1>2. IInv /\ Pushed /\ [Next]_vars => Pushed'
  BY PushedHolds
<1>3. Pushed => NobodyUntold
  BY DEF Pushed
<1> QED
  BY <1>1, <1>2, <1>3, InvariantAlways, PTL DEF Spec

\* It is enough that every settled node serves what the database says.
LEMMA Meeting == IInv /\ NobodyUntold => ForwardsMeet
<1> SUFFICES ASSUME IInv, NobodyUntold, NEW n \in NodeIds, NEW m \in NodeIds, Settled(n), Settled(m)
             PROVE  /\ \A r \in served[n].relays : \A in \in InboundsOf(m) :
                         in.tag = r.tag => \E o \in served[m].own : o.tag = r.tag /\ o.port = r.to /\ r.addr = addr[m]
                    /\ \A o \in served[n].outs : o.node = m =>
                         o.addr = addr[m] /\ [id |-> o.id, port |-> o.port] \in served[m].exits
  BY DEF ForwardsMeet
<1>1. served[n] = Config(n) /\ served[m] = Config(m)
  BY DEF NobodyUntold
<1>2. CASE status[n] # "on"
  <2>1. served[n].relays = {} /\ served[n].outs = {}
    BY <1>1, <1>2 DEF Config, NothingBut
  <2> QED
    BY <2>1
<1>3. CASE status[n] = "on"
  <2>1. served[n].relays = RelayListeners(n) /\ served[n].outs = Outbounds(n)
    BY <1>1, <1>3 DEF Config
  <2>2. status[m] = "on" => /\ served[m].own = SingboxInbounds(m) \cup XrayInbounds(m)
                            /\ served[m].exits = ExitListeners(m)
    BY <1>1 DEF Config
  <2>3. ASSUME NEW r \in served[n].relays, NEW in \in InboundsOf(m), in.tag = r.tag
        PROVE  \E o \in served[m].own : o.tag = r.tag /\ o.port = r.to /\ r.addr = addr[m]
    <3>1. PICK i \in inbounds : /\ i.on /\ status[i.node] = "on"
                                /\ r = [tag |-> i.tag, port |-> i.rport, addr |-> addr[i.node], to |-> i.port]
      BY <2>1 DEF RelayListeners, RelayedVia
    <3>2. r.tag = i.tag /\ r.to = i.port /\ r.addr = addr[i.node]
      BY <3>1
    <3>3. i = in /\ i.node = m
      BY <2>3, <3>2 DEF IInv, Rows, InboundsOf
    <3>4. Listener(i) \in SingboxInbounds(m) \cup XrayInbounds(m)
      BY <3>1, <3>3 DEF SingboxInbounds, XrayInbounds, InboundsOf
    <3>5. Listener(i).tag = i.tag /\ Listener(i).port = i.port
      BY DEF Listener
    <3> QED
      BY <2>2, <3>1, <3>2, <3>3, <3>4, <3>5
  <2>4. ASSUME NEW o \in served[n].outs, o.node = m
        PROVE  o.addr = addr[m] /\ [id |-> o.id, port |-> o.port] \in served[m].exits
    <3>1. PICK e \in exits :
            /\ e.kind = "node" => status[e.node] = "on"
            /\ o = [id |-> e.id, kind |-> e.kind, node |-> e.node,
                    addr |-> IF e.kind = "node" THEN addr[e.node] ELSE 0, port |-> e.port]
      BY <2>1 DEF Outbounds, Reachable
    <3>2. o.id = e.id /\ o.node = e.node /\ o.port = e.port /\ o.addr = IF e.kind = "node" THEN addr[e.node] ELSE 0
      BY <3>1
    <3>3. e.kind = "node" /\ e.node = m
      BY <2>4, <3>2, ExistingFacts DEF IInv, Exits
    <3>4. [id |-> e.id, port |-> e.port] \in ExitListeners(m)
      BY <3>3 DEF ExitListeners
    <3> QED
      BY <2>2, <3>1, <3>2, <3>3, <3>4
  <2> QED
    BY <2>3, <2>4
<1> QED
  BY <1>2, <1>3

\* Between two settled nodes, a relay's target is an inbound served there under that
\* tag and port, and an exit's outbound has its listener (relay.go, relayInbounds;
\* unlock.go, exitOutbound).
THEOREM BothEndsAgree ==
  ASSUME "exit_nodes" \notin Circumstances, "reused_id" \notin Circumstances
  PROVE  Spec => []ForwardsMeet
  BY InvariantAlways, NoneUntold, Meeting, PTL

=============================================================================
