--------------------------- MODULE WorklistProofs ---------------------------
(***************************************************************************)
(* Whatever a merge request touches and however its units are ordered, the *)
(* sessions share them out, for all sets of files, packages, declarations  *)
(* and all limits.                                                         *)
(***************************************************************************)
EXTENDS Worklist, BatchingProofs, TLAPS

-----------------------------------------------------------------------------
(* The state.                                                              *)

(* Each file is in a state it can be in, and the order is one of all       *)
(* units.                                                                  *)
THEOREM WorklistTypesCorrect == Spec => []TypeOK
<1>1. Init => TypeOK
  BY DEF Init, TypeOK, States
<1>2. TypeOK /\ [Next]_vars => TypeOK'
  <2> SUFFICES ASSUME TypeOK, [Next]_vars PROVE TypeOK'
    OBVIOUS
  <2>1. ASSUME NEW f \in Files, Push(f) PROVE TypeOK'
    <3>1. PICK state \in States(f) : files' = [files EXCEPT ![f] = state]
      BY <2>1 DEF Push
    <3>2. order' = order
      BY <2>1 DEF Push
    <3>3. ASSUME NEW g \in Files PROVE files'[g] \in States(g)
      <4>1. files'[g] = IF g = f THEN state ELSE files[g]
        BY <3>1 DEF TypeOK
      <4> QED BY <3>1, <4>1 DEF TypeOK
    <3>4. DOMAIN files' = Files
      BY <3>1 DEF TypeOK
    <3> QED BY <3>2, <3>3, <3>4 DEF TypeOK, States
  <2>2. CASE UNCHANGED vars
    BY <2>2 DEF TypeOK, States, vars
  <2> QED BY <2>1, <2>2 DEF Next
<1> QED BY <1>1, <1>2, PTL DEF Spec

LEMMA OrderShape ==
  ASSUME TypeOK
  PROVE  order \in Seq(Units) /\ IsInjective(order) /\ ToSet(order) = Units
<1> DEFINE N == Cardinality(Units)
           D == 1 .. N
<1>1. N \in Nat /\ IsFiniteSet(Units)
  BY WorklistAssumption, FS_CardinalityType
<1>2. order \in [D -> Units] /\ \A i, j \in D : i # j => order[i] # order[j]
  BY DEF TypeOK, SetToSeqs
<1> HIDE DEF N
<1>3. order \in Seq(Units)
  BY <1>1, <1>2, SeqDef
<1>4. IsInjective(order)
  BY <1>2 DEF IsInjective
<1>5. order \in Injection(D, Units)
  BY <1>2, <1>4 DEF Injection
<1>6. Cardinality(D) = N
  <2>1. Cardinality(1 .. N) = IF 1 > N THEN 0 ELSE N - 1 + 1
    BY <1>1, FS_Interval
  <2> QED BY <1>1, <2>1
<1> HIDE DEF D
<1>7. order \in Surjection(D, Units)
  BY <1>1, <1>5, <1>6, FS_Injection DEF N
<1>8. ToSet(order) = Units
  BY <1>2, <1>7 DEF Surjection, ToSet
<1> QED BY <1>3, <1>4, <1>8

-----------------------------------------------------------------------------
(* The worklist.                                                           *)

LEMMA SortingUnfolds ==
  ASSUME NEW all, Len(all) \in Nat, NEW units
  PROVE  LET sorted == Sorting(all, units)
         IN /\ sorted[0] = <<>>
            /\ \A n \in 1 .. Len(all) :
                 sorted[n] = IF all[n] \in units THEN Append(sorted[n - 1], all[n])
                                                 ELSE sorted[n - 1]
<1> DEFINE Step(s, n) == IF all[n] \in units THEN Append(s, all[n]) ELSE s
           Is(f, k) == f = [n \in 0 .. k |-> IF n = 0 THEN <<>> ELSE Step(f[n - 1], n)]
           Good == {k \in Nat : \E f : Is(f, k)}
<1> HIDE DEF Step
<1>1. 0 \in Good
  <2>1. Is([n \in 0 .. 0 |-> <<>>], 0)
    OBVIOUS
  <2> QED BY <2>1
<1>2. ASSUME NEW k \in 1 .. Len(all), k - 1 \in Good PROVE k \in Good
  <2>1. k \in Nat /\ k - 1 \in Nat /\ k # 0
    OBVIOUS
  <2>2. PICK g : Is(g, k - 1)
    BY <1>2
  <2> DEFINE h == [n \in 0 .. k |-> IF n = k THEN Step(g[k - 1], k) ELSE g[n]]
  <2>3. \A n \in 0 .. k - 1 : h[n] = g[n]
    BY <2>1
  <2>4. \A n \in 0 .. k : h[n] = IF n = 0 THEN <<>> ELSE Step(h[n - 1], n)
    <3> TAKE n \in 0 .. k
    <3>1. CASE n = k
      <4>1. h[n] = Step(g[k - 1], k) /\ h[n - 1] = g[k - 1] /\ n # 0
        BY <2>1, <2>3, <3>1
      <4> QED BY <3>1, <4>1
    <3>2. CASE n # k
      <4>1. n \in 0 .. k - 1 /\ (n # 0 => n - 1 \in 0 .. k - 1)
        BY <2>1, <3>2
      <4>2. h[n] = g[n] /\ (n # 0 => h[n - 1] = g[n - 1])
        BY <2>3, <4>1
      <4>3. g[n] = IF n = 0 THEN <<>> ELSE Step(g[n - 1], n)
        BY <2>2, <4>1 DEF Is
      <4> QED BY <4>2, <4>3
    <3> QED BY <3>1, <3>2
  <2>5. Is(h, k)
    BY <2>4
  <2> QED BY <2>1, <2>5
<1> HIDE DEF Is
<1>3. \E f : Is(f, Len(all))
  <2>1. 0 .. Len(all) \subseteq Good
    <3> HIDE DEF Good
    <3> QED BY <1>1, <1>2, UpTo
  <2> QED BY <2>1
<1>4. Is(Sorting(all, units), Len(all))
  BY <1>3 DEF Sorting, Is, Step
<1> DEFINE sorted == Sorting(all, units)
<1>5. sorted = [n \in 0 .. Len(all) |-> IF n = 0 THEN <<>> ELSE Step(sorted[n - 1], n)]
  BY <1>4 DEF Is
<1> HIDE DEF sorted
<1>6. sorted[0] = <<>> /\ \A n \in 1 .. Len(all) : sorted[n] = Step(sorted[n - 1], n)
  BY <1>5
<1> QED BY <1>6 DEF sorted, Step

LEMMA AppendOne ==
  ASSUME NEW S, NEW s \in Seq(S), NEW x \in S
  PROVE  /\ Append(s, x) \in Seq(S) /\ ToSet(Append(s, x)) = ToSet(s) \cup {x}
         /\ IsInjective(s) /\ x \notin ToSet(s) => IsInjective(Append(s, x))
<1> DEFINE t == <<x>>
<1>1. t \in Seq(S) /\ DOMAIN t = {1} /\ t[1] = x /\ Append(s, x) = s \o t
  BY AppendIsConcat
<1> HIDE DEF t
<1>2. ToSet(t) = {x} /\ IsInjective(t)
  BY <1>1 DEF ToSet, IsInjective
<1>3. /\ s \o t \in Seq(S) /\ ToSet(s \o t) = ToSet(s) \cup ToSet(t)
      /\ IsInjective(s) /\ IsInjective(t) /\ ToSet(s) \cap ToSet(t) = {} => IsInjective(s \o t)
  BY <1>1, ConcatUnits
<1> QED BY <1>1, <1>2, <1>3

(* All the units, each once.                                               *)
LEMMA SortingShape ==
  ASSUME NEW S, NEW all \in Seq(S), IsInjective(all), NEW units, units \subseteq ToSet(all)
  PROVE  LET sorted == Sorting(all, units)[Len(all)]
         IN sorted \in Seq(units) /\ IsInjective(sorted) /\ ToSet(sorted) = units
<1> DEFINE sorted == Sorting(all, units)
           N == Len(all)
           first(n) == {all[i] : i \in 1 .. n}
           Good == {n \in 0 .. N : /\ sorted[n] \in Seq(units) /\ IsInjective(sorted[n])
                                   /\ ToSet(sorted[n]) = units \cap first(n)}
<1>1. N \in Nat /\ DOMAIN all = 1 .. N
  OBVIOUS
<1>2. /\ sorted[0] = <<>>
      /\ \A n \in 1 .. N : sorted[n] = IF all[n] \in units THEN Append(sorted[n - 1], all[n])
                                                           ELSE sorted[n - 1]
  BY <1>1, SortingUnfolds
<1> HIDE DEF sorted, N
<1>3. 0 \in Good
  <2>1. <<>> \in Seq(units) /\ IsInjective(<<>>) /\ ToSet(<<>>) = {} /\ first(0) = {}
    BY DEF IsInjective, ToSet
  <2>2. 0 \in 0 .. N
    BY <1>1
  <2> HIDE DEF first
  <2> QED BY <1>2, <2>1, <2>2
<1>4. ASSUME NEW n \in 1 .. N, n - 1 \in Good PROVE n \in Good
  <2> DEFINE p == sorted[n - 1]
             q == sorted[n]
             x == all[n]
  <2>1. p \in Seq(units) /\ IsInjective(p) /\ ToSet(p) = units \cap first(n - 1)
    BY <1>4
  <2>2. q = IF x \in units THEN Append(p, x) ELSE p
    BY <1>2
  <2>3. first(n) = first(n - 1) \cup {x}
    <3>1. 1 .. n = (1 .. (n - 1)) \cup {n}
      BY <1>1
    <3> QED BY <3>1
  <2>4. x \notin first(n - 1)
    <3>1. ASSUME NEW i \in 1 .. (n - 1) PROVE all[i] # x
      <4>1. i \in DOMAIN all /\ n \in DOMAIN all /\ i # n
        BY <1>1
      <4> QED BY <4>1 DEF IsInjective
    <3> QED BY <3>1
  <2>5. n \in 0 .. N
    BY <1>1
  <2> HIDE DEF p, q, x, first
  <2>6. q \in Seq(units) /\ IsInjective(q) /\ ToSet(q) = units \cap first(n)
    <3>1. CASE x \in units
      BY <2>1, <2>2, <2>3, <2>4, <3>1, AppendOne
    <3>2. CASE x \notin units
      BY <2>1, <2>2, <2>3, <3>2
    <3> QED BY <3>1, <3>2
  <2> QED BY <2>5, <2>6 DEF q
<1>5. N \in Good
  <2>1. 0 .. N \subseteq Good
    <3> HIDE DEF Good
    <3> QED BY <1>1, <1>3, <1>4, UpTo
  <2>2. N \in 0 .. N
    BY <1>1
  <2> HIDE DEF Good
  <2> QED BY <2>1, <2>2
<1>6. first(N) = ToSet(all)
  BY <1>1 DEF ToSet
<1> HIDE DEF first
<1>7. /\ sorted[N] \in Seq(units) /\ IsInjective(sorted[N])
      /\ ToSet(sorted[N]) = units
  BY <1>5, <1>6
<1> QED BY <1>7 DEF sorted, N

(* The worklist of a merge request: the units of its inventory, each once, *)
(* and at the end the integration unit if they do not fit into a session.  *)
LEMMA SortedShape ==
  ASSUME TypeOK
  PROVE  /\ InventoryUnits \subseteq Units
         /\ Sorted \in Seq(InventoryUnits) /\ IsInjective(Sorted) /\ ToSet(Sorted) = InventoryUnits
<1>1. InventoryUnits \subseteq Units
  BY WorklistAssumption DEF InventoryUnits, Units, Packages, Declarations, GoFiles
<1> DEFINE units == InventoryUnits
<1> HIDE DEF units
<1>2. units \subseteq ToSet(order)
  BY <1>1, OrderShape DEF units
<1>3. LET sorted == Sorting(order, units)[Len(order)]
      IN sorted \in Seq(units) /\ IsInjective(sorted) /\ ToSet(sorted) = units
  BY <1>2, OrderShape, SortingShape
<1> QED BY <1>1, <1>3 DEF Sorted, units

LEMMA RequirementsShape ==
  ASSUME TypeOK
  PROVE  /\ DOMAIN UnitRequirements \subseteq Units
         /\ \A u \in DOMAIN UnitRequirements :
              UnitRequirements[u] \in InventoryUnits /\ UnitRequirements[u] \in Units
<1>1. DOMAIN UnitRequirements = {g \in GoFiles : files[g] = "oversized"}
  BY DEF UnitRequirements
<1>2. ASSUME NEW u \in DOMAIN UnitRequirements
      PROVE  UnitRequirements[u] \in InventoryUnits
  <2>1. u \in GoFiles /\ files[u] = "oversized" /\ UnitRequirements[u] = PackageOf[u]
    BY <1>2 DEF UnitRequirements
  <2>2. u \in Files /\ files[u] # "untouched"
    BY <2>1, WorklistAssumption
  <2> QED BY <2>1, <2>2 DEF InventoryUnits
<1>3. GoFiles \subseteq Units
  BY WorklistAssumption DEF Units
<1> QED BY <1>1, <1>2, <1>3, SortedShape

(* The worklist as it is batched.                                          *)
Listing == WithIntegration(Sorted, Integration, MaxUnits)

LEMMA ListingShape ==
  ASSUME TypeOK
  PROVE  LET S == ToSet(Listing)
         IN /\ Listing \in Seq(S) /\ S \ {Integration} = InventoryUnits
            /\ \A u \in S : u \in DOMAIN UnitRequirements => UnitRequirements[u] \in S
            /\ Cardinality(S) > MaxUnits =>
                 EndsAlone(Listing, UnitRequirements, Integration)
            /\ Integration \in S => Cardinality(S) > MaxUnits
<1> DEFINE S == ToSet(Listing)
           I == InventoryUnits
<1>1. /\ I \subseteq Units /\ Sorted \in Seq(I) /\ IsInjective(Sorted) /\ ToSet(Sorted) = I
      /\ Integration \notin I /\ MaxUnits \in Nat
  BY SortedShape, WorklistAssumption
<1>2. /\ IsFiniteSet(I) /\ Cardinality(I) \in Nat /\ Len(Sorted) = Cardinality(I)
  BY <1>1, SequenceSize
<1>3. \A u \in DOMAIN UnitRequirements : UnitRequirements[u] \in I
  BY RequirementsShape
<1>4. /\ Integration \notin DOMAIN UnitRequirements
      /\ \A u \in DOMAIN UnitRequirements : UnitRequirements[u] # Integration
  BY RequirementsShape, WorklistAssumption
<1> HIDE DEF I
<1>5. CASE Len(Sorted) > MaxUnits
  <2> DEFINE J == I \cup {Integration}
  <2>1. Listing = Append(Sorted, Integration)
    BY <1>5 DEF Listing, WithIntegration
  <2>2. Sorted \in Seq(J) /\ Integration \in J
    BY <1>1, SeqMonotonic
  <2> HIDE DEF J
  <2>3. /\ Listing \in Seq(J) /\ Listing # <<>> /\ Len(Listing) = Len(Sorted) + 1
        /\ \A i \in 1 .. Len(Sorted) : Listing[i] = Sorted[i]
        /\ Listing[Len(Sorted) + 1] = Integration
    BY <2>1, <2>2, AppendProperties
  <2>4. S = J
    BY <1>1, <2>1, <2>2, AppendOne DEF J
  <2>5. Cardinality(S) = Len(Sorted) + 1
    <3>1. Cardinality(I \cup {Integration}) = Cardinality(I) + 1
      BY <1>1, <1>2, FS_AddElement
    <3> QED BY <1>2, <2>4, <3>1 DEF J
  <2>6. Cardinality(S) > MaxUnits
    BY <1>1, <1>2, <1>5, <2>5
  <2>7. EndsAlone(Listing, UnitRequirements, Integration)
    <3>1. Last(Listing) = Integration
      BY <2>3 DEF Last
    <3>2. Len(Listing) - 1 = Len(Sorted)
      BY <1>2, <2>3
    <3>3. \A i \in 1 .. Len(Sorted) : Sorted[i] # Integration
      BY <1>1, ElementOfSeq
    <3>4. \A i \in 1 .. (Len(Listing) - 1) : Listing[i] # Integration
      BY <2>3, <3>2, <3>3
    <3> QED BY <1>4, <2>3, <3>1, <3>4 DEF EndsAlone
  <2>8. S \ {Integration} = I
    BY <1>1, <2>4 DEF J
  <2>9. \A u \in S : u \in DOMAIN UnitRequirements => UnitRequirements[u] \in S
    BY <1>3, <2>4 DEF J
  <2> QED BY <2>3, <2>4, <2>6, <2>7, <2>8, <2>9 DEF I
<1>6. CASE ~(Len(Sorted) > MaxUnits)
  <2>1. Listing = Sorted
    BY <1>6 DEF Listing, WithIntegration
  <2>2. S = I
    BY <1>1, <2>1
  <2>3. ~(Cardinality(S) > MaxUnits)
    BY <1>2, <1>6, <2>2
  <2> QED BY <1>1, <1>3, <2>1, <2>2, <2>3 DEF I
<1> QED BY <1>5, <1>6

(* Its batches, when there are any.                                        *)
LEMMA WorklistBatches ==
  ASSUME TypeOK, CanBatch
  PROVE  SharedOut(Batches, Listing, ToSet(Listing), UnitRequirements, MaxUnits)
<1> DEFINE S == ToSet(Listing)
           w == Listing
           enclosing == UnitRequirements
<1>1. w \in Seq(S) /\ ToSet(w) = S
  BY ListingShape
<1>2. PICK size \in {1, 2} : size = 2
  OBVIOUS
<1>3. \A u \in S : u \in DOMAIN enclosing => enclosing[u] \in S /\ size = 2
  BY <1>2, ListingShape
<1>4. MaxUnits \in Nat \ {0} /\ Batchable(w, enclosing, MaxUnits)
  BY WorklistAssumption DEF CanBatch, Listing
<1>5. Batches = BatchUnits(w, enclosing, MaxUnits)
  BY DEF Batches, Listing
<1> HIDE DEF w, S, enclosing
<1>6. SharedOut(BatchUnits(w, enclosing, MaxUnits), w, S, enclosing, MaxUnits)
  BY <1>1, <1>3, <1>4, BatchesShape
<1> QED BY <1>5, <1>6 DEF w, S, enclosing

-----------------------------------------------------------------------------
(* The sessions.                                                           *)

(* A run fails because "related review-unit group exceeds                  *)
(* max_units_per_session" only where a session may have a single unit: a   *)
(* group is a unit and the one it needs, at most.                          *)
THEOREM AlwaysBatchable ==
  ASSUME MaxUnits > 1
  PROVE  Spec => []CanBatch
<1>1. ASSUME TypeOK PROVE CanBatch
  <2> DEFINE S == ToSet(Listing)
             w == Listing
             enclosing == UnitRequirements
             groups == UnitGroups(w, enclosing)
  <2>1. PICK size \in {1, 2} : size = 2
    OBVIOUS
  <2>2. w \in Seq(S) /\ ToSet(w) = S
    BY <1>1, ListingShape
  <2>3. \A u \in S : u \in DOMAIN enclosing => enclosing[u] \in S /\ size = 2
    BY <1>1, <2>1, ListingShape
  <2>4. CanBatch <=> \A group \in ToSet(groups) : Len(group) <= MaxUnits
    BY DEF CanBatch, Batchable, Listing
  <2>5. groups \in Seq(Seq(S)) /\ \A k \in DOMAIN groups : Len(groups[k]) \in 1 .. size
    <3> HIDE DEF w, S, enclosing
    <3> QED BY <2>2, <2>3, GroupsShape
  <2> HIDE DEF groups
  <2>6. \A group \in ToSet(groups) : \E k \in DOMAIN groups : group = groups[k]
    BY <2>5 DEF ToSet
  <2>7. \A group \in ToSet(groups) : Len(group) \in 1 .. 2
    BY <2>1, <2>5, <2>6
  <2>8. MaxUnits \in Nat /\ \A n \in 1 .. 2 : n <= MaxUnits
    BY WorklistAssumption
  <2>9. \A group \in ToSet(groups) : Len(group) <= MaxUnits
    BY <2>7, <2>8
  <2> QED BY <2>4, <2>9
<1> QED BY <1>1, WorklistTypesCorrect, PTL

(* A worklist that can be batched is: every unit of the inventory is in    *)
(* exactly one session, once.                                              *)
THEOREM EveryUnitCorrect == Spec => []EveryUnitOnce
<1>1. TypeOK => EveryUnitOnce
  BY WorklistBatches, ListingShape DEF SharedOut, EveryUnitOnce, Filled
<1> QED BY <1>1, WorklistTypesCorrect, PTL

(* The integration unit ends the last of several sessions, and only then.  *)
THEOREM IntegrationCorrect == Spec => []SeveralSessionsIntegrate
<1>1. ASSUME TypeOK PROVE SeveralSessionsIntegrate
  <2> SUFFICES ASSUME CanBatch, Batches # <<>>
               PROVE  Len(Batches) > 1 <=> Last(Last(Batches)) = Integration
    BY DEF SeveralSessionsIntegrate
  <2> DEFINE S == ToSet(Listing)
  <2>1. /\ Filled(Batches, S, MaxUnits) /\ Assigned(Batches) = S
        /\ Cardinality(S) > MaxUnits <=> Len(Batches) > 1
        /\ \A x : EndsAlone(Listing, UnitRequirements, x) => Last(Last(Batches)) = x
    BY <1>1, WorklistBatches DEF SharedOut
  <2>2. /\ Cardinality(S) > MaxUnits => EndsAlone(Listing, UnitRequirements, Integration)
        /\ Integration \in S => Cardinality(S) > MaxUnits
    BY <1>1, ListingShape
  <2> HIDE DEF S
  <2>3. Last(Last(Batches)) \in S
    <3>1. Batches \in Seq(Seq(S))
      BY <2>1 DEF Filled
    <3>2. Len(Batches) \in DOMAIN Batches /\ Last(Batches) = Batches[Len(Batches)]
      BY <3>1 DEF Last
    <3>3. Last(Batches) \in Seq(S) /\ Len(Last(Batches)) \in 1 .. MaxUnits
      BY <2>1, <3>1, <3>2 DEF Filled
    <3> QED BY <3>3 DEF Last
  <2> QED BY <2>1, <2>2, <2>3
<1> QED BY <1>1, WorklistTypesCorrect, PTL

(* No session is larger than max_units_per_session, and none is empty.     *)
THEOREM WithinLimitCorrect == Spec => []SessionsWithinLimit
<1>1. TypeOK => SessionsWithinLimit
  BY WorklistBatches DEF SharedOut, SessionsWithinLimit, Filled
<1> QED BY <1>1, WorklistTypesCorrect, PTL

(* No two consecutive sessions would fit into one.                         *)
THEOREM NoCrumbsCorrect == Spec => []NoCrumbs
<1>1. TypeOK => NoCrumbs
  BY WorklistBatches DEF SharedOut, NoCrumbs, Filled
<1> QED BY <1>1, WorklistTypesCorrect, PTL
=============================================================================
