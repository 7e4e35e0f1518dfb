--------------------------- MODULE BatchingProofs ---------------------------
(***************************************************************************)
(* What the batches of a worklist have in common, for every worklist, all  *)
(* requirements and every limit: no unit is lost or assigned twice, no     *)
(* batch is too large, and no two neighbours would fit into one.           *)
(***************************************************************************)
EXTENDS Batching, FiniteSetTheorems, SequenceTheorems, WellFoundedInduction, TLAPS

-----------------------------------------------------------------------------
(* Induction, with a set in place of the predicate.                        *)

LEMMA Smallest ==
  ASSUME NEW T \in SUBSET Nat, T # {}
  PROVE  \E x \in T : \A y \in T : ~(y < x)
<1>1. PICK x \in T : \A y \in T : ~(<<y, x>> \in OpToRel(<, Nat))
  BY NatLessThanWellFounded, WFMin
<1>2. \A y \in T : <<y, x>> \in Nat \X Nat
  OBVIOUS
<1> QED BY <1>1, <1>2, Zenon DEF OpToRel

LEMMA UpTo ==
  ASSUME NEW N \in Nat, NEW Good, 0 \in Good, \A n \in 1 .. N : n - 1 \in Good => n \in Good
  PROVE  0 .. N \subseteq Good
<1> DEFINE Bad == (0 .. N) \ Good
<1> SUFFICES ASSUME Bad # {} PROVE FALSE
  OBVIOUS
<1>0. Bad \in SUBSET Nat
  OBVIOUS
<1>1. PICK k \in Bad : \A j \in Bad : ~(j < k)
  <2> HIDE DEF Bad
  <2> QED BY <1>0, Smallest
<1>2. k \in 1 .. N /\ k - 1 \in 0 .. N /\ k - 1 < k
  OBVIOUS
<1>3. k - 1 \notin Bad
  BY <1>1, <1>2
<1> QED BY <1>2, <1>3

-----------------------------------------------------------------------------
(* The recursive functions satisfy their equations.                        *)

LEMMA GroupingUnfolds ==
  ASSUME NEW worklist, Len(worklist) \in Nat, NEW enclosing
  PROVE  LET acc == Grouping(worklist, enclosing)
         IN /\ acc[0] = [used |-> {}, groups |-> <<>>]
            /\ \A n \in 1 .. Len(worklist) :
                 acc[n] = Grouped(acc[n - 1], worklist[n], enclosing)
<1> DEFINE none == [used |-> {}, groups |-> <<>>]
           Is(f, k) == f = [n \in 0 .. k |->
                              IF n = 0 THEN none
                              ELSE Grouped(f[n - 1], worklist[n], enclosing)]
           Good == {k \in Nat : \E f : Is(f, k)}
<1>1. 0 \in Good
  <2>1. Is([n \in 0 .. 0 |-> none], 0)
    OBVIOUS
  <2> QED BY <2>1
<1>2. ASSUME NEW k \in 1 .. Len(worklist), k - 1 \in Good PROVE k \in Good
  <2>1. k \in Nat /\ k - 1 \in Nat /\ k # 0
    OBVIOUS
  <2>2. PICK g : Is(g, k - 1)
    BY <1>2
  <2> DEFINE h == [n \in 0 .. k |-> IF n = k THEN Grouped(g[k - 1], worklist[k], enclosing)
                                    ELSE g[n]]
  <2>3. \A n \in 0 .. k - 1 : h[n] = g[n]
    BY <2>1
  <2>4. \A n \in 0 .. k : h[n] = IF n = 0 THEN none
                                 ELSE Grouped(h[n - 1], worklist[n], enclosing)
    <3> TAKE n \in 0 .. k
    <3> HIDE DEF none
    <3>1. CASE n = k
      <4>1. h[n] = Grouped(g[k - 1], worklist[k], enclosing) /\ h[n - 1] = g[k - 1] /\ n # 0
        BY <2>1, <2>3, <3>1
      <4> QED BY <3>1, <4>1
    <3>2. CASE n # k
      <4>1. n \in 0 .. k - 1 /\ (n # 0 => n - 1 \in 0 .. k - 1)
        BY <2>1, <3>2
      <4>2. h[n] = g[n] /\ (n # 0 => h[n - 1] = g[n - 1])
        BY <2>3, <4>1
      <4>3. g[n] = IF n = 0 THEN none ELSE Grouped(g[n - 1], worklist[n], enclosing)
        BY <2>2, <4>1 DEF Is
      <4> QED BY <4>2, <4>3
    <3> QED BY <3>1, <3>2
  <2>5. Is(h, k)
    BY <2>4
  <2> QED BY <2>1, <2>5
<1> HIDE DEF Is
<1>3. \E f : Is(f, Len(worklist))
  <2>1. 0 .. Len(worklist) \subseteq Good
    <3> HIDE DEF Good
    <3> QED BY <1>1, <1>2, UpTo
  <2> QED BY <2>1
<1>4. Is(Grouping(worklist, enclosing), Len(worklist))
  BY <1>3 DEF Grouping, Is
<1> DEFINE acc == Grouping(worklist, enclosing)
<1>5. acc = [n \in 0 .. Len(worklist) |->
               IF n = 0 THEN none ELSE Grouped(acc[n - 1], worklist[n], enclosing)]
  BY <1>4 DEF Is
<1> HIDE DEF acc, none
<1>6. acc[0] = none /\ \A n \in 1 .. Len(worklist) :
                        acc[n] = Grouped(acc[n - 1], worklist[n], enclosing)
  BY <1>5
<1> QED BY <1>6 DEF acc, none

LEMMA PackingUnfolds ==
  ASSUME NEW groups, Len(groups) \in Nat, NEW maximum
  PROVE  LET batches == Packing(groups, maximum)
         IN /\ batches[0] = <<>>
            /\ \A n \in 1 .. Len(groups) :
                 batches[n] = Put(batches[n - 1], groups[n], maximum)
<1> DEFINE Is(f, k) == f = [n \in 0 .. k |->
                              IF n = 0 THEN <<>> ELSE Put(f[n - 1], groups[n], maximum)]
           Good == {k \in Nat : \E f : Is(f, k)}
<1>1. 0 \in Good
  <2>1. Is([n \in 0 .. 0 |-> <<>>], 0)
    OBVIOUS
  <2> QED BY <2>1
<1>2. ASSUME NEW k \in 1 .. Len(groups), k - 1 \in Good PROVE k \in Good
  <2>1. k \in Nat /\ k - 1 \in Nat /\ k # 0
    OBVIOUS
  <2>2. PICK g : Is(g, k - 1)
    BY <1>2
  <2> DEFINE h == [n \in 0 .. k |-> IF n = k THEN Put(g[k - 1], groups[k], maximum) ELSE g[n]]
  <2>3. \A n \in 0 .. k - 1 : h[n] = g[n]
    BY <2>1
  <2>4. \A n \in 0 .. k : h[n] = IF n = 0 THEN <<>> ELSE Put(h[n - 1], groups[n], maximum)
    <3> TAKE n \in 0 .. k
    <3>1. CASE n = k
      <4>1. h[n] = Put(g[k - 1], groups[k], maximum) /\ h[n - 1] = g[k - 1] /\ n # 0
        BY <2>1, <2>3, <3>1
      <4> QED BY <3>1, <4>1
    <3>2. CASE n # k
      <4>1. n \in 0 .. k - 1 /\ (n # 0 => n - 1 \in 0 .. k - 1)
        BY <2>1, <3>2
      <4>2. h[n] = g[n] /\ (n # 0 => h[n - 1] = g[n - 1])
        BY <2>3, <4>1
      <4>3. g[n] = IF n = 0 THEN <<>> ELSE Put(g[n - 1], groups[n], maximum)
        BY <2>2, <4>1 DEF Is
      <4> QED BY <4>2, <4>3
    <3> QED BY <3>1, <3>2
  <2>5. Is(h, k)
    BY <2>4
  <2> QED BY <2>1, <2>5
<1> HIDE DEF Is
<1>3. \E f : Is(f, Len(groups))
  <2>1. 0 .. Len(groups) \subseteq Good
    <3> HIDE DEF Good
    <3> QED BY <1>1, <1>2, UpTo
  <2> QED BY <2>1
<1>4. Is(Packing(groups, maximum), Len(groups))
  BY <1>3 DEF Packing, Is
<1> DEFINE batches == Packing(groups, maximum)
<1>5. batches = [n \in 0 .. Len(groups) |->
                   IF n = 0 THEN <<>> ELSE Put(batches[n - 1], groups[n], maximum)]
  BY <1>4 DEF Is
<1> HIDE DEF batches
<1>6. batches[0] = <<>> /\ \A n \in 1 .. Len(groups) :
                            batches[n] = Put(batches[n - 1], groups[n], maximum)
  BY <1>5
<1> QED BY <1>6 DEF batches

-----------------------------------------------------------------------------
(* One more group, behind the batches or in the last one.                  *)

LEMMA AppendUnits ==
  ASSUME NEW S, NEW B \in Seq(Seq(S)), NEW g \in Seq(S)
  PROVE  LET C == Append(B, g)
         IN /\ C \in Seq(Seq(S)) /\ C # <<>> /\ Len(B) \in Nat
            /\ Len(C) = Len(B) + 1 /\ DOMAIN C = 1 .. (Len(B) + 1)
            /\ \A b \in 1 .. Len(B) : C[b] = B[b]
            /\ C[Len(B) + 1] = g /\ Last(C) = g
            /\ Assigned(C) = Assigned(B) \cup ToSet(g)
            /\ Apart(C) <=> Apart(B) /\ IsInjective(g) /\ Assigned(B) \cap ToSet(g) = {}
<1> DEFINE C == Append(B, g)
<1>1. /\ C \in Seq(Seq(S)) /\ C # <<>> /\ Len(B) \in Nat
      /\ Len(C) = Len(B) + 1 /\ DOMAIN C = 1 .. (Len(B) + 1) /\ DOMAIN B = 1 .. Len(B)
      /\ \A b \in 1 .. Len(B) : C[b] = B[b]
      /\ C[Len(B) + 1] = g
  OBVIOUS
<1> HIDE DEF C
<1>2. Last(C) = g
  BY <1>1 DEF Last
<1>3. Assigned(C) = Assigned(B) \cup ToSet(g)
  <2>1. ASSUME NEW x \in Assigned(C) PROVE x \in Assigned(B) \cup ToSet(g)
    <3>1. PICK b \in 1 .. (Len(B) + 1) : x \in ToSet(C[b])
      BY <1>1 DEF Assigned
    <3>2. CASE b \in 1 .. Len(B)
      BY <1>1, <3>1, <3>2 DEF Assigned
    <3>3. CASE b = Len(B) + 1
      BY <1>1, <3>1, <3>3
    <3> QED BY <1>1, <3>2, <3>3
  <2>2. ASSUME NEW x \in Assigned(B) PROVE x \in Assigned(C)
    <3>1. PICK b \in 1 .. Len(B) : x \in ToSet(B[b])
      BY <1>1 DEF Assigned
    <3>2. b \in DOMAIN C /\ C[b] = B[b]
      BY <1>1
    <3> QED BY <3>1, <3>2 DEF Assigned
  <2>3. ToSet(g) \subseteq Assigned(C)
    <3>1. Len(B) + 1 \in DOMAIN C
      BY <1>1
    <3> QED BY <1>1, <3>1 DEF Assigned
  <2> QED BY <2>1, <2>2, <2>3
<1>4. ASSUME Apart(B), IsInjective(g), Assigned(B) \cap ToSet(g) = {}
      PROVE  Apart(C)
  <2> SUFFICES ASSUME NEW b \in DOMAIN C, NEW c \in DOMAIN C, NEW i \in DOMAIN C[b],
                      NEW j \in DOMAIN C[c], C[b][i] = C[c][j]
               PROVE  b = c /\ i = j
    BY DEF Apart
  <2>1. \A d \in DOMAIN B : \A k \in DOMAIN B[d] : B[d][k] \in Assigned(B)
    BY DEF Assigned, ToSet
  <2>2. \A k \in DOMAIN g : g[k] \in ToSet(g)
    BY DEF ToSet
  <2>3. \A d \in DOMAIN C : \/ d \in DOMAIN B /\ C[d] = B[d]
                            \/ d = Len(B) + 1 /\ C[d] = g
    BY <1>1
  <2>4. CASE b \in DOMAIN B /\ c \in DOMAIN B /\ C[b] = B[b] /\ C[c] = B[c]
    BY <1>4, <2>4 DEF Apart
  <2>5. CASE b = Len(B) + 1 /\ c = Len(B) + 1
    BY <1>1, <1>4, <2>5 DEF IsInjective
  <2>6. CASE b \in DOMAIN B /\ C[b] = B[b] /\ C[c] = g
    BY <1>4, <2>1, <2>2, <2>6
  <2>7. CASE c \in DOMAIN B /\ C[c] = B[c] /\ C[b] = g
    BY <1>4, <2>1, <2>2, <2>7
  <2> QED BY <2>3, <2>4, <2>5, <2>6, <2>7
<1>5. ASSUME Apart(C)
      PROVE  Apart(B) /\ IsInjective(g) /\ Assigned(B) \cap ToSet(g) = {}
  <2>1. /\ \A b \in DOMAIN B : b \in DOMAIN C /\ C[b] = B[b] /\ b # Len(B) + 1
        /\ Len(B) + 1 \in DOMAIN C
    BY <1>1
  <2>2. Apart(B)
    BY <1>5, <2>1 DEF Apart
  <2>3. IsInjective(g)
    <3> SUFFICES ASSUME NEW i \in DOMAIN g, NEW j \in DOMAIN g, g[i] = g[j] PROVE i = j
      BY DEF IsInjective
    <3> DEFINE n == Len(B) + 1
    <3>1. n \in DOMAIN C /\ C[n] = g
      BY <1>1
    <3> HIDE DEF n
    <3>2. i \in DOMAIN C[n] /\ j \in DOMAIN C[n] /\ C[n][i] = C[n][j]
      BY <3>1
    <3> QED BY <1>5, <3>1, <3>2, Zenon DEF Apart
  <2>4. ASSUME NEW b \in DOMAIN B, NEW i \in DOMAIN B[b], NEW j \in DOMAIN g PROVE B[b][i] # g[j]
    <3> DEFINE n == Len(B) + 1
    <3>1. n \in DOMAIN C /\ C[n] = g /\ b \in DOMAIN C /\ C[b] = B[b] /\ b # n
      BY <1>1, <2>1
    <3> HIDE DEF n
    <3>2. i \in DOMAIN C[b] /\ j \in DOMAIN C[n]
      BY <3>1
    <3>3. C[b][i] = C[n][j] => b = n
      BY <1>5, <3>1, <3>2, Zenon DEF Apart
    <3> QED BY <3>1, <3>3
  <2>5. Assigned(B) \cap ToSet(g) = {}
    BY <2>4 DEF Assigned, ToSet
  <2> QED BY <2>2, <2>3, <2>5
<1> QED BY <1>1, <1>2, <1>3, <1>4, <1>5 DEF C

LEMMA ConcatUnits ==
  ASSUME NEW S, NEW s \in Seq(S), NEW t \in Seq(S)
  PROVE  /\ s \o t \in Seq(S) /\ Len(s \o t) = Len(s) + Len(t)
         /\ Len(s) \in Nat /\ Len(t) \in Nat
         /\ \A i \in DOMAIN (s \o t) :
              \/ i \in DOMAIN s /\ (s \o t)[i] = s[i]
              \/ i - Len(s) \in DOMAIN t /\ i > Len(s) /\ (s \o t)[i] = t[i - Len(s)]
         /\ ToSet(s \o t) = ToSet(s) \cup ToSet(t)
         /\ t # <<>> => Last(s \o t) = Last(t)
         /\ IsInjective(s) /\ IsInjective(t) /\ ToSet(s) \cap ToSet(t) = {} => IsInjective(s \o t)
<1> DEFINE r == s \o t
<1>1. /\ r \in Seq(S) /\ Len(r) = Len(s) + Len(t) /\ Len(s) \in Nat /\ Len(t) \in Nat
      /\ DOMAIN r = 1 .. (Len(s) + Len(t)) /\ DOMAIN s = 1 .. Len(s) /\ DOMAIN t = 1 .. Len(t)
      /\ \A i \in 1 .. Len(s) : r[i] = s[i]
      /\ \A i \in 1 .. Len(t) : r[Len(s) + i] = t[i]
  OBVIOUS
<1> HIDE DEF r
<1>2. \A i \in DOMAIN r : \/ i \in DOMAIN s /\ r[i] = s[i]
                          \/ i - Len(s) \in DOMAIN t /\ i > Len(s) /\ r[i] = t[i - Len(s)]
  <2> SUFFICES ASSUME NEW i \in DOMAIN r, i \notin DOMAIN s
               PROVE  i - Len(s) \in DOMAIN t /\ i > Len(s) /\ r[i] = t[i - Len(s)]
    BY <1>1
  <2>1. i - Len(s) \in 1 .. Len(t) /\ Len(s) + (i - Len(s)) = i /\ i > Len(s)
    BY <1>1
  <2>2. r[Len(s) + (i - Len(s))] = t[i - Len(s)]
    BY <1>1, <2>1
  <2> QED BY <1>1, <2>1, <2>2
<1>3. ToSet(r) = ToSet(s) \cup ToSet(t)
  <2>1. ToSet(r) \subseteq ToSet(s) \cup ToSet(t)
    BY <1>2 DEF ToSet
  <2>2. ToSet(s) \subseteq ToSet(r)
    BY <1>1 DEF ToSet
  <2>3. ASSUME NEW i \in DOMAIN t PROVE t[i] \in ToSet(r)
    <3>1. Len(s) + i \in DOMAIN r /\ r[Len(s) + i] = t[i]
      BY <1>1
    <3> QED BY <3>1 DEF ToSet
  <2> QED BY <2>1, <2>2, <2>3 DEF ToSet
<1>4. t # <<>> => Last(r) = Last(t)
  BY <1>1 DEF Last
<1>5. ASSUME IsInjective(s), IsInjective(t), ToSet(s) \cap ToSet(t) = {} PROVE IsInjective(r)
  <2> SUFFICES ASSUME NEW i \in DOMAIN r, NEW j \in DOMAIN r, r[i] = r[j] PROVE i = j
    BY DEF IsInjective
  <2>1. /\ \A k \in DOMAIN s : s[k] \in ToSet(s)
        /\ \A k \in DOMAIN t : t[k] \in ToSet(t)
    BY DEF ToSet
  <2>2. i \in Int /\ j \in Int
    BY <1>1
  <2>3. CASE i \in DOMAIN s /\ j \in DOMAIN s /\ r[i] = s[i] /\ r[j] = s[j]
    BY <1>5, <2>3 DEF IsInjective
  <2>4. CASE /\ i - Len(s) \in DOMAIN t /\ r[i] = t[i - Len(s)]
             /\ j - Len(s) \in DOMAIN t /\ r[j] = t[j - Len(s)]
    <3>1. i - Len(s) = j - Len(s)
      BY <1>5, <2>4 DEF IsInjective
    <3> QED BY <1>1, <2>2, <3>1
  <2> QED BY <1>2, <1>5, <2>1, <2>3, <2>4
<1> QED BY <1>1, <1>2, <1>3, <1>4, <1>5 DEF r

LEMMA FrontAndLast ==
  ASSUME NEW S, NEW B \in Seq(S), B # <<>>
  PROVE  \E F \in Seq(S), l \in S :
           /\ F = Front(B) /\ l = Last(B) /\ B = Append(F, l)
           /\ Len(B) \in Nat \ {0} /\ Len(F) = Len(B) - 1 /\ l = B[Len(B)]
<1>1. Len(B) \in Nat \ {0} /\ Last(B) = B[Len(B)] /\ Last(B) \in S
  BY DEF Last
<1>2. /\ Front(B) \in Seq(S) /\ Len(Front(B)) = Len(B) - 1
      /\ \A b \in 1 .. (Len(B) - 1) : Front(B)[b] = B[b]
  <2> DEFINE n == Len(B) - 1
  <2>1. n \in Int /\ 1 \in Int /\ \A b \in 1 .. n : B[b] \in S
    BY <1>1, ElementOfSeq
  <2>2. n \in Nat
    BY <1>1
  <2> HIDE DEF n
  <2>3. /\ SubSeq(B, 1, n) \in Seq(S)
        /\ Len(SubSeq(B, 1, n)) = IF 1 <= n THEN n - 1 + 1 ELSE 0
        /\ \A b \in 1 .. (n - 1 + 1) : SubSeq(B, 1, n)[b] = B[1 + b - 1]
    BY <2>1, SubSeqProperties
  <2>4. (1 <= n => n - 1 + 1 = n) /\ (~(1 <= n) => n = 0) /\ n - 1 + 1 = n
    BY <2>2
  <2>5. \A b \in 1 .. n : 1 + b - 1 = b
    BY <2>2
  <2> QED BY <2>3, <2>4, <2>5 DEF Front, n
<1> SUFFICES ASSUME NEW F \in Seq(S), NEW l \in S, F = Front(B), l = Last(B)
             PROVE  B = Append(F, l)
  BY <1>1, <1>2
<1>3. Append(F, l) \in Seq(S) /\ Len(Append(F, l)) = Len(B)
  BY <1>1, <1>2
<1>4. ASSUME NEW b \in 1 .. Len(B) PROVE Append(F, l)[b] = B[b]
  <2>1. CASE b = Len(B)
    BY <1>1, <1>2, <2>1
  <2>2. CASE b \in 1 .. (Len(B) - 1)
    <3>1. b \in 1 .. Len(F) /\ F[b] = B[b]
      BY <1>2, <2>2
    <3>2. Append(F, l)[b] = F[b]
      BY <3>1, AppendProperties
    <3> QED BY <3>1, <3>2
  <2>3. b = Len(B) \/ b \in 1 .. (Len(B) - 1)
    BY <1>1
  <2> QED BY <2>1, <2>2, <2>3
<1> QED BY <1>3, <1>4, SeqEqual

LEMMA ExtendUnits ==
  ASSUME NEW S, NEW B \in Seq(Seq(S)), B # <<>>, NEW g \in Seq(S)
  PROVE  LET C == Append(Front(B), Last(B) \o g)
         IN /\ C \in Seq(Seq(S)) /\ C # <<>>
            /\ Len(B) \in Nat \ {0} /\ Last(B) = B[Len(B)] /\ Last(B) \in Seq(S)
            /\ Len(C) = Len(B)
            /\ \A b \in 1 .. (Len(B) - 1) : C[b] = B[b]
            /\ C[Len(B)] = Last(B) \o g /\ Last(C) = Last(B) \o g
            /\ Assigned(C) = Assigned(B) \cup ToSet(g)
            /\ Apart(B) /\ IsInjective(g) /\ Assigned(B) \cap ToSet(g) = {} => Apart(C)
<1>1. PICK F \in Seq(Seq(S)), l \in Seq(S) :
           /\ F = Front(B) /\ l = Last(B) /\ B = Append(F, l)
           /\ Len(B) \in Nat \ {0} /\ Len(F) = Len(B) - 1 /\ l = B[Len(B)]
  BY FrontAndLast
<1>2. PICK m \in Seq(S) :
        /\ m = l \o g /\ ToSet(m) = ToSet(l) \cup ToSet(g)
        /\ IsInjective(l) /\ IsInjective(g) /\ ToSet(l) \cap ToSet(g) = {} => IsInjective(m)
  BY ConcatUnits
<1>3. /\ \A b \in 1 .. Len(F) : B[b] = F[b]
      /\ Assigned(B) = Assigned(F) \cup ToSet(l)
      /\ Apart(B) <=> Apart(F) /\ IsInjective(l) /\ Assigned(F) \cap ToSet(l) = {}
  <2>1. PICK D \in Seq(Seq(S)) :
          /\ D = Append(F, l)
          /\ \A b \in 1 .. Len(F) : D[b] = F[b]
          /\ Assigned(D) = Assigned(F) \cup ToSet(l)
          /\ Apart(D) <=> Apart(F) /\ IsInjective(l) /\ Assigned(F) \cap ToSet(l) = {}
    BY AppendUnits
  <2>2. D = B
    BY <1>1, <2>1
  <2> QED BY <2>1, <2>2
<1>4. PICK C \in Seq(Seq(S)) :
      /\ C = Append(F, m) /\ C # <<>> /\ Len(C) = Len(F) + 1
      /\ \A b \in 1 .. Len(F) : C[b] = F[b]
      /\ C[Len(F) + 1] = m /\ Last(C) = m
      /\ Assigned(C) = Assigned(F) \cup ToSet(m)
      /\ Apart(C) <=> Apart(F) /\ IsInjective(m) /\ Assigned(F) \cap ToSet(m) = {}
  BY AppendUnits
<1>5. Assigned(C) = Assigned(B) \cup ToSet(g)
  BY <1>2, <1>3, <1>4
<1>6. ASSUME Apart(B), IsInjective(g), Assigned(B) \cap ToSet(g) = {} PROVE Apart(C)
  <2>1. ToSet(l) \cap ToSet(g) = {} /\ Assigned(F) \cap ToSet(m) = {}
    BY <1>2, <1>3, <1>6
  <2> QED BY <1>2, <1>3, <1>4, <1>6, <2>1
<1>7. /\ Len(F) + 1 = Len(B) /\ Len(F) = Len(B) - 1
  BY <1>1
<1>8. /\ C[Len(B)] = m /\ Len(C) = Len(B)
      /\ \A b \in 1 .. (Len(B) - 1) : C[b] = B[b]
  BY <1>3, <1>4, <1>7
<1>9. C = Append(Front(B), Last(B) \o g)
  BY <1>1, <1>2, <1>4
<1> QED BY <1>1, <1>2, <1>4, <1>5, <1>6, <1>8, <1>9
-----------------------------------------------------------------------------
(* The groups of a worklist.                                               *)

(* What one or two units that belong together look like.                   *)
LEMMA GroupOfShape ==
  ASSUME NEW S, NEW u \in S, NEW used, NEW enclosing, u \notin used,
         u \in DOMAIN enclosing => enclosing[u] \in S
  PROVE  LET g == GroupOf(u, used, enclosing)
         IN /\ g \in Seq(S) /\ Len(g) \in 1 .. 2 /\ g # <<>>
            /\ IsInjective(g) /\ ToSet(g) \cap used = {}
            /\ u \in ToSet(g) /\ ToSet(g) \subseteq S
            /\ ToSet(g) \subseteq {u} \cup {enclosing[v] : v \in DOMAIN enclosing}
            /\ u \notin DOMAIN enclosing => g = <<u>>
<1>1. CASE u \in DOMAIN enclosing /\ enclosing[u] \notin used \cup {u}
  <2> DEFINE e == enclosing[u]
             g == <<u, e>>
  <2>1. e \in S /\ e # u /\ e \notin used /\ e \in {enclosing[v] : v \in DOMAIN enclosing}
    BY <1>1
  <2> HIDE DEF e
  <2>2. /\ g \in Seq(S) /\ Len(g) = 2 /\ g # <<>> /\ DOMAIN g = {1, 2} /\ g[1] = u /\ g[2] = e
    BY <2>1
  <2> HIDE DEF g
  <2>3. ToSet(g) = {u, e} /\ IsInjective(g)
    BY <2>1, <2>2 DEF ToSet, IsInjective
  <2>4. GroupOf(u, used, enclosing) = g
    BY <1>1 DEF GroupOf, g, e
  <2> QED BY <1>1, <2>1, <2>2, <2>3, <2>4
<1>2. CASE ~(u \in DOMAIN enclosing /\ enclosing[u] \notin used \cup {u})
  <2> DEFINE g == <<u>>
  <2>1. g \in Seq(S) /\ Len(g) = 1 /\ g # <<>> /\ DOMAIN g = {1} /\ g[1] = u
    OBVIOUS
  <2>2. GroupOf(u, used, enclosing) = g
    BY <1>2 DEF GroupOf
  <2> HIDE DEF g
  <2>3. ToSet(g) = {u} /\ IsInjective(g)
    BY <2>1 DEF ToSet, IsInjective
  <2> QED BY <2>1, <2>2, <2>3 DEF g
<1> QED BY <1>1, <1>2

(* What the groups collected so far have in common.                        *)
Collected(acc, S, size) ==
  /\ acc.groups \in Seq(Seq(S)) /\ acc.used = Assigned(acc.groups) /\ acc.used \subseteq S
  /\ Apart(acc.groups)
  /\ \A k \in DOMAIN acc.groups : Len(acc.groups[k]) \in 1 .. size

LEMMA GroupedCollects ==
  ASSUME NEW S, NEW u \in S, NEW size \in {1, 2}, NEW acc, Collected(acc, S, size),
         NEW enclosing, u \in DOMAIN enclosing => enclosing[u] \in S /\ size = 2
  PROVE  LET next == Grouped(acc, u, enclosing)
         IN /\ Collected(next, S, size) /\ acc.used \subseteq next.used /\ u \in next.used
            /\ next.used \subseteq acc.used \cup {u} \cup {enclosing[v] : v \in DOMAIN enclosing}
            /\ u \notin acc.used /\ u \notin DOMAIN enclosing =>
                 next.groups # <<>> /\ Last(next.groups) = <<u>>
<1>1. CASE u \in acc.used
  <2>1. Grouped(acc, u, enclosing) = acc
    BY <1>1 DEF Grouped
  <2> QED BY <1>1, <2>1
<1>2. CASE u \notin acc.used
  <2> DEFINE B == acc.groups
             next == Grouped(acc, u, enclosing)
  <2>1. PICK g \in Seq(S) :
          /\ g = GroupOf(u, acc.used, enclosing) /\ Len(g) \in 1 .. size /\ g # <<>>
          /\ IsInjective(g) /\ ToSet(g) \cap acc.used = {}
          /\ u \in ToSet(g) /\ ToSet(g) \subseteq S
          /\ ToSet(g) \subseteq {u} \cup {enclosing[v] : v \in DOMAIN enclosing}
          /\ u \notin DOMAIN enclosing => g = <<u>>
    <3>1. PICK g \in Seq(S) :
            /\ g = GroupOf(u, acc.used, enclosing) /\ Len(g) \in 1 .. 2 /\ g # <<>>
            /\ IsInjective(g) /\ ToSet(g) \cap acc.used = {}
            /\ u \in ToSet(g) /\ ToSet(g) \subseteq S
            /\ ToSet(g) \subseteq {u} \cup {enclosing[v] : v \in DOMAIN enclosing}
            /\ u \notin DOMAIN enclosing => g = <<u>>
      BY <1>2, GroupOfShape
    <3>2. CASE size = 2
      BY <3>1, <3>2
    <3>3. CASE size = 1
      <4>1. g = <<u>>
        BY <3>1, <3>3
      <4>2. Len(g) = 1
        BY <4>1
      <4>3. Len(g) \in 1 .. size
        BY <3>3, <4>2
      <4> QED BY <3>1, <4>3
    <3> QED BY <3>2, <3>3
  <2>2. B \in Seq(Seq(S)) /\ Apart(B) /\ acc.used = Assigned(B) /\ acc.used \subseteq S
    BY DEF Collected
  <2>3. next.used = acc.used \cup ToSet(g) /\ next.groups = Append(B, g)
    BY <1>2, <2>1 DEF Grouped
  <2> HIDE DEF next, B
  <2>4. /\ next.groups \in Seq(Seq(S)) /\ next.groups # <<>>
        /\ Len(B) \in Nat /\ DOMAIN next.groups = 1 .. (Len(B) + 1)
        /\ \A b \in 1 .. Len(B) : next.groups[b] = B[b]
        /\ next.groups[Len(B) + 1] = g /\ Last(next.groups) = g
        /\ Assigned(next.groups) = Assigned(B) \cup ToSet(g)
        /\ Apart(next.groups)
    <3> DEFINE C == Append(B, g)
    <3>1. /\ C \in Seq(Seq(S)) /\ C # <<>> /\ Len(B) \in Nat
          /\ DOMAIN C = 1 .. (Len(B) + 1)
          /\ \A b \in 1 .. Len(B) : C[b] = B[b]
          /\ C[Len(B) + 1] = g /\ Last(C) = g
          /\ Assigned(C) = Assigned(B) \cup ToSet(g)
          /\ Apart(C) <=> Apart(B) /\ IsInjective(g) /\ Assigned(B) \cap ToSet(g) = {}
      BY <2>2, AppendUnits
    <3>2. C = next.groups
      BY <2>3
    <3> HIDE DEF C
    <3>3. Apart(C)
      BY <2>1, <2>2, <3>1
    <3> QED BY <3>1, <3>2, <3>3
  <2>5. \A k \in DOMAIN next.groups : Len(next.groups[k]) \in 1 .. size
    <3>1. \A k \in 1 .. Len(B) : Len(B[k]) \in 1 .. size
      BY <2>2 DEF Collected, B
    <3>2. \A k \in 1 .. (Len(B) + 1) : k \in 1 .. Len(B) \/ k = Len(B) + 1
      BY <2>4
    <3> QED BY <2>1, <2>4, <3>1, <3>2
  <2>6. Collected(next, S, size)
    BY <2>1, <2>2, <2>3, <2>4, <2>5 DEF Collected
  <2> QED BY <2>1, <2>3, <2>4, <2>6 DEF next
<1> QED BY <1>1, <1>2

(* The worklist ends with x, which needs nothing and which nothing needs.  *)
EndsAlone(w, enclosing, x) ==
  /\ w # <<>> /\ x = Last(w) /\ \A i \in 1 .. (Len(w) - 1) : w[i] # x
  /\ x \notin DOMAIN enclosing
  /\ \A v \in DOMAIN enclosing : enclosing[v] # x

(* Every unit is in one group, and such a last unit in one of its own.     *)
LEMMA GroupsShape ==
  ASSUME NEW S, NEW w \in Seq(S), ToSet(w) = S, NEW size \in {1, 2}, NEW enclosing,
         \A u \in S : u \in DOMAIN enclosing => enclosing[u] \in S /\ size = 2
  PROVE  LET groups == UnitGroups(w, enclosing)
         IN /\ groups \in Seq(Seq(S)) /\ Apart(groups) /\ Assigned(groups) = S
            /\ \A k \in DOMAIN groups : Len(groups[k]) \in 1 .. size
            /\ \A x : EndsAlone(w, enclosing, x) => groups # <<>> /\ Last(groups) = <<x>>
<1> DEFINE acc == Grouping(w, enclosing)
           N == Len(w)
           needed == {enclosing[v] : v \in DOMAIN enclosing}
           Good == {n \in 0 .. N :
                      /\ Collected(acc[n], S, size)
                      /\ \A i \in 1 .. n : w[i] \in acc[n].used
                      /\ acc[n].used \subseteq {w[i] : i \in 1 .. n} \cup needed}
<1>1. N \in Nat /\ DOMAIN w = 1 .. N /\ \A i \in 1 .. N : w[i] \in S
  OBVIOUS
<1>2. /\ acc[0] = [used |-> {}, groups |-> <<>>]
      /\ \A n \in 1 .. N : acc[n] = Grouped(acc[n - 1], w[n], enclosing)
  BY <1>1, GroupingUnfolds
<1> HIDE DEF acc, N, needed
<1>3. 0 \in Good
  <2>1. Collected([used |-> {}, groups |-> <<>>], S, size)
    BY DEF Collected, Assigned, Apart
  <2>2. acc[0].used = {}
    BY <1>2
  <2> QED BY <1>1, <1>2, <2>1, <2>2
<1>4. ASSUME NEW n \in 1 .. N, n - 1 \in Good PROVE n \in Good
  <2> DEFINE p == acc[n - 1]
             q == acc[n]
             u == w[n]
  <2>1. /\ Collected(p, S, size) /\ \A i \in 1 .. (n - 1) : w[i] \in p.used
        /\ p.used \subseteq {w[i] : i \in 1 .. (n - 1)} \cup needed
    BY <1>4
  <2>2. q = Grouped(p, u, enclosing) /\ u \in S
    BY <1>1, <1>2
  <2> HIDE DEF p, q
  <2>3. /\ Collected(q, S, size) /\ p.used \subseteq q.used /\ u \in q.used
        /\ q.used \subseteq p.used \cup {u} \cup needed
    <3> HIDE DEF u
    <3> QED BY <2>1, <2>2, GroupedCollects DEF needed
  <2>4. \A i \in 1 .. n : i \in 1 .. (n - 1) \/ i = n
    BY <1>1
  <2>5. \A i \in 1 .. n : w[i] \in q.used
    BY <2>1, <2>3, <2>4
  <2>6. 1 .. (n - 1) \subseteq 1 .. n /\ n \in 1 .. n
    BY <1>1
  <2>7. q.used \subseteq {w[i] : i \in 1 .. n} \cup needed
    BY <2>1, <2>3, <2>6
  <2>8. n \in 0 .. N
    BY <1>1
  <2> QED BY <2>3, <2>5, <2>7, <2>8 DEF q
<1>5. \A n \in 0 .. N : /\ Collected(acc[n], S, size)
                        /\ \A i \in 1 .. n : w[i] \in acc[n].used
                        /\ acc[n].used \subseteq {w[i] : i \in 1 .. n} \cup needed
  <2>1. 0 .. N \subseteq Good
    <3> HIDE DEF Good
    <3> QED BY <1>1, <1>3, <1>4, UpTo
  <2> QED BY <2>1
<1> DEFINE groups == acc[N].groups
<1>6. groups = UnitGroups(w, enclosing)
  BY DEF UnitGroups, acc, N
<1>7. N \in 0 .. N
  BY <1>1
<1>8. /\ groups \in Seq(Seq(S)) /\ Apart(groups)
      /\ \A k \in DOMAIN groups : Len(groups[k]) \in 1 .. size
      /\ acc[N].used = Assigned(groups) /\ acc[N].used \subseteq S
  BY <1>5, <1>7 DEF Collected
<1>9. S \subseteq acc[N].used
  BY <1>1, <1>5, <1>7 DEF ToSet
<1>10. ASSUME NEW x, EndsAlone(w, enclosing, x)
       PROVE  groups # <<>> /\ Last(groups) = <<x>>
  <2>0. /\ w # <<>> /\ x = Last(w) /\ \A i \in 1 .. (N - 1) : w[i] # x
        /\ x \notin DOMAIN enclosing /\ x \notin needed
    BY <1>10 DEF EndsAlone, N, needed
  <2>1. N \in 1 .. N /\ N - 1 \in 0 .. N /\ x = w[N]
    BY <1>1, <2>0, EmptySeq DEF Last, N
  <2>2. Collected(acc[N - 1], S, size) /\ x \notin acc[N - 1].used
    BY <1>5, <2>0, <2>1
  <2>3. acc[N] = Grouped(acc[N - 1], x, enclosing) /\ x \in S
    BY <1>1, <1>2, <2>1
  <2> QED BY <2>0, <2>2, <2>3, GroupedCollects
<1> QED BY <1>6, <1>8, <1>9, <1>10 DEF N
-----------------------------------------------------------------------------
(* The batches of the groups.                                              *)

(* What the batches made so far have in common.                            *)
Filled(batches, S, maximum) ==
  /\ batches \in Seq(Seq(S)) /\ Apart(batches)
  /\ \A b \in DOMAIN batches : Len(batches[b]) \in 1 .. maximum
  /\ \A b \in 2 .. Len(batches) : Len(batches[b - 1]) + Len(batches[b]) > maximum

LEMMA PutFills ==
  ASSUME NEW S, NEW maximum \in Nat, NEW B, Filled(B, S, maximum),
         NEW g \in Seq(S), Len(g) \in 1 .. maximum,
         IsInjective(g), Assigned(B) \cap ToSet(g) = {}
  PROVE  LET C == Put(B, g, maximum)
         IN /\ Filled(C, S, maximum) /\ C # <<>>
            /\ Assigned(C) = Assigned(B) \cup ToSet(g) /\ Last(Last(C)) = Last(g)
<1>1. /\ B \in Seq(Seq(S)) /\ Apart(B) /\ Len(B) \in Nat /\ DOMAIN B = 1 .. Len(B)
      /\ \A b \in 1 .. Len(B) : Len(B[b]) \in 1 .. maximum
      /\ \A b \in 2 .. Len(B) : Len(B[b - 1]) + Len(B[b]) > maximum
  <2>1. B \in Seq(Seq(S))
    BY DEF Filled
  <2>2. Len(B) \in Nat /\ DOMAIN B = 1 .. Len(B)
    BY <2>1
  <2> QED BY <2>1, <2>2 DEF Filled
<1> DEFINE n == Len(B)
<1> HIDE DEF n
<1>2. CASE B = <<>> \/ Len(Last(B)) + Len(g) > maximum
  <2>1. PICK C \in Seq(Seq(S)) :
          /\ C = Append(B, g) /\ C # <<>> /\ Len(C) = Len(B) + 1
          /\ DOMAIN C = 1 .. (Len(B) + 1)
          /\ \A b \in 1 .. Len(B) : C[b] = B[b]
          /\ C[Len(B) + 1] = g /\ Last(C) = g
          /\ Assigned(C) = Assigned(B) \cup ToSet(g) /\ Apart(C)
    <3>1. B \in Seq(Seq(S)) /\ Apart(B)
      BY <1>1
    <3>2. LET C == Append(B, g)
          IN /\ C \in Seq(Seq(S)) /\ C # <<>> /\ Len(C) = Len(B) + 1
             /\ DOMAIN C = 1 .. (Len(B) + 1)
             /\ \A b \in 1 .. Len(B) : C[b] = B[b]
             /\ C[Len(B) + 1] = g /\ Last(C) = g
             /\ Assigned(C) = Assigned(B) \cup ToSet(g)
             /\ Apart(C) <=> Apart(B) /\ IsInjective(g) /\ Assigned(B) \cap ToSet(g) = {}
      BY <3>1, AppendUnits
    <3> DEFINE A == Append(B, g)
    <3> HIDE DEF A
    <3> QED BY <3>1, <3>2 DEF A
  <2>2. ASSUME NEW b \in DOMAIN C PROVE Len(C[b]) \in 1 .. maximum
    <3>1. b \in 1 .. Len(B) \/ b = Len(B) + 1
      BY <1>1, <2>1
    <3> QED BY <1>1, <2>1, <3>1
  <2>3. ASSUME NEW b \in 2 .. Len(C) PROVE Len(C[b - 1]) + Len(C[b]) > maximum
    <3>1. CASE b \in 2 .. Len(B)
      <4>1. b \in 1 .. Len(B) /\ b - 1 \in 1 .. Len(B)
        BY <1>1, <3>1
      <4> QED BY <1>1, <2>1, <3>1, <4>1
    <3>2. CASE b = Len(B) + 1
      <4>1. b - 1 = Len(B) /\ Len(B) \in 1 .. Len(B)
        BY <1>1, <2>1, <3>2
      <4>2. B # <<>> /\ Last(B) = B[Len(B)]
        BY <4>1 DEF Last
      <4>3. C[b - 1] = Last(B) /\ C[b] = g
        BY <2>1, <3>2, <4>1, <4>2
      <4> QED BY <1>2, <4>2, <4>3
    <3>3. b \in 2 .. Len(B) \/ b = Len(B) + 1
      BY <1>1, <2>1
    <3> QED BY <3>1, <3>2, <3>3
  <2>4. Put(B, g, maximum) = C
    BY <1>2, <2>1 DEF Put
  <2> QED BY <2>1, <2>2, <2>3, <2>4 DEF Filled
<1>3. CASE B # <<>> /\ ~(Len(Last(B)) + Len(g) > maximum)
  <2>1. PICK C \in Seq(Seq(S)) :
          /\ C = Append(Front(B), Last(B) \o g) /\ C # <<>>
          /\ Len(B) \in Nat \ {0} /\ Last(B) = B[Len(B)] /\ Last(B) \in Seq(S)
          /\ Len(C) = Len(B)
          /\ \A b \in 1 .. (Len(B) - 1) : C[b] = B[b]
          /\ C[Len(B)] = Last(B) \o g /\ Last(C) = Last(B) \o g
          /\ Assigned(C) = Assigned(B) \cup ToSet(g) /\ Apart(C)
    <3> DEFINE D == Append(Front(B), Last(B) \o g)
    <3>1. B \in Seq(Seq(S)) /\ B # <<>>
      BY <1>1, <1>3
    <3>2. /\ D \in Seq(Seq(S)) /\ D # <<>>
          /\ Len(B) \in Nat \ {0} /\ Last(B) = B[Len(B)] /\ Last(B) \in Seq(S)
          /\ Len(D) = Len(B)
          /\ \A b \in 1 .. (Len(B) - 1) : D[b] = B[b]
          /\ D[Len(B)] = Last(B) \o g /\ Last(D) = Last(B) \o g
          /\ Assigned(D) = Assigned(B) \cup ToSet(g)
          /\ Apart(B) /\ IsInjective(g) /\ Assigned(B) \cap ToSet(g) = {} => Apart(D)
      BY <3>1, ExtendUnits
    <3> HIDE DEF D
    <3>3. Apart(D)
      BY <1>1, <3>2
    <3> QED BY <3>2, <3>3 DEF D
  <2>2. /\ Len(Last(B) \o g) = Len(Last(B)) + Len(g) /\ g # <<>>
        /\ Last(Last(B) \o g) = Last(g)
    <3>1. g # <<>>
      OBVIOUS
    <3> QED BY <2>1, <3>1, ConcatUnits
  <2>3. Len(Last(B)) \in 1 .. maximum /\ Len(Last(B) \o g) \in 1 .. maximum
        /\ Len(Last(B) \o g) >= Len(Last(B))
    <3>1. Len(Last(B)) \in 1 .. maximum
      BY <1>1, <2>1
    <3> QED BY <1>3, <2>2, <3>1
  <2>4. DOMAIN C = 1 .. Len(B)
    BY <2>1, LenProperties
  <2>5. ASSUME NEW b \in DOMAIN C PROVE Len(C[b]) \in 1 .. maximum
    <3>1. b \in 1 .. n
      BY <2>4 DEF n
    <3>2. b \in 1 .. (n - 1) \/ b = n
      BY <1>1, <3>1 DEF n
    <3> QED BY <1>1, <2>1, <2>3, <3>1, <3>2 DEF n
  <2>6. ASSUME NEW b \in 2 .. Len(C) PROVE Len(C[b - 1]) + Len(C[b]) > maximum
    <3>1. n \in Nat /\ b \in 2 .. n
      BY <1>1, <2>1 DEF n
    <3>2. /\ b - 1 \in 1 .. (n - 1) /\ b - 1 \in 1 .. n /\ b \in 1 .. n
          /\ b \in 1 .. (n - 1) \/ b = n
      BY <3>1
    <3> DEFINE x == Len(B[b - 1])
               y == Len(B[b])
    <3>3. C[b - 1] = B[b - 1] /\ x + y > maximum /\ x \in Nat /\ y \in Nat
      <4>1. x \in 1 .. maximum /\ y \in 1 .. maximum
        BY <1>1, <3>2 DEF n
      <4>2. x + y > maximum
        BY <1>1, <3>1 DEF n
      <4>3. C[b - 1] = B[b - 1]
        BY <2>1, <3>2 DEF n
      <4> HIDE DEF x, y
      <4> QED BY <4>1, <4>2, <4>3
    <3>4. CASE b \in 1 .. (n - 1)
      BY <2>1, <3>3, <3>4 DEF n
    <3>5. CASE b = n
      <4> DEFINE z == Len(C[b])
      <4>1. z \in Nat /\ z >= y
        BY <2>1, <2>3, <3>5 DEF n
      <4> HIDE DEF x, y, z
      <4>2. x + z > maximum
        BY <3>3, <4>1
      <4> QED BY <3>3, <4>2 DEF x, z
    <3> QED BY <3>2, <3>4, <3>5
  <2>7. Put(B, g, maximum) = C
    BY <1>3, <2>1 DEF Put
  <2> QED BY <2>1, <2>2, <2>5, <2>6, <2>7 DEF Filled
<1> QED BY <1>2, <1>3

(* Every group is in one batch, whole, and the last group ends the last    *)
(* batch.                                                                  *)
LEMMA PackedShape ==
  ASSUME NEW S, NEW maximum \in Nat, NEW groups \in Seq(Seq(S)), Apart(groups),
         \A k \in DOMAIN groups : Len(groups[k]) \in 1 .. maximum
  PROVE  LET batches == Packed(groups, maximum)
         IN /\ Filled(batches, S, maximum) /\ Assigned(batches) = Assigned(groups)
            /\ groups # <<>> => batches # <<>> /\ Last(Last(batches)) = Last(Last(groups))
<1> DEFINE P == Packing(groups, maximum)
           N == Len(groups)
           units(n) == UNION {ToSet(groups[i]) : i \in 1 .. n}
           Good == {n \in 0 .. N :
                      /\ Filled(P[n], S, maximum) /\ Assigned(P[n]) = units(n)
                      /\ n > 0 => P[n] # <<>> /\ Last(Last(P[n])) = Last(groups[n])}
<1>1. N \in Nat /\ DOMAIN groups = 1 .. N /\ \A i \in 1 .. N : groups[i] \in Seq(S)
  OBVIOUS
<1>2. P[0] = <<>> /\ \A n \in 1 .. N : P[n] = Put(P[n - 1], groups[n], maximum)
  BY <1>1, PackingUnfolds
<1> HIDE DEF P, N
<1>3. 0 \in Good
  <2>1. Filled(<<>>, S, maximum)
    BY DEF Filled, Apart
  <2>2. Assigned(<<>>) = {} /\ units(0) = {}
    BY DEF Assigned
  <2> HIDE DEF units
  <2>3. 0 \in 0 .. N /\ ~(0 > 0)
    BY <1>1
  <2>4. Filled(P[0], S, maximum) /\ Assigned(P[0]) = units(0)
    BY <1>2, <2>1, <2>2
  <2> QED BY <2>3, <2>4
<1>4. ASSUME NEW n \in 1 .. N, n - 1 \in Good PROVE n \in Good
  <2> DEFINE p == P[n - 1]
             q == P[n]
             g == groups[n]
  <2>1. Filled(p, S, maximum) /\ Assigned(p) = units(n - 1)
    BY <1>4
  <2>2. q = Put(p, g, maximum) /\ g \in Seq(S) /\ Len(g) \in 1 .. maximum
    BY <1>1, <1>2
  <2>3. IsInjective(g)
    BY <1>1 DEF Apart, IsInjective
  <2>4. units(n - 1) \cap ToSet(g) = {}
    <3>1. ASSUME NEW i \in 1 .. (n - 1) PROVE ToSet(groups[i]) \cap ToSet(g) = {}
      <4>1. i \in DOMAIN groups /\ n \in DOMAIN groups /\ i # n
        BY <1>1
      <4> QED BY <4>1 DEF Apart, ToSet
    <3> QED BY <3>1
  <2>5. units(n) = units(n - 1) \cup ToSet(g)
    <3>1. 1 .. n = (1 .. (n - 1)) \cup {n}
      BY <1>1
    <3> QED BY <3>1
  <2> HIDE DEF p, q, g, units
  <2>6. /\ Filled(q, S, maximum) /\ q # <<>>
        /\ Assigned(q) = Assigned(p) \cup ToSet(g) /\ Last(Last(q)) = Last(g)
    BY <2>1, <2>2, <2>3, <2>4, PutFills
  <2>7. n \in 0 .. N
    BY <1>1
  <2> QED BY <2>1, <2>5, <2>6, <2>7 DEF q, g
<1>5. N \in Good
  <2>1. 0 .. N \subseteq Good
    <3> HIDE DEF Good
    <3> QED BY <1>1, <1>3, <1>4, UpTo
  <2>2. N \in 0 .. N
    BY <1>1
  <2> HIDE DEF Good
  <2> QED BY <2>1, <2>2
<1>6. P[N] = Packed(groups, maximum)
  BY DEF Packed, P, N
<1>7. units(N) = Assigned(groups)
  BY <1>1 DEF Assigned
<1>8. groups # <<>> => N > 0 /\ Last(groups) = groups[N]
  BY EmptySeq DEF Last, N
<1> HIDE DEF units
<1> QED BY <1>5, <1>6, <1>7, <1>8

(* No more units than fit into one batch are one batch.                    *)
LEMMA OneBatch ==
  ASSUME NEW S, NEW maximum \in Nat, NEW B, Filled(B, S, maximum), Len(B) > 1,
         IsFiniteSet(Assigned(B))
  PROVE  Cardinality(Assigned(B)) > maximum
<1>1. /\ B \in Seq(Seq(S)) /\ Apart(B) /\ Len(B) \in Nat /\ DOMAIN B = 1 .. Len(B)
      /\ 1 \in DOMAIN B /\ 2 \in DOMAIN B
  <2>1. B \in Seq(Seq(S))
    BY DEF Filled
  <2>2. Len(B) \in Nat /\ DOMAIN B = 1 .. Len(B)
    BY <2>1
  <2> QED BY <2>1, <2>2 DEF Filled
<1> DEFINE m == Len(B[1])
           n == Len(B[2])
           h == [k \in 1 .. (m + n) |-> IF k <= m THEN B[1][k] ELSE B[2][k - m]]
<1>2. /\ B[1] \in Seq(S) /\ B[2] \in Seq(S)
      /\ m \in Nat /\ n \in Nat /\ DOMAIN B[1] = 1 .. m /\ DOMAIN B[2] = 1 .. n
  BY <1>1
<1>3. m + n > maximum
  <2>1. 2 \in 2 .. Len(B) /\ 2 - 1 = 1
    BY <1>1
  <2> QED BY <2>1 DEF Filled
<1>4. \A k \in 1 .. (m + n) :
        \/ k \in DOMAIN B[1] /\ h[k] = B[1][k] /\ k <= m
        \/ k - m \in DOMAIN B[2] /\ h[k] = B[2][k - m] /\ ~(k <= m)
  <2> HIDE DEF m, n
  <2> QED BY <1>2
<1>5. h \in Injection(1 .. (m + n), Assigned(B))
  <2> HIDE DEF h
  <2>1. DOMAIN h = 1 .. (m + n)
    BY DEF h
  <2>2. \A k \in DOMAIN h : h[k] \in Assigned(B)
    <3>1. ToSet(B[1]) \subseteq Assigned(B) /\ ToSet(B[2]) \subseteq Assigned(B)
      BY <1>1 DEF Assigned
    <3> QED BY <1>4, <2>1, <3>1 DEF ToSet
  <2>3. ASSUME NEW j \in DOMAIN h, NEW k \in DOMAIN h, h[j] = h[k] PROVE j = k
    <3> HIDE DEF m, n
    <3>0. Apart(B) /\ 1 \in DOMAIN B /\ 2 \in DOMAIN B
      BY <1>1
    <3>1. \A x, y \in DOMAIN B[2] : B[2][x] = B[2][y] => x = y
      BY <3>0, Zenon DEF Apart
    <3>2. \A x, y \in DOMAIN B[1] : B[1][x] = B[1][y] => x = y
      BY <3>0, Zenon DEF Apart
    <3>3. \A x \in DOMAIN B[1], y \in DOMAIN B[2] : B[1][x] # B[2][y]
      <4>1. \A x \in DOMAIN B[1], y \in DOMAIN B[2] : B[1][x] = B[2][y] => 1 = 2
        BY <3>0, Zenon DEF Apart
      <4> QED BY <4>1
    <3>4. CASE /\ j - m \in DOMAIN B[2] /\ h[j] = B[2][j - m]
               /\ k - m \in DOMAIN B[2] /\ h[k] = B[2][k - m]
      <4>1. j - m = k - m
        BY <2>3, <3>1, <3>4
      <4> QED BY <1>2, <2>1, <4>1
    <3> QED BY <1>4, <2>1, <2>3, <3>2, <3>3, <3>4
  <2>4. h \in [1 .. (m + n) -> Assigned(B)]
    BY <2>1, <2>2 DEF h
  <2> QED BY <2>1, <2>3, <2>4 DEF Injection, IsInjective
<1>6. Cardinality(1 .. (m + n)) = m + n
  <2> DEFINE k == m + n
  <2>1. k \in Nat
    <3>1. m \in Nat /\ n \in Nat
      BY <1>2
    <3> HIDE DEF m, n
    <3> QED BY <3>1
  <2> HIDE DEF k
  <2>2. Cardinality(1 .. k) = IF 1 > k THEN 0 ELSE k - 1 + 1
    BY <2>1, FS_Interval
  <2>3. Cardinality(1 .. k) = k
    BY <2>1, <2>2
  <2> QED BY <2>3 DEF k
<1>7. m + n <= Cardinality(Assigned(B))
  <2> HIDE DEF m, n, h
  <2> QED BY <1>5, <1>6, FS_Injection
<1>8. Cardinality(Assigned(B)) \in Nat
  BY FS_CardinalityType
<1> HIDE DEF m, n
<1> QED BY <1>2, <1>3, <1>7, <1>8

-----------------------------------------------------------------------------
(* The batches of a worklist.                                              *)

LEMMA SequenceSize ==
  ASSUME NEW S, NEW s \in Seq(S)
  PROVE  /\ IsFiniteSet(ToSet(s)) /\ Cardinality(ToSet(s)) \in Nat
         /\ Len(s) \in Nat /\ Cardinality(ToSet(s)) <= Len(s)
         /\ IsInjective(s) => Cardinality(ToSet(s)) = Len(s)
<1> DEFINE D == 1 .. Len(s)
           T == ToSet(s)
<1>1. Len(s) \in Nat /\ DOMAIN s = D /\ s \in [D -> S]
  OBVIOUS
<1>2. IsFiniteSet(D) /\ Cardinality(D) = Len(s)
  <2> DEFINE k == Len(s)
  <2>1. k \in Nat
    BY <1>1
  <2> HIDE DEF k
  <2>2. IsFiniteSet(1 .. k) /\ Cardinality(1 .. k) = IF 1 > k THEN 0 ELSE k - 1 + 1
    BY <2>1, FS_Interval
  <2>3. Cardinality(1 .. k) = k
    BY <2>1, <2>2
  <2> QED BY <2>2, <2>3 DEF k
<1> HIDE DEF D, T
<1>3. s \in Surjection(D, T)
  <2>1. s \in [D -> T] /\ \A t \in T : \E i \in D : s[i] = t
    BY <1>1 DEF ToSet, T
  <2> QED BY <2>1 DEF Surjection
<1>4. /\ IsFiniteSet(T) /\ Cardinality(T) <= Cardinality(D)
      /\ Cardinality(T) = Cardinality(D) <=> s \in Injection(D, T)
  BY <1>2, <1>3, FS_Surjection
<1>5. IsInjective(s) => s \in Injection(D, T)
  BY <1>3 DEF Surjection, Injection
<1>6. Cardinality(T) \in Nat
  BY <1>4, FS_CardinalityType
<1> QED BY <1>1, <1>2, <1>4, <1>5, <1>6 DEF T

(* Every unit of the worklist is in one batch, once; no batch is larger    *)
(* than it may be and no two neighbours fit into one; there is one batch   *)
(* if one is enough; and a last unit that nothing needs and that needs     *)
(* nothing is the last one of the last batch.                              *)
SharedOut(batches, w, S, enclosing, maximum) ==
  /\ Filled(batches, S, maximum) /\ Assigned(batches) = S
  /\ Len(batches) \in Nat /\ Cardinality(S) \in Nat
  /\ Cardinality(S) > maximum <=> Len(batches) > 1
  /\ batches # <<>> <=> w # <<>>
  /\ \A x : EndsAlone(w, enclosing, x) => Last(Last(batches)) = x

LEMMA BatchesShape ==
  ASSUME NEW S, NEW w \in Seq(S), ToSet(w) = S, NEW size \in {1, 2}, NEW enclosing,
         \A u \in S : u \in DOMAIN enclosing => enclosing[u] \in S /\ size = 2,
         NEW maximum \in Nat \ {0}, size = 1 \/ Batchable(w, enclosing, maximum)
  PROVE  SharedOut(BatchUnits(w, enclosing, maximum), w, S, enclosing, maximum)
<1> DEFINE batches == BatchUnits(w, enclosing, maximum)
<1>1. PICK groups \in Seq(Seq(S)) :
        /\ groups = UnitGroups(w, enclosing) /\ Apart(groups) /\ Assigned(groups) = S
        /\ \A k \in DOMAIN groups : Len(groups[k]) \in 1 .. size
        /\ \A x : EndsAlone(w, enclosing, x) => groups # <<>> /\ Last(groups) = <<x>>
  <2> DEFINE U == UnitGroups(w, enclosing)
  <2>1. /\ U \in Seq(Seq(S)) /\ Apart(U) /\ Assigned(U) = S
        /\ \A k \in DOMAIN U : Len(U[k]) \in 1 .. size
        /\ \A x : EndsAlone(w, enclosing, x) => U # <<>> /\ Last(U) = <<x>>
    BY GroupsShape
  <2> HIDE DEF U
  <2> QED BY <2>1 DEF U
<1>2. ASSUME NEW k \in DOMAIN groups PROVE Len(groups[k]) \in 1 .. maximum
  <2>1. CASE size = 1
    <3>1. Len(groups[k]) \in 1 .. 1
      BY <1>1, <2>1
    <3>2. Len(groups[k]) = 1
      BY <3>1
    <3> QED BY <3>2
  <2>2. CASE Batchable(w, enclosing, maximum)
    <3>1. groups[k] \in ToSet(groups)
      BY DEF ToSet
    <3>2. Len(groups[k]) <= maximum
      BY <1>1, <2>2, <3>1 DEF Batchable
    <3> QED BY <1>1, <3>2
  <2> QED BY <2>1, <2>2
<1>3. batches = Packed(groups, maximum)
  BY <1>1 DEF BatchUnits
<1> HIDE DEF batches
<1>4. /\ Filled(batches, S, maximum) /\ Assigned(batches) = S
      /\ groups # <<>> => batches # <<>> /\ Last(Last(batches)) = Last(Last(groups))
  BY <1>1, <1>2, <1>3, PackedShape
<1>5. IsFiniteSet(S) /\ Cardinality(S) \in Nat
  BY SequenceSize
<1>6. batches \in Seq(Seq(S)) /\ Len(batches) \in Nat /\ DOMAIN batches = 1 .. Len(batches)
  <2>1. batches \in Seq(Seq(S))
    BY <1>4 DEF Filled
  <2> QED BY <2>1, LenProperties
<1>7. Len(batches) > 1 => Cardinality(S) > maximum
  BY <1>4, <1>5, OneBatch
<1>8. ASSUME Len(batches) <= 1 PROVE Cardinality(S) <= maximum
  <2>1. CASE Len(batches) = 0
    <3>1. S = {}
      BY <1>4, <1>6, <2>1 DEF Assigned
    <3> QED BY <3>1, FS_EmptySet
  <2>2. CASE Len(batches) = 1
    <3>1. DOMAIN batches = {1}
      BY <1>6, <2>2
    <3>2. batches[1] \in Seq(S)
      <4>1. 1 \in 1 .. Len(batches)
        BY <2>2
      <4> QED BY <1>6, <4>1, ElementOfSeq
    <3>3. S = ToSet(batches[1])
      <4>1. \A b \in DOMAIN batches : b = 1
        BY <3>1
      <4>2. UNION {ToSet(batches[b]) : b \in DOMAIN batches} = ToSet(batches[1])
        BY <3>1, <4>1
      <4> QED BY <1>4, <4>2 DEF Assigned
    <3>4. Len(batches[1]) \in 1 .. maximum
      BY <1>4, <3>1 DEF Filled
    <3>5. Cardinality(S) <= Len(batches[1])
      BY <3>2, <3>3, SequenceSize
    <3> QED BY <1>5, <3>4, <3>5
  <2> QED BY <1>6, <1>8, <2>1, <2>2
<1>9. batches # <<>> <=> w # <<>>
  <2>1. S = {} <=> w = <<>>
    BY DEF ToSet
  <2>2. ASSUME batches # <<>> PROVE S # {}
    <3>1. 1 \in DOMAIN batches /\ batches[1] \in Seq(S)
      BY <1>6, <2>2
    <3>2. Len(batches[1]) \in 1 .. maximum
      BY <1>4, <3>1 DEF Filled
    <3>3. batches[1][1] \in S
      BY <3>1, <3>2
    <3> QED BY <3>3
  <2>3. batches = <<>> => S = {}
    BY <1>4 DEF Assigned
  <2> QED BY <2>1, <2>2, <2>3
<1>10. ASSUME NEW x, EndsAlone(w, enclosing, x) PROVE Last(Last(batches)) = x
  <2>1. groups # <<>> /\ Last(groups) = <<x>>
    BY <1>1, <1>10
  <2>2. Last(<<x>>) = x
    BY DEF Last
  <2> QED BY <1>4, <2>1, <2>2
<1>11. Cardinality(S) > maximum <=> Len(batches) > 1
  BY <1>5, <1>6, <1>7, <1>8
<1>12. SharedOut(batches, w, S, enclosing, maximum)
  BY <1>4, <1>5, <1>6, <1>9, <1>10, <1>11 DEF SharedOut
<1> QED BY <1>12 DEF batches
=============================================================================
