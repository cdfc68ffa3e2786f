----------------------------- MODULE TotalsProofs -----------------------------
(* How Total follows a change of one value. *)
EXTENDS Totals, FiniteSetTheorems, TLAPS

LEMMA InUnits ==
  ASSUME NEW P, NEW R \in [P -> Nat], NEW x
  PROVE  x \in Units(R) <=> \E p \in P : \E n \in 1 .. R[p] : x = <<p, n>>
BY DEF Units

LEMMA TotalOfNothing ==
  ASSUME NEW P, NEW R \in [P -> Nat], \A p \in P : R[p] = 0
  PROVE  IsFiniteSet(Units(R)) /\ Total(R) = 0
<1>1. Units(R) = {}
  <2>1. \A p \in P : ~\E n \in 1 .. R[p] : TRUE  OBVIOUS
  <2>2. \A x : x \notin Units(R)  BY <2>1, InUnits
  <2> QED BY <2>2, Zenon
<1> QED BY <1>1, FS_EmptySet DEF Total

LEMMA NothingInTotal ==
  ASSUME NEW P, NEW R \in [P -> Nat], IsFiniteSet(Units(R)), Total(R) = 0, NEW p \in P
  PROVE  R[p] = 0
<1>1. Units(R) = {}
  BY FS_EmptySet DEF Total
<1>2. CASE R[p] # 0
  <2>1. 1 \in 1 .. R[p]  BY <1>2
  <2>2. <<p, 1>> \in Units(R)  BY <2>1, InUnits
  <2> QED BY <1>1, <2>2
<1> QED BY <1>2

(* R and S have the same values but for that of p. *)
AllBut(p, R, S) == \A q \in DOMAIN R : q # p => S[q] = R[q]

(* The units of p are apart from those of all the others. *)
LEMMA UnitsApart ==
  ASSUME NEW P, NEW R \in [P -> Nat], NEW p \in P, NEW Z \in [P -> Nat],
         AllBut(p, R, Z), Z[p] = 0
  PROVE  /\ Units(R) = Units(Z) \union ({p} \X (1 .. R[p]))
         /\ Units(Z) \cap ({p} \X (1 .. R[p])) = {}
<1>1. PICK own : own = {p} \X (1 .. R[p])
  OBVIOUS
<1>2. \A x : x \in Units(R) => x \in Units(Z) \union own
  <2>1. SUFFICES ASSUME NEW x, x \in Units(R) PROVE x \in Units(Z) \union own
    OBVIOUS
  <2>2. PICK q \in P : \E n \in 1 .. R[q] : x = <<q, n>>  BY <2>1, InUnits
  <2>3. PICK n \in 1 .. R[q] : x = <<q, n>>  BY <2>2
  <2>4. CASE q = p
    BY <1>1, <2>3, <2>4
  <2>5. CASE q # p
    <3>1. n \in 1 .. Z[q]  BY <2>5 DEF AllBut
    <3> QED BY <2>3, <3>1, InUnits
  <2> QED BY <2>4, <2>5
<1>3. \A x : x \in Units(Z) => x \in Units(R) /\ x \notin own
  <2>1. SUFFICES ASSUME NEW x, x \in Units(Z) PROVE x \in Units(R) /\ x \notin own
    OBVIOUS
  <2>2. PICK q \in P : \E n \in 1 .. Z[q] : x = <<q, n>>  BY <2>1, InUnits
  <2>3. PICK n \in 1 .. Z[q] : x = <<q, n>>  BY <2>2
  <2>4. q # p /\ n \in 1 .. R[q]  BY <2>3 DEF AllBut
  <2>5. x \notin own  BY <1>1, <2>3, <2>4
  <2> QED BY <2>3, <2>4, <2>5, InUnits
<1>4. \A x : x \in own => x \in Units(R)
  <2>1. SUFFICES ASSUME NEW x, x \in own PROVE x \in Units(R)
    OBVIOUS
  <2>2. PICK n \in 1 .. R[p] : x = <<p, n>>  BY <1>1, <2>1
  <2> QED BY <2>2, InUnits
<1>5. Units(R) = Units(Z) \union own /\ Units(Z) \cap own = {}
  BY <1>2, <1>3, <1>4, Zenon
<1> QED BY <1>1, <1>5

LEMMA OwnUnits ==
  ASSUME NEW p, NEW n \in Nat
  PROVE  IsFiniteSet({p} \X (1 .. n)) /\ Cardinality({p} \X (1 .. n)) = n
<1>1. IsFiniteSet({p}) /\ Cardinality({p}) = 1
  BY FS_Singleton
<1>2. IsFiniteSet(1 .. n) /\ Cardinality(1 .. n) = n
  <2>1. 1 \in Int /\ n \in Int  OBVIOUS
  <2>2. IsFiniteSet(1 .. n) /\ Cardinality(1 .. n) = IF 1 > n THEN 0 ELSE n - 1 + 1
    BY <2>1, FS_Interval
  <2> QED BY <2>2
<1>3. /\ IsFiniteSet({p} \X (1 .. n))
      /\ Cardinality({p} \X (1 .. n)) = Cardinality({p}) * Cardinality(1 .. n)
  BY <1>1, <1>2, FS_Product
<1> QED BY <1>1, <1>2, <1>3

(* Without the value of p the sum is less by that value. *)
LEMMA TotalWithout ==
  ASSUME NEW P, NEW R \in [P -> Nat], NEW p \in P, NEW Z \in [P -> Nat],
         AllBut(p, R, Z), Z[p] = 0, IsFiniteSet(Units(Z))
  PROVE  IsFiniteSet(Units(R)) /\ Total(R) = Total(Z) + R[p]
<1>1. PICK own : own = {p} \X (1 .. R[p])
  OBVIOUS
<1>2. Units(R) = Units(Z) \union own /\ Units(Z) \cap own = {}
  BY <1>1, UnitsApart
<1>3. IsFiniteSet(own) /\ Cardinality(own) = R[p]
  BY <1>1, OwnUnits
<1>4. /\ IsFiniteSet(Units(Z) \union own)
      /\ Cardinality(Units(Z) \union own) =
           Cardinality(Units(Z)) + Cardinality(own) - Cardinality(Units(Z) \cap own)
  BY <1>3, FS_Union
<1>5. Cardinality(Units(Z)) \in Nat /\ Cardinality({}) = 0
  BY FS_CardinalityType, FS_EmptySet
<1> QED BY <1>2, <1>3, <1>4, <1>5 DEF Total

LEMMA TotalChanges ==
  ASSUME NEW P, NEW R \in [P -> Nat], NEW p \in P,
         NEW S \in [P -> Nat], AllBut(p, R, S), IsFiniteSet(Units(R))
  PROVE  IsFiniteSet(Units(S)) /\ Total(S) = Total(R) - R[p] + S[p]
<1> DEFINE Y == [R EXCEPT ![p] = 0]
<1>1. Y \in [P -> Nat] /\ Y[p] = 0 /\ AllBut(p, R, Y) /\ AllBut(p, S, Y)
  BY DEF AllBut
<1> HIDE DEF Y
<1>2. PICK Z \in [P -> Nat] : Z[p] = 0 /\ AllBut(p, R, Z) /\ AllBut(p, S, Z)
  BY <1>1
<1>3. IsFiniteSet(Units(Z))
  <2>1. Units(Z) \in SUBSET Units(R)  BY <1>2, UnitsApart
  <2> QED BY <2>1, FS_Subset
<1>4. Total(R) = Total(Z) + R[p]
  BY <1>2, <1>3, TotalWithout
<1>5. IsFiniteSet(Units(S)) /\ Total(S) = Total(Z) + S[p]
  BY <1>2, <1>3, TotalWithout
<1>6. Total(Z) \in Nat
  BY <1>3, FS_CardinalityType DEF Total
<1> QED BY <1>4, <1>5, <1>6

(* A sum is no more than the number of its terms times the largest. *)
LEMMA TotalBounded ==
  ASSUME NEW P, IsFiniteSet(P), NEW n \in Nat, NEW R \in [P -> Nat],
         \A p \in P : R[p] <= n
  PROVE  Total(R) <= Cardinality(P) * n
<1>1. IsFiniteSet(1 .. n) /\ Cardinality(1 .. n) = n
  <2>1. 1 \in Int /\ n \in Int  OBVIOUS
  <2>2. IsFiniteSet(1 .. n) /\ Cardinality(1 .. n) = IF 1 > n THEN 0 ELSE n - 1 + 1
    BY <2>1, FS_Interval
  <2> QED BY <2>2
<1>2. /\ IsFiniteSet(P \X (1 .. n))
      /\ Cardinality(P \X (1 .. n)) = Cardinality(P) * Cardinality(1 .. n)
  BY <1>1, FS_Product
<1>3. Units(R) \in SUBSET (P \X (1 .. n))
  <2>1. SUFFICES ASSUME NEW x, x \in Units(R) PROVE x \in P \X (1 .. n)
    OBVIOUS
  <2>2. PICK p \in P : \E m \in 1 .. R[p] : x = <<p, m>>  BY <2>1, InUnits
  <2>3. PICK m \in 1 .. R[p] : x = <<p, m>>  BY <2>2
  <2>4. m \in 1 .. n  BY <2>3
  <2> QED BY <2>3, <2>4
<1> QED BY <1>1, <1>2, <1>3, FS_Subset DEF Total
=============================================================================
