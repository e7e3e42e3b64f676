--------------------- MODULE AppserviceTxnCounterProofs ---------------------
(***************************************************************************)
(* Proof that selectTxnID hands an ID out at most (restarts + 1) times per *)
(* worker, for every number of workers, bound and number of restarts.     *)
(*                                                                         *)
(* The argument.  Every UPDATE moves every 'txn_id' row up by one, so a   *)
(* row holds a value during one stretch of time, and each start adds at   *)
(* most one row: there are at most restarts + 1 rows.  While a row holds  *)
(* i, a worker scans i at most once before its own UPDATE moves the row   *)
(* on; an ID is handed out by the UPDATE that follows a scan.  The        *)
(* inductive form counts, for each i, the rows above i (the stretches at  *)
(* i that are over): while a row holds i, issued[i] is at most |Workers|  *)
(* per stretch that is over; otherwise issued[i] and the scans of i still *)
(* waiting for their UPDATE together are.                                  *)
(***************************************************************************)
EXTENDS AppserviceTxnCounter, FiniteSetTheorems, TLAPS

N == Cardinality(Workers)

(* The workers whose SELECT scanned i and whose UPDATE has not run.        *)
Pend(i) == {w \in Workers : pc[w] = "selected" /\ got[w] = i}

(* The values of rows above i, and of rows at or above i.                 *)
Gt(S, i) == {v \in S : v > i}
Ge(S, i) == {v \in S : v >= i}

Shift(S) == {v + 1 : v \in S}

RowsBound == Cardinality(ids) <= restarts + (IF prepared THEN 1 ELSE 0)

IssuedBound ==
    \A i \in ID :
        IF i \in ids THEN issued[i] <= N * Cardinality(Gt(ids, i))
        ELSE issued[i] + Cardinality(Pend(i)) <= N * Cardinality(Gt(ids, i))

IInv == TypeOK /\ RowsBound /\ IssuedBound

-----------------------------------------------------------------------------
(* Moving every row up by one keeps the number of rows.                    *)
LEMMA ShiftCardinality ==
    ASSUME NEW S \in SUBSET Nat, IsFiniteSet(S)
    PROVE  IsFiniteSet(Shift(S)) /\ Cardinality(Shift(S)) = Cardinality(S)
<1> DEFINE f == [v \in S |-> v + 1]
<1>1. f \in [S -> Shift(S)]
  BY DEF Shift
<1>2. IsInjective(f)
  BY DEF IsInjective
<1>3. \A t \in Shift(S) : \E v \in S : f[v] = t
  BY DEF Shift
<1>4. f \in Bijection(S, Shift(S))
  BY <1>1, <1>2, <1>3 DEF Bijection, Injection, Surjection
<1>5. ExistsBijection(S, Shift(S))
  BY <1>4 DEF ExistsBijection
<1>6. QED
  BY <1>5, FS_Bijection

(* After the move, the rows above i are those that were at or above i.     *)
LEMMA ShiftAbove ==
    ASSUME NEW S \in SUBSET Nat, IsFiniteSet(S), NEW i \in Nat
    PROVE  /\ IsFiniteSet(Gt(Shift(S), i))
           /\ Cardinality(Gt(Shift(S), i)) =
                Cardinality(Gt(S, i)) + (IF i \in S THEN 1 ELSE 0)
<1>1. Gt(Shift(S), i) = Shift(Ge(S, i))
  BY DEF Gt, Shift, Ge
<1>2. Ge(S, i) \in SUBSET S /\ Gt(S, i) \in SUBSET S
  BY DEF Ge, Gt
<1>3. IsFiniteSet(Ge(S, i)) /\ IsFiniteSet(Gt(S, i))
  BY <1>2, FS_Subset
<1>4. Cardinality(Ge(S, i)) = Cardinality(Gt(S, i)) + (IF i \in S THEN 1 ELSE 0)
  <2>1. CASE i \in S
    <3>1. Ge(S, i) = Gt(S, i) \cup {i}
      <4>1. \A v \in S : v >= i <=> v > i \/ v = i
        OBVIOUS
      <4>2. QED
        BY <2>1, <4>1 DEF Ge, Gt
    <3>2. i \notin Gt(S, i)
      BY DEF Gt
    <3>3. QED
      BY <1>3, <2>1, <3>1, <3>2, FS_AddElement
  <2>2. CASE i \notin S
    <3>1. Ge(S, i) = Gt(S, i)
      <4>1. \A v \in S : v >= i <=> v > i \/ v = i
        OBVIOUS
      <4>2. QED
        BY <2>2, <4>1 DEF Ge, Gt
    <3>2. Cardinality(Gt(S, i)) \in Nat
      BY <1>3, FS_CardinalityType
    <3>3. QED
      BY <2>2, <3>1, <3>2
  <2>3. QED
    BY <2>1, <2>2
<1>5. QED
  BY <1>1, <1>2, <1>3, <1>4, ShiftCardinality

LEMMA IdsFinite ==
    ASSUME NEW S \in SUBSET ID
    PROVE  IsFiniteSet(S) /\ S \in SUBSET Nat
<1>1. IsFiniteSet(ID) /\ ID \subseteq Nat
  BY CounterAssumption, FS_Interval DEF ID
<1>2. QED
  BY <1>1, FS_Subset

LEMMA PendBound ==
    ASSUME NEW i
    PROVE  IsFiniteSet(Pend(i)) /\ Cardinality(Pend(i)) \in 0..N
<1>1. Pend(i) \in SUBSET Workers
  BY DEF Pend
<1>2. QED
  BY <1>1, CounterAssumption, FS_Subset, FS_CardinalityType DEF N

-----------------------------------------------------------------------------
LEMMA InitIInv == Init => IInv
<1> SUFFICES ASSUME Init PROVE IInv
  OBVIOUS
<1>1. TypeOK
  <2>1. 1 \in ID
    BY CounterAssumption DEF ID
  <2>2. ids \subseteq ID /\ pc \in [Workers -> {"idle", "selected"}]
    BY DEF Init
  <2>3. got \in [Workers -> ID] /\ issued \in [ID -> Nat]
    BY <2>1 DEF Init
  <2>4. prepared \in BOOLEAN
    BY DEF Init
  <2>5. restarts \in 0..MaxRestarts
    BY CounterAssumption DEF Init
  <2>6. QED
    BY <2>2, <2>3, <2>4, <2>5 DEF TypeOK
<1>2. RowsBound
  BY FS_EmptySet DEF Init, RowsBound
<1>3. IssuedBound
  <2> SUFFICES ASSUME NEW i \in ID
               PROVE  issued[i] + Cardinality(Pend(i)) <= N * Cardinality(Gt(ids, i))
    BY DEF Init, IssuedBound
  <2>1. Pend(i) = {} /\ Gt(ids, i) = {}
    BY DEF Init, Pend, Gt
  <2>2. N \in Nat
    BY CounterAssumption, FS_CardinalityType DEF N
  <2>3. QED
    BY <2>1, <2>2, FS_EmptySet DEF Init
<1>4. QED
  BY <1>1, <1>2, <1>3 DEF IInv

LEMMA TypeStep == TypeOK /\ [Next]_vars => TypeOK'
<1> SUFFICES ASSUME TypeOK, [Next]_vars PROVE TypeOK'
  OBVIOUS
<1>1. CASE Prepare
  BY <1>1, CounterAssumption DEF Prepare, TypeOK, ID
<1>2. CASE Restart
  <2>1. prepared' \in BOOLEAN /\ UNCHANGED <<ids, got, issued>>
    BY <1>2, Zenon DEF Restart
  <2>2. pc' \in [Workers -> {"idle", "selected"}] /\ restarts' \in 0..MaxRestarts
    BY <1>2, CounterAssumption DEF Restart, TypeOK
  <2>3. QED
    BY <2>1, <2>2 DEF TypeOK
<1>3. ASSUME NEW w \in Workers, SelectStmt(w) PROVE TypeOK'
  BY <1>3 DEF SelectStmt, TypeOK
<1>4. ASSUME NEW w \in Workers, UpdateStmt(w) PROVE TypeOK'
  BY <1>4, CounterAssumption DEF UpdateStmt, TypeOK, ID
<1>5. ASSUME NEW w \in Workers, UpdateStmtFails(w) PROVE TypeOK'
  BY <1>5 DEF UpdateStmtFails, TypeOK
<1>6. CASE UNCHANGED vars
  BY <1>6 DEF vars, TypeOK
<1>7. QED
  BY <1>1, <1>2, <1>3, <1>4, <1>5, <1>6 DEF Next

LEMMA RowsStep == IInv /\ [Next]_vars => RowsBound'
<1> SUFFICES ASSUME IInv, [Next]_vars PROVE RowsBound'
  OBVIOUS
<1>0. IsFiniteSet(ids) /\ ids \in SUBSET Nat /\ Cardinality(ids) \in Nat
  BY IdsFinite, FS_CardinalityType DEF IInv, TypeOK
<1>1. CASE Prepare
  <2>1. Cardinality(ids \cup {1}) <= Cardinality(ids) + 1
        /\ Cardinality(ids \cup {1}) \in Nat
    <3>1. IsFiniteSet(ids \cup {1})
          /\ Cardinality(ids \cup {1}) =
               IF 1 \in ids THEN Cardinality(ids) ELSE Cardinality(ids) + 1
      BY <1>0, FS_AddElement
    <3>2. Cardinality(ids \cup {1}) \in Nat
      BY <3>1, FS_CardinalityType
    <3>3. QED
      BY <1>0, <3>1, <3>2
  <2>2. Cardinality(ids) <= restarts /\ restarts \in Nat
    BY <1>1 DEF Prepare, IInv, RowsBound, TypeOK
  <2>3. ids' = ids \cup {1} /\ restarts' = restarts /\ prepared' = TRUE
    BY <1>1 DEF Prepare
  <2>4. Cardinality(ids') = Cardinality(ids \cup {1})
    BY <2>3, Zenon
  <2>5. Cardinality(ids') <= restarts' + 1
    BY <1>0, <2>1, <2>2, <2>3, <2>4
  <2>6. QED
    BY <2>3, <2>5 DEF RowsBound
<1>2. CASE Restart
  BY <1>0, <1>2 DEF Restart, IInv, RowsBound, TypeOK
<1>3. ASSUME NEW w \in Workers, SelectStmt(w) PROVE RowsBound'
  BY <1>3 DEF SelectStmt, IInv, RowsBound
<1>4. ASSUME NEW w \in Workers, UpdateStmt(w) PROVE RowsBound'
  BY <1>0, <1>4, ShiftCardinality DEF UpdateStmt, IInv, RowsBound, Shift
<1>5. ASSUME NEW w \in Workers, UpdateStmtFails(w) PROVE RowsBound'
  BY <1>5 DEF UpdateStmtFails, IInv, RowsBound
<1>6. CASE UNCHANGED vars
  BY <1>6 DEF vars, IInv, RowsBound
<1>7. QED
  BY <1>1, <1>2, <1>3, <1>4, <1>5, <1>6 DEF Next

(* The quantities IssuedBound relates, at one ID, are natural numbers.    *)
LEMMA LocalFacts ==
    ASSUME IInv, NEW i \in ID
    PROVE  /\ ids \in SUBSET Nat /\ IsFiniteSet(ids)
           /\ IsFiniteSet(Gt(ids, i)) /\ Cardinality(Gt(ids, i)) \in Nat
           /\ issued[i] \in Nat
           /\ N \in Nat
           /\ IsFiniteSet(Pend(i)) /\ Cardinality(Pend(i)) \in 0..N
           /\ i \in Nat
<1>1. ids \in SUBSET Nat /\ IsFiniteSet(ids)
  BY IdsFinite DEF IInv, TypeOK
<1>2. IsFiniteSet(Gt(ids, i)) /\ Cardinality(Gt(ids, i)) \in Nat
  <2>1. Gt(ids, i) \in SUBSET ids
    BY DEF Gt
  <2>2. QED
    BY <1>1, <2>1, FS_Subset, FS_CardinalityType
<1>3. N \in Nat
  BY CounterAssumption, FS_CardinalityType DEF N
<1>4. QED
  BY <1>1, <1>2, <1>3, PendBound DEF IInv, TypeOK, ID

(* A step that leaves the rows and the counts alone, and adds no waiting   *)
(* scan of an ID no row holds, keeps the bound at every ID.               *)
LEMMA FrameStep ==
    ASSUME IInv, NEW i \in ID,
           ids' = ids, issued' = issued,
           i \notin ids => Pend(i)' \subseteq Pend(i)
    PROVE  IF i \in ids' THEN issued'[i] <= N * Cardinality(Gt(ids', i))
           ELSE issued'[i] + Cardinality(Pend(i)') <= N * Cardinality(Gt(ids', i))
<1>1. CASE i \in ids
  BY <1>1 DEF IInv, IssuedBound
<1>2. CASE i \notin ids
  <2>1. IsFiniteSet(Pend(i)') /\ Cardinality(Pend(i)') <= Cardinality(Pend(i))
    BY <1>2, LocalFacts, FS_Subset
  <2>2. Cardinality(Pend(i)') \in Nat
    BY <2>1, FS_CardinalityType
  <2>3. issued[i] + Cardinality(Pend(i)) <= N * Cardinality(Gt(ids, i))
    BY <1>2 DEF IInv, IssuedBound
  <2>4. QED
    BY <1>2, <2>1, <2>2, <2>3, LocalFacts
<1>3. QED
  BY <1>1, <1>2

(* The bound at one ID after a step, as IssuedBound' states it.           *)
BoundAt(i) ==
    IF i \in ids' THEN issued'[i] <= N * Cardinality(Gt(ids', i))
    ELSE issued'[i] + Cardinality(Pend(i)') <= N * Cardinality(Gt(ids', i))

LEMMA IssuedStep == IInv /\ [Next]_vars => IssuedBound'
<1> SUFFICES ASSUME IInv, [Next]_vars, NEW i \in ID PROVE BoundAt(i)
  BY DEF IssuedBound, BoundAt
<1>1. CASE Prepare
  <2>1. ids' = ids \cup {1} /\ issued' = issued /\ Pend(i)' = Pend(i)
    BY <1>1 DEF Prepare, Pend
  <2>2. Gt(ids', i) = Gt(ids, i)
    BY <2>1 DEF Gt, ID
  <2>3. issued[i] <= N * Cardinality(Gt(ids, i))
    BY LocalFacts DEF IInv, IssuedBound
  <2>4. i \notin ids => issued[i] + Cardinality(Pend(i)) <= N * Cardinality(Gt(ids, i))
    BY DEF IInv, IssuedBound
  <2>5. QED
    BY <2>1, <2>2, <2>3, <2>4 DEF BoundAt
<1>2. CASE Restart
  <2>1. Pend(i)' = {}
    BY <1>2 DEF Restart, Pend
  <2>2. QED
    BY <1>2, <2>1, FrameStep DEF Restart, BoundAt
<1>3. ASSUME NEW w \in Workers, SelectStmt(w) PROVE BoundAt(i)
  <2>1. PICK k \in ids : got' = [got EXCEPT ![w] = k]
    BY <1>3 DEF SelectStmt
  <2>2. i \notin ids => Pend(i)' \subseteq Pend(i)
    BY <1>3, <2>1 DEF SelectStmt, Pend, IInv, TypeOK
  <2>3. QED
    BY <1>3, <2>2, FrameStep DEF SelectStmt, BoundAt
<1>4. ASSUME NEW w \in Workers, UpdateStmt(w) PROVE BoundAt(i)
  <2> DEFINE j == got[w]
             g == Cardinality(Gt(ids, i))
             p == Cardinality(Pend(i))
  <2>1. ids' = Shift(ids)
    BY <1>4 DEF UpdateStmt, Shift
  <2>2. issued'[i] = IF i = j THEN issued[i] + 1 ELSE issued[i]
    BY <1>4 DEF UpdateStmt, IInv, TypeOK
  <2>3. Pend(i)' = Pend(i) \ {w} /\ (w \in Pend(i) <=> i = j)
    BY <1>4 DEF UpdateStmt, Pend, IInv, TypeOK
  <2>4. IsFiniteSet(Pend(i)')
        /\ Cardinality(Pend(i)') = IF i = j THEN p - 1 ELSE p
    BY <2>3, LocalFacts, FS_RemoveElement
  <2>5. Cardinality(Gt(ids', i)) = g + (IF i \in ids THEN 1 ELSE 0)
    BY <2>1, LocalFacts, ShiftAbove
  <2>6. N >= 1
    <3>1. Workers # {}
      OBVIOUS
    <3>2. QED
      BY <3>1, CounterAssumption, FS_EmptySet, FS_CardinalityType DEF N
  <2>7. issued[i] <= N * g
    BY LocalFacts DEF IInv, IssuedBound
  <2>8. i \notin ids => issued[i] + p <= N * g
    BY DEF IInv, IssuedBound
  <2>9. N * (g + 1) = N * g + N
    BY LocalFacts
  <2>10. /\ g \in Nat /\ issued[i] \in Nat /\ N \in Nat /\ p \in 0..N
         /\ (i = j => p >= 1)
    <3>1. IsFiniteSet(Pend(i))
      BY LocalFacts
    <3>2. i = j => Pend(i) # {}
      BY <2>3
    <3>3. QED
      BY <3>1, <3>2, LocalFacts, FS_EmptySet, FS_CardinalityType
  <2>11. Cardinality(Pend(i)') \in Nat
    BY <2>4, FS_CardinalityType
  <2>12. CASE i \in ids
    <3>1. issued'[i] + Cardinality(Pend(i)') <= N * Cardinality(Gt(ids', i))
      BY <2>12, <2>2, <2>4, <2>5, <2>7, <2>9, <2>10
    <3>2. issued'[i] <= N * Cardinality(Gt(ids', i))
      BY <3>1, <2>11, <2>2, <2>5, <2>10
    <3>3. QED
      BY <3>1, <3>2 DEF BoundAt
  <2>13. CASE i \notin ids
    <3>1. issued'[i] + Cardinality(Pend(i)') <= N * Cardinality(Gt(ids', i))
      BY <2>13, <2>2, <2>4, <2>5, <2>8, <2>10
    <3>2. issued'[i] <= N * Cardinality(Gt(ids', i))
      BY <2>13, <2>2, <2>4, <2>5, <2>8, <2>10
    <3>3. QED
      BY <3>1, <3>2 DEF BoundAt
  <2>14. QED
    BY <2>12, <2>13
<1>5. ASSUME NEW w \in Workers, UpdateStmtFails(w) PROVE BoundAt(i)
  <2>1. Pend(i)' \subseteq Pend(i)
    BY <1>5 DEF UpdateStmtFails, Pend, IInv, TypeOK
  <2>2. QED
    BY <1>5, <2>1, FrameStep DEF UpdateStmtFails, BoundAt
<1>6. CASE UNCHANGED vars
  <2>1. Pend(i)' = Pend(i)
    BY <1>6 DEF vars, Pend
  <2>2. QED
    BY <1>6, <2>1, FrameStep DEF vars, BoundAt
<1>7. QED
  BY <1>1, <1>2, <1>3, <1>4, <1>5, <1>6 DEF Next

LEMMA NextIInv == IInv /\ [Next]_vars => IInv'
BY TypeStep, RowsStep, IssuedStep DEF IInv

LEMMA IInvBounded == IInv => DuplicatesBounded
<1> SUFFICES ASSUME IInv, NEW i \in ID
             PROVE  issued[i] <= (restarts + 1) * Cardinality(Workers)
  BY DEF DuplicatesBounded
<1> DEFINE g == Cardinality(Gt(ids, i))
<1>1. issued[i] <= N * g
  BY LocalFacts DEF IInv, IssuedBound
<1>2. g <= Cardinality(ids)
  <2>1. Gt(ids, i) \in SUBSET ids
    BY DEF Gt
  <2>2. QED
    BY <2>1, LocalFacts, FS_Subset
<1>0. g \in Nat /\ N \in Nat /\ IsFiniteSet(ids)
  BY LocalFacts
<1>3. Cardinality(ids) <= restarts + 1 /\ restarts \in Nat /\ Cardinality(ids) \in Nat
  <2>1. restarts \in Nat /\ Cardinality(ids) \in Nat
    BY <1>0, FS_CardinalityType DEF IInv, TypeOK
  <2>2. CASE prepared
    BY <2>1, <2>2 DEF IInv, RowsBound
  <2>3. CASE ~prepared
    BY <2>1, <2>3 DEF IInv, RowsBound
  <2>4. QED
    BY <2>2, <2>3
<1>4. N * g <= N * (restarts + 1)
  <2> DEFINE k == restarts + 1 - g
  <2>1. k \in Nat /\ restarts + 1 = g + k
    BY <1>0, <1>2, <1>3
  <2>2. N * (restarts + 1) = N * g + N * k /\ N * k \in Nat
    BY <2>1, <1>0
  <2>3. QED
    BY <2>2, <1>0
<1>5. QED
  BY <1>1, <1>3, <1>4, LocalFacts DEF N

(* Every state of the counter has TypeOK.                                  *)
THEOREM TxnTypeCorrect == Spec => []TypeOK
<1>1. Init => TypeOK
  BY InitIInv DEF IInv
<1>2. QED
  BY <1>1, TypeStep, PTL DEF Spec

(* selectTxnID hands each transaction ID out at most once per worker and   *)
(* per start of the process (DuplicatesBounded), for any number of        *)
(* workers, bound on last_id and number of restarts.                      *)
THEOREM TxnDuplicatesBounded == Spec => []DuplicatesBounded
<1>1. Spec => []IInv
  BY InitIInv, NextIInv, PTL DEF Spec
<1>2. QED
  BY <1>1, IInvBounded, PTL

=============================================================================
