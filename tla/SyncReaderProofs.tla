-------------------------- MODULE SyncReaderProofs --------------------------
(***************************************************************************)
(* Proofs about the incremental /sync readers of OutputRoomEvents, for    *)
(* every value of the constants.                                          *)
(*                                                                         *)
(* A reader's since is always 0 or the position of a committed row, and   *)
(* every event it returned lies at or below since.  Rows never move once  *)
(* committed, and a new row appears above the counter that bounds every   *)
(* SelectMaxEventID a reader has read; so the range (since, max] a fetch  *)
(* reads lies above everything returned before.                           *)
(*                                                                         *)
(* Committed rows also have distinct positions, so a fetch's batch is the *)
(* newest Limit rows of the range: a row of the range left out lies below *)
(* every row of the batch, and the batch then holds Limit rows, which      *)
(* records the gap that covers the row.  With no excluded row, that makes *)
(* every sync-visible row at or below since returned or skipped.          *)
(***************************************************************************)
EXTENDS OutputRoomEventsProofs, FiniteSetTheorems

(* p is 0 or the position of a row of rs.                                  *)
IsRowPos(rs, p) == p = 0 \/ \E e \in Events : rs[e].pos # 0 /\ rs[e].pos = p

ReaderInv ==
    /\ \A r \in Rooms : since[r] <= counter /\ IsRowPos(rows, since[r])
    /\ \A r \in Rooms :
          rpc[r] = "maxread" =>
             since[r] <= rmax[r] /\ rmax[r] <= counter /\ IsRowPos(rows, rmax[r])
    /\ \A r \in Rooms, e \in Events :
          delivered[r][e] > 0 =>
             InLog(e) /\ rows[e].pos <= since[r] /\ delivered[r][e] = 1

RInv == IInv /\ ReaderInv

-----------------------------------------------------------------------------
(* SelectMaxEventID is 0 or a committed row's position, at or above every *)
(* committed row and at or below the counter.                              *)
LEMMA SelectMaxFacts ==
    ASSUME IInv
    PROVE  /\ SelectMaxEventID \in Pos
           /\ SelectMaxEventID <= counter
           /\ IsRowPos(rows, SelectMaxEventID)
           /\ \A e \in Events : InLog(e) => rows[e].pos <= SelectMaxEventID
<1> USE ConstantsAssumption
<1> DEFINE ps == {rows[e].pos : e \in {f \in Events : InLog(f)}}
<1>0. rows \in [Events -> Row] /\ counter \in Pos
  BY DEF IInv, TypeOK
<1>1. ps \subseteq Nat /\ \A p \in ps : p <= counter
  BY <1>0 DEF IInv, RowsBelowCounter, Row, Pos
<1>2. CASE ps = {}
  <2>1. SelectMaxEventID = 0
    BY <1>2 DEF SelectMaxEventID
  <2>2. ASSUME NEW e \in Events PROVE ~InLog(e)
    <3>1. InLog(e) => rows[e].pos \in ps
      OBVIOUS
    <3>2. QED
      BY <1>2, <3>1
  <2>3. QED
    BY <1>0, <2>1, <2>2 DEF IsRowPos, Pos, InLog
<1>3. CASE ps # {}
  <2>0. counter \in Nat /\ ps \in SUBSET Nat
    BY <1>0, <1>1 DEF Pos
  <2>1. \E m \in ps : \A p \in ps : p <= m
    BY <1>1, <1>3, <2>0, MaxExists
  <2>2. SelectMaxEventID \in ps /\ \A p \in ps : p <= SelectMaxEventID
    BY <1>3, <2>1 DEF SelectMaxEventID
  <2>3. PICK e0 \in Events : InLog(e0) /\ rows[e0].pos = SelectMaxEventID
    BY <2>2
  <2>4. IsRowPos(rows, SelectMaxEventID)
    BY <2>3 DEF IsRowPos, InLog
  <2>5. SelectMaxEventID <= counter /\ SelectMaxEventID \in Pos
    BY <1>0, <1>1, <2>0, <2>2 DEF Pos
  <2>6. \A e \in Events : InLog(e) => rows[e].pos <= SelectMaxEventID
    BY <2>2
  <2>7. QED
    BY <2>4, <2>5, <2>6
<1>4. QED
  BY <1>2, <1>3

(* A committed row keeps its position, and a row that appears has the     *)
(* position counter + 1.                                                   *)
LEMMA RowsStable ==
    ASSUME IInv, [Next]_vars
    PROVE  /\ counter' \in {counter, counter + 1}
           /\ \A e \in Events : InLog(e) => InLog(e)' /\ rows'[e].pos = rows[e].pos
           /\ \A e \in Events : ~InLog(e) /\ InLog(e)' => rows'[e].pos = counter + 1
<1> USE ConstantsAssumption
<1>1. ASSUME NEW w \in Writers, Commit(w) PROVE
           /\ counter' \in {counter, counter + 1}
           /\ \A e \in Events : InLog(e) => InLog(e)' /\ rows'[e].pos = rows[e].pos
           /\ \A e \in Events : ~InLog(e) /\ InLog(e)' => rows'[e].pos = counter + 1
  <2> DEFINE ev == wst[w].ev
  <2>1. wst[w] \in WriterState /\ rows \in [Events -> Row]
    BY DEF IInv, TypeOK
  <2>2. wst[w].pos = counter + 1 /\ wst[w].pend = UpsertRow(ev, wst[w].pos, wst[w].excl)
    BY <1>1 DEF Commit, IInv, LockInv
  <2>3. rows' = [rows EXCEPT ![ev] = wst[w].pend] /\ counter' = counter + 1
    BY <1>1 DEF Commit
  <2>4. InLog(ev) => wst[w].pend.pos = rows[ev].pos
    BY <2>2 DEF UpsertRow, InLog
  <2>5. ~InLog(ev) => wst[w].pend.pos = counter + 1
    BY <2>2 DEF UpsertRow, InLog
  <2>6. QED
    BY <2>1, <2>3, <2>4, <2>5 DEF InLog, WriterState
<1>2. CASE rows' = rows /\ counter' = counter
  BY <1>2 DEF InLog
<1>3. QED
  BY <1>1, <1>2 DEF Next, NextStreamID, Insert, Rollback, SyncReadMax,
                    SyncFetch, vars

(* A row position stays a row position.                                    *)
LEMMA IsRowPosStable ==
    ASSUME IInv, [Next]_vars, NEW p, IsRowPos(rows, p)
    PROVE  IsRowPos(rows', p)
BY RowsStable DEF IsRowPos, InLog

LEMMA InitRInv == Init => RInv
<1> SUFFICES ASSUME Init PROVE RInv
  OBVIOUS
<1>1. IInv
  BY InitIInv
<1>2. ReaderInv
  BY DEF Init, ReaderInv, IsRowPos
<1>3. QED
  BY <1>1, <1>2 DEF RInv

LEMMA ReaderStep == IInv /\ ReaderInv /\ [Next]_vars => ReaderInv'
<1> USE ConstantsAssumption
<1> SUFFICES ASSUME IInv, ReaderInv, [Next]_vars PROVE ReaderInv'
  OBVIOUS
<1>0. /\ counter \in Nat /\ since \in [Rooms -> Pos] /\ rmax \in [Rooms -> Pos]
      /\ delivered \in [Rooms -> [Events -> Nat]] /\ rows \in [Events -> Row]
      /\ rpc \in [Rooms -> {"idle", "maxread"}]
  BY DEF IInv, TypeOK, Pos
<1>1. CASE UNCHANGED ReaderVars
  <2>1. counter' \in {counter, counter + 1}
        /\ \A e \in Events : InLog(e) => InLog(e)' /\ rows'[e].pos = rows[e].pos
    BY RowsStable
  <2>2. since' = since /\ rpc' = rpc /\ rmax' = rmax /\ delivered' = delivered
    BY <1>1 DEF ReaderVars
  <2>3. ASSUME NEW r \in Rooms
        PROVE  /\ since'[r] <= counter' /\ IsRowPos(rows', since'[r])
               /\ rpc'[r] = "maxread" =>
                    since'[r] <= rmax'[r] /\ rmax'[r] <= counter'
                    /\ IsRowPos(rows', rmax'[r])
    <3>1. IsRowPos(rows, since[r]) /\ (rpc[r] = "maxread" => IsRowPos(rows, rmax[r]))
      BY DEF ReaderInv
    <3>2. IsRowPos(rows', since[r]) /\ (rpc[r] = "maxread" => IsRowPos(rows', rmax[r]))
      BY <3>1, IsRowPosStable
    <3>3. since[r] \in Nat /\ rmax[r] \in Nat
      BY <1>0 DEF Pos
    <3>4. IsRowPos(rows', since'[r]) /\ (rpc'[r] = "maxread" => IsRowPos(rows', rmax'[r]))
      BY <2>2, <3>2, Zenon
    <3>5. QED
      BY <1>0, <2>1, <2>2, <3>3, <3>4 DEF ReaderInv
  <2>4. ASSUME NEW r \in Rooms, NEW e \in Events, delivered'[r][e] > 0
        PROVE  InLog(e)' /\ rows'[e].pos <= since'[r] /\ delivered'[r][e] = 1
    BY <2>1, <2>2, <2>4 DEF ReaderInv
  <2>5. QED
    BY <2>3, <2>4 DEF ReaderInv
<1>2. ASSUME NEW r \in Rooms, SyncReadMax(r) PROVE ReaderInv'
  <2>1. /\ SelectMaxEventID \in Pos /\ SelectMaxEventID <= counter
        /\ IsRowPos(rows, SelectMaxEventID)
        /\ \A e \in Events : InLog(e) => rows[e].pos <= SelectMaxEventID
    BY SelectMaxFacts
  <2>2. since[r] <= SelectMaxEventID
    <3>1. IsRowPos(rows, since[r]) /\ since[r] \in Nat
      BY <1>0 DEF ReaderInv, Pos
    <3>2. QED
      BY <3>1, <2>1 DEF IsRowPos, InLog, Pos
  <2>3. /\ UNCHANGED <<rows, counter, since, delivered>>
        /\ rmax' = [rmax EXCEPT ![r] = SelectMaxEventID]
        /\ rpc' = [rpc EXCEPT ![r] = "maxread"]
    BY <1>2 DEF SyncReadMax
  <2>4. QED
    BY <1>0, <2>1, <2>2, <2>3 DEF ReaderInv, InLog
<1>3. ASSUME NEW r \in Rooms, SyncFetch(r) PROVE ReaderInv'
  <2> DEFINE rg == [from |-> since[r], to |-> rmax[r], backwards |-> FALSE]
             batch == SelectRecentEvents(r, rg, Limit, TRUE)
             cnt == [e \in Events |-> IF e \in batch THEN delivered[r][e] + 1
                                                    ELSE delivered[r][e]]
  <2>1. /\ UNCHANGED <<rows, counter, rmax>>
        /\ since' = [since EXCEPT ![r] = rmax[r]]
        /\ rpc' = [rpc EXCEPT ![r] = "idle"]
        /\ delivered' = [delivered EXCEPT ![r] = cnt]
    BY <1>3 DEF SyncFetch
  <2>3. rpc[r] = "maxread"
    BY <1>3 DEF SyncFetch
  <2>4. since[r] <= rmax[r] /\ rmax[r] <= counter /\ IsRowPos(rows, rmax[r])
    BY <2>3 DEF ReaderInv
  <2>5. \A e \in batch : InLog(e) /\ since[r] < rows[e].pos /\ rows[e].pos <= rmax[r]
    <3>1. Low(rg) = since[r] /\ High(rg) = rmax[r]
      BY DEF Low, High
    <3>2. batch \subseteq {e \in Events : /\ InLog(e) /\ RoomOf[e] = r
                                        /\ Low(rg) < rows[e].pos
                                        /\ rows[e].pos <= High(rg)}
      BY DEF SelectRecentEvents
    <3>3. QED
      BY <3>1, <3>2, Zenon
  <2> HIDE DEF batch
  <2>6. ASSUME NEW e \in Events, delivered'[r][e] > 0
        PROVE  InLog(e)' /\ rows'[e].pos <= since'[r] /\ delivered'[r][e] = 1
    <3>0. delivered'[r][e] = cnt[e] /\ since'[r] = rmax[r] /\ rows' = rows
      BY <1>0, <2>1
    <3>1. CASE e \in batch
      <4>1. ~(delivered[r][e] > 0)
        <5>1. delivered[r][e] > 0 => rows[e].pos <= since[r]
          BY DEF ReaderInv
        <5>2. since[r] < rows[e].pos
          BY <2>5, <3>1, Zenon
        <5>3. rows[e].pos \in Nat /\ since[r] \in Nat
          BY <1>0 DEF Row, Pos
        <5>4. QED
          BY <5>1, <5>2, <5>3
      <4>2. cnt[e] = delivered[r][e] + 1 /\ delivered[r][e] \in Nat
        BY <1>0, <3>1
      <4>3. QED
        BY <2>5, <3>0, <3>1, <4>1, <4>2 DEF InLog
    <3>2. CASE e \notin batch
      <4>1. cnt[e] = delivered[r][e]
        BY <3>2
      <4>2. InLog(e) /\ rows[e].pos <= since[r] /\ delivered[r][e] = 1
        BY <2>6, <3>0, <4>1 DEF ReaderInv
      <4>3. rows[e].pos \in Nat /\ since[r] \in Nat /\ rmax[r] \in Nat
        BY <1>0 DEF Row, Pos
      <4>4. QED
        BY <2>4, <3>0, <4>1, <4>2, <4>3 DEF InLog
    <3>3. QED
      BY <3>1, <3>2
  <2>7. ASSUME NEW q \in Rooms, q # r
        PROVE  since'[q] = since[q] /\ rpc'[q] = rpc[q] /\ delivered'[q] = delivered[q]
    BY <1>0, <2>1, <2>7
  <2>8. ASSUME NEW q \in Rooms
        PROVE  /\ since'[q] <= counter' /\ IsRowPos(rows', since'[q])
               /\ rpc'[q] = "maxread" =>
                    since'[q] <= rmax'[q] /\ rmax'[q] <= counter'
                    /\ IsRowPos(rows', rmax'[q])
    <3>1. CASE q = r
      <4>1. since'[q] = rmax[r] /\ rpc'[q] = "idle" /\ rows' = rows /\ counter' = counter
        BY <1>0, <2>1, <3>1
      <4>2. IsRowPos(rows', since'[q])
        BY <4>1, <2>4, Zenon
      <4>3. QED
        BY <4>1, <4>2, <2>4
    <3>2. CASE q # r
      BY <1>0, <2>1, <2>7, <3>2 DEF ReaderInv
    <3>3. QED
      BY <3>1, <3>2
  <2>9. ASSUME NEW q \in Rooms, NEW e \in Events, delivered'[q][e] > 0
        PROVE  InLog(e)' /\ rows'[e].pos <= since'[q] /\ delivered'[q][e] = 1
    <3>1. CASE q = r
      BY <2>6, <2>9, <3>1, Zenon
    <3>2. CASE q # r
      BY <1>0, <2>1, <2>7, <2>9, <3>2 DEF ReaderInv, InLog
    <3>3. QED
      BY <3>1, <3>2
  <2>10. QED
    BY <2>8, <2>9 DEF ReaderInv
<1>4. CASE UNCHANGED vars
  BY <1>1, <1>4 DEF vars, ReaderVars
<1>5. QED
  BY <1>1, <1>2, <1>3, <1>4 DEF Next, NextStreamID, Insert, Commit, Rollback,
                               ReaderVars

LEMMA NextRInv == RInv /\ [Next]_vars => RInv'
BY NextIInv, ReaderStep DEF RInv

THEOREM ReaderInvariant == Spec => []RInv
BY InitRInv, NextRInv, PTL DEF Spec

(* An event stored twice (the roomserver's output is consumed at least     *)
(* once) is returned to a room's incremental sync at most once, for any   *)
(* number of writers and rooms, any limit, and with or without events     *)
(* excluded from sync: the upsert keeps one row at one position, and each *)
(* fetch reads a range above every position returned before.              *)
THEOREM ExactlyOnce == Spec => []ExactlyOnceDelivery
<1>1. RInv => ExactlyOnceDelivery
  <2> SUFFICES ASSUME RInv, NEW r \in Rooms, NEW e \in Events
               PROVE  delivered[r][e] <= 1
    BY DEF ExactlyOnceDelivery
  <2>1. delivered[r][e] \in Nat
    BY DEF RInv, IInv, TypeOK
  <2>2. delivered[r][e] > 0 => delivered[r][e] = 1
    BY DEF RInv, ReaderInv
  <2>3. QED
    BY <2>1, <2>2
<1>2. QED
  BY <1>1, ReaderInvariant, PTL


-----------------------------------------------------------------------------
(* The limited batch.  SelectRecentEvents keeps the rows of match that    *)
(* have fewer than Limit rows of match above them: the newest Limit rows. *)
(* Its facts are stated for any finite set M of rows with distinct        *)
(* positions.                                                              *)
Above(M, rs, x) == {f \in M : rs[f].pos > rs[x].pos}

Top(M, rs, l) == {x \in M : Cardinality(Above(M, rs, x)) < l}

(* Every finite nonempty set of naturals has a least element.              *)
LEMMA MinExists ==
    ASSUME NEW S \in SUBSET Nat, S # {}
    PROVE  \E m \in S : \A p \in S : m <= p
<1>1. PICK x \in S : \A y \in S : ~(<<y, x>> \in OpToRel(<, Nat))
  BY NatLessThanWellFounded, WFMin
<1>2. \A y \in S : ~(y < x)
  BY <1>1 DEF OpToRel
<1>3. QED
  BY <1>2

(* A row left out of the batch lies below every row of the batch.          *)
LEMMA TopOrder ==
    ASSUME NEW M \in SUBSET Events, IsFiniteSet(M), NEW rs \in [Events -> Row],
           NEW l \in Nat, NEW e \in M \ Top(M, rs, l), NEW f \in Top(M, rs, l)
    PROVE  rs[e].pos < rs[f].pos
<1>0. rs[e].pos \in Nat /\ rs[f].pos \in Nat
  <2>1. e \in Events /\ f \in Events
    BY DEF Top
  <2>2. QED
    BY <2>1 DEF Row, Pos
<1>1. SUFFICES ASSUME rs[f].pos <= rs[e].pos PROVE FALSE
  BY <1>0
<1>2. Above(M, rs, e) \subseteq Above(M, rs, f)
  <2>1. \A g \in M : rs[g].pos \in Nat
    BY DEF Row, Pos
  <2>2. QED
    BY <1>0, <1>1, <2>1 DEF Above
<1>3. IsFiniteSet(Above(M, rs, f))
  BY FS_Subset DEF Above
<1>4. Cardinality(Above(M, rs, e)) <= Cardinality(Above(M, rs, f))
  BY <1>2, <1>3, FS_Subset
<1>5. Cardinality(Above(M, rs, e)) \in Nat /\ Cardinality(Above(M, rs, f)) \in Nat
  BY <1>3, <1>2, FS_Subset, FS_CardinalityType
<1>6. Cardinality(Above(M, rs, f)) < l /\ ~(Cardinality(Above(M, rs, e)) < l)
  BY DEF Top
<1>7. QED
  BY <1>4, <1>5, <1>6

(* A batch that leaves a row out holds exactly l rows.                     *)
LEMMA TopFull ==
    ASSUME NEW M \in SUBSET Events, IsFiniteSet(M), NEW rs \in [Events -> Row],
           NEW l \in Nat \ {0}, NEW e \in M \ Top(M, rs, l),
           \A x, y \in M : x # y => rs[x].pos # rs[y].pos
    PROVE  Cardinality(Top(M, rs, l)) = l
<1> DEFINE T == Top(M, rs, l)
<1>0. \A x \in M : rs[x].pos \in 0..MaxStreamID
  BY DEF Row, Pos
<1>1. IsFiniteSet(T) /\ Cardinality(T) \in Nat
  BY FS_Subset, FS_CardinalityType DEF Top
<1>2. l <= Cardinality(T)
  <2> DEFINE N == M \ T
  <2>1. \E p \in {rs[x].pos : x \in N} : \A q \in {rs[x].pos : x \in N} : q <= p
    <3>1. {rs[x].pos : x \in N} \subseteq Nat /\ {rs[x].pos : x \in N} # {}
      BY <1>0
    <3>2. \A q \in {rs[x].pos : x \in N} : q <= MaxStreamID
      BY <1>0
    <3>3. QED
      BY <3>1, <3>2, ConstantsAssumption, MaxExists
  <2>2. PICK m \in N : \A x \in N : rs[x].pos <= rs[m].pos
    BY <2>1
  <2>3. Above(M, rs, m) \subseteq T
    BY <1>0, <2>2 DEF Above
  <2>4. ~(Cardinality(Above(M, rs, m)) < l)
    BY <2>2 DEF Top
  <2>5. Cardinality(Above(M, rs, m)) <= Cardinality(T)
       /\ Cardinality(Above(M, rs, m)) \in Nat
    BY <1>1, <2>3, FS_Subset, FS_CardinalityType
  <2>6. QED
    BY <1>1, <2>4, <2>5
<1>3. Cardinality(T) <= l
  <2>1. T # {}
    BY <1>1, <1>2, FS_EmptySet
  <2>2. \E p \in {rs[x].pos : x \in T} : \A q \in {rs[x].pos : x \in T} : p <= q
    <3>1. {rs[x].pos : x \in T} \subseteq Nat /\ {rs[x].pos : x \in T} # {}
      BY <1>0, <2>1 DEF Top
    <3>2. QED
      BY <3>1, MinExists
  <2>3. PICK f0 \in T : \A x \in T : rs[f0].pos <= rs[x].pos
    BY <2>2
  <2>4. T \ {f0} \subseteq Above(M, rs, f0)
    BY <1>0, <2>3 DEF Above, Top
  <2>5. Cardinality(Above(M, rs, f0)) < l
    BY <2>3 DEF Top
  <2>6. IsFiniteSet(T \ {f0}) /\ Cardinality(T \ {f0}) = Cardinality(T) - 1
    BY <1>1, FS_RemoveElement
  <2>7. IsFiniteSet(Above(M, rs, f0))
       /\ Cardinality(T \ {f0}) <= Cardinality(Above(M, rs, f0))
       /\ Cardinality(Above(M, rs, f0)) \in Nat
    BY <2>4, FS_Subset, FS_CardinalityType DEF Above
  <2>8. QED
    BY <1>1, <2>5, <2>6, <2>7
<1>4. QED
  BY <1>1, <1>2, <1>3


-----------------------------------------------------------------------------
(* Without exclusions no sync-visible row is missed.  LiveOnly: every    *)
(* InsertEvent passes excludeFromSync = false.  With exclusions the claim *)
(* fails: a row first stored excluded and then stored again visible keeps *)
(* its old position (the upsert at output_room_events_table.go:73), which *)
(* can lie below a reader's since.                                        *)
LiveOnly == ExcludeChoices = {FALSE}

NoExcluded ==
    /\ \A e \in Events : ~rows[e].exclude
    /\ \A w \in Writers : ~wst[w].excl /\ ~wst[w].pend.exclude

DistinctPos ==
    \A e, f \in Events : InLog(e) /\ InLog(f) /\ e # f => rows[e].pos # rows[f].pos

NInv == RInv /\ NoExcluded /\ DistinctPos /\ NoMissedSyncEvent

LEMMA InitNInv == Init => NInv
<1> SUFFICES ASSUME Init PROVE NInv
  OBVIOUS
<1>1. RInv
  BY InitRInv
<1>2. NoExcluded /\ DistinctPos /\ NoMissedSyncEvent
  BY DEF Init, NoExcluded, DistinctPos, NoMissedSyncEvent, NoRow, IdleWriter, InLog
<1>3. QED
  BY <1>1, <1>2 DEF NInv

(* With live events only, no row, allocation or pending row is excluded.   *)
LEMMA NoExclStep ==
    ASSUME LiveOnly, IInv, NoExcluded, [Next]_vars
    PROVE  NoExcluded'
<1> USE ConstantsAssumption
<1>0. rows \in [Events -> Row] /\ wst \in [Writers -> WriterState]
  BY DEF IInv, TypeOK
<1>1. ASSUME NEW w \in Writers, NextStreamID(w) PROVE NoExcluded'
  <2>1. PICK e \in Events, x \in ExcludeChoices :
          wst' = [wst EXCEPT ![w] = [pc |-> "allocated", ev |-> e, excl |-> x,
                                     pos |-> counter + 1, pend |-> NoRow]]
    BY <1>1 DEF NextStreamID
  <2>2. x = FALSE
    BY DEF LiveOnly
  <2>3. QED
    BY <1>0, <1>1, <2>1, <2>2 DEF NextStreamID, NoExcluded, NoRow
<1>2. ASSUME NEW w \in Writers, Insert(w) PROVE NoExcluded'
  <2>1. UpsertRow(wst[w].ev, wst[w].pos, wst[w].excl).exclude = wst[w].excl
    BY <1>0 DEF UpsertRow, WriterState, Row
  <2>2. QED
    BY <1>0, <1>2, <2>1 DEF Insert, NoExcluded
<1>3. ASSUME NEW w \in Writers, Commit(w) PROVE NoExcluded'
  BY <1>0, <1>3 DEF Commit, NoExcluded, IdleWriter, NoRow, WriterState
<1>4. ASSUME NEW w \in Writers, Rollback(w) PROVE NoExcluded'
  BY <1>0, <1>4 DEF Rollback, NoExcluded, IdleWriter, NoRow
<1>5. CASE rows' = rows /\ wst' = wst
  BY <1>5 DEF NoExcluded
<1>6. QED
  BY <1>1, <1>2, <1>3, <1>4, <1>5 DEF Next, SyncReadMax, SyncFetch, vars

(* Committed rows have distinct positions: each commit takes a new one.   *)
LEMMA DistinctStep ==
    ASSUME IInv, DistinctPos, [Next]_vars
    PROVE  DistinctPos'
<1> USE ConstantsAssumption
<1>0. rows \in [Events -> Row] /\ wst \in [Writers -> WriterState]
  BY DEF IInv, TypeOK
<1>1. ASSUME NEW w \in Writers, Commit(w) PROVE DistinctPos'
  <2> DEFINE ev == wst[w].ev
  <2>1. rows' = [rows EXCEPT ![ev] = wst[w].pend] /\ ev \in Events
    BY <1>0, <1>1 DEF Commit, WriterState
  <2>2. SUFFICES ASSUME NEW e \in Events, NEW f \in Events, InLog(e)', InLog(f)',
                        e # f
                 PROVE  rows'[e].pos # rows'[f].pos
    BY DEF DistinctPos
  <2>3. \A g \in Events : g # ev => rows'[g] = rows[g]
    BY <1>0, <2>1
  <2>4. \A g \in Events : rows[g].pos \in Nat /\ rows[g].pos <= counter
    BY <1>0 DEF IInv, RowsBelowCounter, Row, Pos
  <2>5. \A g \in Events : InLog(g)' /\ g # ev => InLog(g)
    BY <2>3 DEF InLog
  <2>6. CASE e # ev /\ f # ev
    BY <2>2, <2>3, <2>5, <2>6 DEF DistinctPos
  <2>7. ASSUME NEW g \in Events, NEW h \in Events, InLog(g)', InLog(h)', g = ev, h # ev
        PROVE  rows'[g].pos # rows'[h].pos
    <3>1. InLog(h) /\ rows'[h].pos = rows[h].pos
      BY <2>3, <2>5, <2>7
    <3>2. CASE InLog(g)
      BY <1>1, <2>7, <3>1, <3>2, RowsStable DEF DistinctPos, Next
    <3>3. CASE ~InLog(g)
      <4>1. rows'[g].pos = counter + 1
        BY <1>1, <2>7, <3>3, RowsStable DEF Next
      <4>2. QED
        BY <1>0, <2>4, <3>1, <4>1 DEF IInv, TypeOK, Pos
    <3>4. QED
      BY <3>2, <3>3
  <2>8. QED
    BY <2>2, <2>6, <2>7
<1>2. CASE rows' = rows
  BY <1>2 DEF DistinctPos, InLog
<1>3. QED
  BY <1>1, <1>2 DEF Next, NextStreamID, Insert, Rollback, SyncReadMax, SyncFetch, vars


(* The fetch of room r: the batch is the newest Limit rows of match, the   *)
(* sync-visible rows of r in (since, max].                                 *)
LEMMA FetchBatch ==
    ASSUME IInv, NoExcluded, DistinctPos, NEW r \in Rooms, NEW e \in Events,
           InLog(e), RoomOf[e] = r, since[r] < rows[e].pos, rows[e].pos <= rmax[r],
           e \notin SelectRecentEvents(r, [from |-> since[r], to |-> rmax[r],
                                           backwards |-> FALSE], Limit, TRUE)
    PROVE  LET batch == SelectRecentEvents(r, [from |-> since[r], to |-> rmax[r],
                                               backwards |-> FALSE], Limit, TRUE)
           IN  /\ Cardinality(batch) = Limit
               /\ \A f \in batch : rows[e].pos < rows[f].pos
<1> USE ConstantsAssumption
<1> DEFINE match == {x \in Events :
                       InLog(x) /\ RoomOf[x] = r
                       /\ since[r] < rows[x].pos /\ rows[x].pos <= rmax[r]}
           batch == SelectRecentEvents(r, [from |-> since[r], to |-> rmax[r],
                                           backwards |-> FALSE], Limit, TRUE)
<1>0. rows \in [Events -> Row]
  BY DEF IInv, TypeOK
<1>1. batch = Top(match, rows, Limit)
  <2>1. match = {x \in Events :
                    /\ InLog(x)
                    /\ RoomOf[x] = r
                    /\ Low([from |-> since[r], to |-> rmax[r], backwards |-> FALSE])
                         < rows[x].pos
                    /\ rows[x].pos
                         <= High([from |-> since[r], to |-> rmax[r], backwards |-> FALSE])
                    /\ TRUE => ~rows[x].exclude}
    BY DEF NoExcluded, Low, High
  <2>2. QED
    BY <2>1, Zenon DEF SelectRecentEvents, Top, Above
<1>2. match \subseteq Events /\ IsFiniteSet(match)
  BY FS_Subset
<1>3. \A x, y \in match : x # y => rows[x].pos # rows[y].pos
  BY DEF DistinctPos
<1>4. e \in match \ Top(match, rows, Limit)
  BY <1>1
<1> HIDE DEF match, batch
<1>5. Cardinality(Top(match, rows, Limit)) = Limit
  BY <1>0, <1>2, <1>3, <1>4, TopFull
<1>6. \A f \in Top(match, rows, Limit) : rows[e].pos < rows[f].pos
  BY <1>0, <1>2, <1>4, TopOrder
<1>7. QED
  BY <1>1, <1>5, <1>6, Zenon DEF batch

(* Skipped(r, p), for a given set of gaps.                                *)
SkippedIn(gs, p) == \E x \in gs : x.from < p /\ \A q \in x.before : p < q

(* Each step keeps every sync-visible row at or below a reader's since    *)
(* returned or skipped.                                                    *)
LEMMA NoMissedStep ==
    ASSUME IInv, ReaderInv, NoExcluded, DistinctPos, NoMissedSyncEvent, [Next]_vars
    PROVE  NoMissedSyncEvent'
<1> USE ConstantsAssumption
<1>0. /\ rows \in [Events -> Row] /\ counter \in Pos
      /\ since \in [Rooms -> Pos] /\ rmax \in [Rooms -> Pos]
      /\ delivered \in [Rooms -> [Events -> Nat]] /\ gaps \in [Rooms -> SUBSET Gap]
  BY DEF IInv, TypeOK
<1> SUFFICES ASSUME NEW r \in Rooms, NEW e \in Events,
                    InLog(e)', RoomOf[e] = r, ~rows'[e].exclude,
                    rows'[e].pos <= since'[r]
             PROVE  delivered'[r][e] > 0 \/ SkippedIn(gaps'[r], rows'[e].pos)
  BY DEF NoMissedSyncEvent, Skipped, SkippedIn
(* The old state's claim for e, when e was committed and below since.      *)
<1>1. InLog(e) /\ rows[e].pos <= since[r] => delivered[r][e] > 0 \/ Skipped(r, rows[e].pos)
  BY DEF NoMissedSyncEvent, NoExcluded
<1>2. ASSUME NEW w \in Writers, Commit(w) PROVE delivered'[r][e] > 0 \/ SkippedIn(gaps'[r], rows'[e].pos)
  <2>1. UNCHANGED ReaderVars
    BY <1>2 DEF Commit
  <2>2. CASE InLog(e)
    <3>1. rows'[e].pos = rows[e].pos
      BY <1>2, <2>2, RowsStable DEF Next
    <3>2. QED
      BY <1>1, <2>1, <2>2, <3>1 DEF ReaderVars, Skipped, SkippedIn
  <2>3. CASE ~InLog(e)
    <3>1. rows'[e].pos = counter + 1
      BY <1>2, <2>3, RowsStable DEF Next
    <3>2. since[r] <= counter
      BY DEF ReaderInv
    <3>3. QED
      BY <1>0, <2>1, <3>1, <3>2 DEF ReaderVars, Pos
  <2>4. QED
    BY <2>2, <2>3
<1>3. ASSUME NEW r0 \in Rooms, SyncFetch(r0)
      PROVE  delivered'[r][e] > 0 \/ SkippedIn(gaps'[r], rows'[e].pos)
  <2> DEFINE batch == SelectRecentEvents(r0, [from |-> since[r0], to |-> rmax[r0],
                                              backwards |-> FALSE], Limit, TRUE)
             cnt == [f \in Events |-> IF f \in batch THEN delivered[r0][f] + 1
                                                     ELSE delivered[r0][f]]
             g == [from |-> since[r0], before |-> {rows[f].pos : f \in batch}]
  <2>1. /\ rows' = rows
        /\ since' = [since EXCEPT ![r0] = rmax[r0]]
        /\ delivered' = [delivered EXCEPT ![r0] = cnt]
        /\ gaps' = [gaps EXCEPT ![r0] = IF Cardinality(batch) = Limit
                                        THEN @ \cup {g} ELSE @]
    BY <1>3 DEF SyncFetch
  <2> HIDE DEF batch
  <2>2. CASE r # r0
    <3>1. since'[r] = since[r] /\ delivered'[r] = delivered[r] /\ gaps'[r] = gaps[r]
      BY <1>0, <2>1, <2>2
    <3>2. QED
      BY <1>1, <2>1, <3>1 DEF Skipped, SkippedIn, InLog
  <2>3. CASE r = r0
    <3>1. /\ since'[r] = rmax[r]
          /\ delivered'[r][e] = cnt[e]
          /\ gaps[r] \subseteq gaps'[r]
          /\ Cardinality(batch) = Limit => g \in gaps'[r]
      BY <1>0, <2>1, <2>3
    <3>2. cnt[e] >= delivered[r][e] /\ delivered[r][e] \in Nat /\ cnt[e] \in Nat
      BY <1>0, <2>3
    <3>3. rows'[e].pos = rows[e].pos /\ InLog(e) /\ rows[e].pos \in Nat
          /\ since[r] \in Nat
      BY <1>0, <2>1 DEF InLog, Row, Pos
    <3>4. CASE rows[e].pos <= since[r]
      <4>1. delivered[r][e] > 0 \/ Skipped(r, rows[e].pos)
        BY <1>1, <3>3, <3>4
      <4>2. delivered[r][e] > 0 => delivered'[r][e] > 0
        BY <3>1, <3>2
      <4>3. Skipped(r, rows[e].pos) => SkippedIn(gaps'[r], rows'[e].pos)
        BY <3>1, <3>3 DEF Skipped, SkippedIn
      <4>4. QED
        BY <4>1, <4>2, <4>3
    <3>5. CASE since[r] < rows[e].pos
      <4>1. e \in batch => cnt[e] > 0
        <5>1. e \in batch => cnt[e] = delivered[r][e] + 1
          BY <2>3
        <5>2. QED
          BY <3>2, <5>1
      <4>2. CASE e \notin batch
        <5>1. /\ Cardinality(batch) = Limit
              /\ \A f \in batch : rows[e].pos < rows[f].pos
          <6>1. rows[e].pos <= rmax[r] /\ RoomOf[e] = r
            BY <3>1, <3>3
          <6>2. QED
            BY <2>3, <3>3, <3>5, <4>2, <6>1, FetchBatch DEF batch
        <5>2. g.from < rows[e].pos /\ \A q \in g.before : rows[e].pos < q
          BY <2>3, <3>5, <5>1
        <5>3. QED
          BY <3>1, <3>3, <5>1, <5>2 DEF SkippedIn
      <4>3. QED
        BY <3>1, <4>1, <4>2
    <3>6. QED
      BY <3>3, <3>4, <3>5
  <2>4. QED
    BY <2>2, <2>3
<1>4. CASE UNCHANGED <<rows, since, delivered, gaps>>
  BY <1>1, <1>4 DEF Skipped, SkippedIn, InLog
<1>5. ASSUME NEW w \in Writers, NextStreamID(w) \/ Insert(w) \/ Rollback(w)
      PROVE  UNCHANGED <<rows, since, delivered, gaps>>
  BY <1>5 DEF NextStreamID, Insert, Rollback, ReaderVars
<1>6. ASSUME NEW r0 \in Rooms, SyncReadMax(r0)
      PROVE  UNCHANGED <<rows, since, delivered, gaps>>
  BY <1>6 DEF SyncReadMax
<1>7. QED
  BY <1>2, <1>3, <1>4, <1>5, <1>6 DEF Next, vars


LEMMA NextNInv == LiveOnly /\ NInv /\ [Next]_vars => NInv'
<1> SUFFICES ASSUME LiveOnly, NInv, [Next]_vars PROVE NInv'
  OBVIOUS
<1>1. RInv'
  BY NextRInv DEF NInv
<1>2. NoExcluded'
  BY NoExclStep DEF NInv, RInv
<1>3. DistinctPos'
  BY DistinctStep DEF NInv, RInv
<1>4. NoMissedSyncEvent'
  BY NoMissedStep DEF NInv, RInv
<1>5. QED
  BY <1>1, <1>2, <1>3, <1>4 DEF NInv

(* When every InsertEvent passes excludeFromSync = false, an incremental *)
(* sync misses no event: each sync-visible row at or below since was      *)
(* returned or lies in a range a limited batch reported as skipped, for   *)
(* any number of writers, rooms and events and any limit.                 *)
THEOREM NoMissedLive ==
    ASSUME LiveOnly
    PROVE  Spec => []NoMissedSyncEvent
<1>1. Init => NInv
  BY InitNInv
<1>2. NInv /\ [Next]_vars => NInv'
  BY NextNInv
<1>3. NInv => NoMissedSyncEvent
  BY DEF NInv
<1>4. QED
  BY <1>1, <1>2, <1>3, PTL DEF Spec

=============================================================================
