----------------------- MODULE OutputRoomEventsProofs -----------------------
(***************************************************************************)
(* Proofs about the output log writers and sync readers of                *)
(* OutputRoomEvents, for every value of the constants.                    *)
(*                                                                         *)
(* The argument rests on the counter row lock: a transaction holds it     *)
(* from nextStreamID to commit or rollback, so at most one InsertEvent is *)
(* in flight, its position is the committed counter plus one, and every   *)
(* committed row lies at or below the committed counter.                  *)
(***************************************************************************)
EXTENDS OutputRoomEvents, WellFoundedInduction, TLAPS

-----------------------------------------------------------------------------
(* A nonempty set of naturals with an upper bound has a greatest element. *)
LEMMA MaxExists ==
    ASSUME NEW S \in SUBSET Nat, S # {}, NEW N \in Nat, \A p \in S : p <= N
    PROVE  \E m \in S : \A p \in S : p <= m
<1> DEFINE T == {N - p : p \in S}
<1>1. T \subseteq Nat
  OBVIOUS
<1>2. T # {}
  OBVIOUS
<1>3. PICK x \in T : \A y \in T : ~(<<y, x>> \in OpToRel(<, Nat))
  BY <1>1, <1>2, NatLessThanWellFounded, WFMin
<1>4. \A y \in T : ~(y < x)
  BY <1>1, <1>3 DEF OpToRel
<1>5. PICK m \in S : x = N - m
  OBVIOUS
<1>6. ASSUME NEW p \in S PROVE p <= m
  <2>1. N - p \in T
    OBVIOUS
  <2>2. ~(N - p < x)
    BY <2>1, <1>4
  <2>3. QED
    BY <2>2, <1>5
<1>7. QED
  BY <1>6

(* The row an upsert produces is a row.                                    *)
LEMMA UpsertRowType ==
    ASSUME rows \in [Events -> Row], NEW e \in Events, NEW p \in Pos,
           NEW x \in BOOLEAN
    PROVE  UpsertRow(e, p, x) \in Row
BY DEF UpsertRow, Row, InLog, ContainsURL, ParsedKeys, UnmarshalOK

(* An idle writer's state is a writer state.                              *)
LEMMA IdleWriterType == IdleWriter \in WriterState
<1>1. (CHOOSE e \in Events : TRUE) \in Events
  BY ConstantsAssumption
<1>2. 0 \in Pos
  BY ConstantsAssumption DEF Pos
<1>3. NoRow \in Row
  BY <1>2 DEF NoRow, Row
<1>4. QED
  BY <1>1, <1>2, <1>3 DEF IdleWriter, WriterState

(* SelectMaxEventID is a position.                                         *)
LEMMA SelectMaxEventIDType ==
    ASSUME rows \in [Events -> Row], MaxStreamID \in Nat
    PROVE  SelectMaxEventID \in Pos
<1> DEFINE ps == {rows[e].pos : e \in {f \in Events : InLog(f)}}
<1>1. ps \subseteq Pos
  BY DEF Row
<1>2. CASE ps = {}
  BY <1>2 DEF SelectMaxEventID, Pos
<1>3. CASE ps # {}
  <2>0. ps \subseteq Nat /\ \A p \in ps : p <= MaxStreamID
    BY <1>1 DEF Pos
  <2>1. \E m \in ps : \A p \in ps : p <= m
    BY <1>3, <2>0, MaxExists
  <2>2. QED
    BY <1>1, <1>3, <2>1 DEF SelectMaxEventID
<1>4. QED
  BY <1>2, <1>3

(* Counting a batch's deliveries keeps the counts natural numbers.         *)
LEMMA CountBatchType ==
    ASSUME NEW d \in [Events -> Nat], NEW B
    PROVE  [e \in Events |-> IF e \in B THEN d[e] + 1 ELSE d[e]] \in [Events -> Nat]
OBVIOUS

-----------------------------------------------------------------------------
(* The lock discipline of the writers.                                     *)
LockInv ==
    /\ \A w \in Writers : wst[w].pc # "idle" <=> lockHolder = w
    /\ \A w \in Writers : wst[w].pc # "idle" => wst[w].pos = counter + 1
    /\ \A w \in Writers :
          wst[w].pc = "inserted" =>
             wst[w].pend = UpsertRow(wst[w].ev, wst[w].pos, wst[w].excl)

(* Every committed row lies at or below the committed counter.             *)
RowsBelowCounter == \A e \in Events : rows[e].pos <= counter

IInv == TypeOK /\ LockInv /\ RowsBelowCounter

LEMMA InitIInv == Init => IInv
<1> SUFFICES ASSUME Init PROVE IInv
  OBVIOUS
<1>1. TypeOK
  BY ConstantsAssumption, IdleWriterType DEF Init, TypeOK, NoRow, Row, Pos
<1>2. LockInv
  BY ConstantsAssumption DEF Init, LockInv, IdleWriter
<1>3. RowsBelowCounter
  BY DEF Init, RowsBelowCounter, NoRow
<1>4. QED
  BY <1>1, <1>2, <1>3 DEF IInv

LEMMA NextIInv == IInv /\ [Next]_vars => IInv'
<1> USE ConstantsAssumption
<1> SUFFICES ASSUME IInv, [Next]_vars PROVE IInv'
  OBVIOUS
<1>1. ASSUME NEW w \in Writers, NextStreamID(w) PROVE IInv'
  <2>1. \A v \in Writers : wst[v].pc = "idle"
    BY <1>1 DEF NextStreamID, ReaderVars, IInv, LockInv
  <2>2. TypeOK'
    BY <1>1 DEF NextStreamID, ReaderVars, IInv, TypeOK, WriterState, NoRow, Row, Pos
  <2>3. LockInv'
    BY <1>1, <2>1 DEF NextStreamID, ReaderVars, IInv, TypeOK, LockInv
  <2>4. QED
    BY <1>1, <2>2, <2>3 DEF NextStreamID, ReaderVars, IInv, RowsBelowCounter
<1>2. ASSUME NEW w \in Writers, Insert(w) PROVE IInv'
  <2>1. UpsertRow(wst[w].ev, wst[w].pos, wst[w].excl) \in Row
    BY UpsertRowType DEF IInv, TypeOK, WriterState
  <2> DEFINE u == UpsertRow(wst[w].ev, wst[w].pos, wst[w].excl)
              nw == [wst[w] EXCEPT !.pc = "inserted", !.pend = u]
  <2>2. wst' = [wst EXCEPT ![w] = nw]
    BY <1>2 DEF Insert
  <2>a. wst[w] \in WriterState
    BY DEF IInv, TypeOK
  <2>b. /\ nw.pc = "inserted" /\ nw.pend = u /\ nw.ev = wst[w].ev
        /\ nw.pos = wst[w].pos /\ nw.excl = wst[w].excl
    BY <2>a DEF WriterState
  <2>3. nw \in WriterState
    BY <2>a, <2>b, <2>1 DEF WriterState
  <2>4. TypeOK'
    BY <1>2, <2>2, <2>3 DEF Insert, ReaderVars, IInv, TypeOK
  <2>c. lockHolder = w /\ \A v \in Writers \ {w} : wst[v].pc = "idle"
    BY <1>2 DEF Insert, IInv, LockInv
  <2>6. LockInv'
    <3>1. ASSUME NEW v \in Writers PROVE (wst[v].pc # "idle" <=> lockHolder = v)'
      BY <1>2, <2>2, <2>b, <2>c DEF Insert, IInv, TypeOK
    <3>2. ASSUME NEW v \in Writers, wst'[v].pc # "idle"
          PROVE  (wst[v].pos = counter + 1)'
      BY <1>2, <2>2, <2>b, <2>c, <3>2 DEF Insert, IInv, TypeOK, LockInv
    <3>3. ASSUME NEW v \in Writers, wst'[v].pc = "inserted"
          PROVE  (wst[v].pend = UpsertRow(wst[v].ev, wst[v].pos, wst[v].excl))'
      <4>1. v = w
        BY <2>2, <2>c, <3>3 DEF IInv, TypeOK
      <4>2. wst'[v] = nw
        BY <2>2, <4>1 DEF IInv, TypeOK
      <4>3. rows' = rows
        BY <1>2 DEF Insert
      <4>4. QED
        BY <2>b, <4>2, <4>3 DEF UpsertRow, InLog, ContainsURL, ParsedKeys,
                                UnmarshalOK
    <3>4. QED
      BY <3>1, <3>2, <3>3 DEF LockInv
  <2>7. QED
    BY <1>2, <2>4, <2>6 DEF Insert, IInv, RowsBelowCounter
<1>3. ASSUME NEW w \in Writers, Commit(w) PROVE IInv'
  <2> DEFINE e == wst[w].ev
  <2>1. wst[w].pos = counter + 1 /\ lockHolder = w
    BY <1>3 DEF Commit, ReaderVars, IInv, LockInv
  <2>2. \A v \in Writers \ {w} : wst[v].pc = "idle"
    BY <1>3, <2>1 DEF IInv, LockInv
  <2>3. wst[w].pend = UpsertRow(e, wst[w].pos, wst[w].excl)
    BY <1>3 DEF Commit, ReaderVars, IInv, LockInv
  <2>4. wst[w].pend \in Row /\ wst[w].pend.pos <= counter + 1
    <3>0. wst[w] \in WriterState /\ e \in Events /\ rows[e] \in Row
          /\ rows[e].pos <= counter /\ counter \in Nat
      BY DEF IInv, TypeOK, WriterState, RowsBelowCounter, Pos
    <3>1. CASE InLog(e)
      <4>1. wst[w].pend = [rows[e] EXCEPT !.exclude = wst[w].excl]
        BY <2>3, <3>1 DEF UpsertRow
      <4>2. wst[w].excl \in BOOLEAN
        BY <3>0 DEF WriterState
      <4>3. QED
        BY <3>0, <4>1, <4>2 DEF Row, Pos
    <3>2. CASE ~InLog(e)
      <4>1. wst[w].pend = [pos |-> wst[w].pos, exclude |-> wst[w].excl,
                           containsURL |-> ContainsURL(e)]
        BY <2>3, <3>2 DEF UpsertRow
      <4>2. QED
        BY <2>1, <3>0, <4>1 DEF WriterState, Row, Pos, ContainsURL
    <3>3. QED
      BY <3>1, <3>2
  <2>5. TypeOK'
    <3>1. counter + 1 \in Pos
      BY <2>1 DEF IInv, TypeOK, WriterState
    <3>2. rows' \in [Events -> Row]
      BY <1>3, <2>4 DEF Commit, IInv, TypeOK
    <3>3. returned' \subseteq Events \X Pos
      BY <1>3 DEF Commit, IInv, TypeOK, WriterState
    <3>4. QED
      BY <1>3, <3>1, <3>2, <3>3, IdleWriterType DEF Commit, ReaderVars, IInv,
                                                   TypeOK
  <2>6. LockInv'
    BY <1>3, <2>2 DEF Commit, ReaderVars, IInv, TypeOK, LockInv, IdleWriter
  <2>7. RowsBelowCounter'
    <3>1. counter' = counter + 1
      BY <1>3 DEF Commit
    <3>2. ASSUME NEW f \in Events PROVE rows'[f].pos <= counter'
      <4>1. CASE f = e
        BY <1>3, <2>4, <3>1, <4>1 DEF Commit, IInv, TypeOK
      <4>2. CASE f # e
        BY <1>3, <3>1, <4>2 DEF Commit, IInv, TypeOK, RowsBelowCounter, Row, Pos
      <4>3. QED
        BY <4>1, <4>2
    <3>3. QED
      BY <3>2 DEF RowsBelowCounter
  <2>8. QED
    BY <2>5, <2>6, <2>7 DEF IInv
<1>4. ASSUME NEW w \in Writers, Rollback(w) PROVE IInv'
  <2>1. lockHolder = w
    BY <1>4 DEF Rollback, ReaderVars, IInv, LockInv
  <2>2. \A v \in Writers \ {w} : wst[v].pc = "idle"
    BY <1>4, <2>1 DEF IInv, LockInv
  <2>3. TypeOK'
    BY <1>4, IdleWriterType DEF Rollback, ReaderVars, IInv, TypeOK
  <2>4. LockInv'
    BY <1>4, <2>2 DEF Rollback, ReaderVars, IInv, TypeOK, LockInv, IdleWriter
  <2>5. QED
    BY <1>4, <2>3, <2>4 DEF Rollback, ReaderVars, IInv, RowsBelowCounter
<1>5. ASSUME NEW r \in Rooms, SyncReadMax(r) PROVE IInv'
  <2>1. SelectMaxEventID \in Pos
    BY SelectMaxEventIDType DEF IInv, TypeOK
  <2>2. QED
    BY <1>5, <2>1 DEF SyncReadMax, IInv, TypeOK, LockInv, RowsBelowCounter,
                      UpsertRow, InLog
<1>6. ASSUME NEW r \in Rooms, SyncFetch(r) PROVE IInv'
  <2> DEFINE batch == SelectRecentEvents(r, [from |-> since[r], to |-> rmax[r],
                                              backwards |-> FALSE], Limit, TRUE)
  <2>1. batch \subseteq Events
    BY DEF SelectRecentEvents
  <2>2. ASSUME NEW e \in batch PROVE rows[e].pos \in Pos
    BY <2>1 DEF IInv, TypeOK, Row
  <2>a. since[r] \in Pos
    BY DEF IInv, TypeOK
  <2>b. {rows[e].pos : e \in batch} \in SUBSET Pos
    BY <2>2
  <2>3. [from |-> since[r], before |-> {rows[e].pos : e \in batch}] \in Gap
    BY <2>a, <2>b DEF Gap
  <2>f. [e \in Events |-> IF e \in batch THEN delivered[r][e] + 1
                                          ELSE delivered[r][e]]
        \in [Events -> Nat]
    <3>1. delivered[r] \in [Events -> Nat]
      BY DEF IInv, TypeOK
    <3>2. QED
      BY <3>1, CountBatchType
  <2>c. delivered' \in [Rooms -> [Events -> Nat]]
    BY <1>6, <2>f DEF SyncFetch, IInv, TypeOK
  <2>d. gaps' \in [Rooms -> SUBSET Gap]
    BY <1>6, <2>3 DEF SyncFetch, IInv, TypeOK
  <2>e. since' \in [Rooms -> Pos] /\ rpc' \in [Rooms -> {"idle", "maxread"}]
    BY <1>6 DEF SyncFetch, IInv, TypeOK
  <2>4. TypeOK'
    BY <1>6, <2>c, <2>d, <2>e DEF SyncFetch, IInv, TypeOK
  <2>5. QED
    BY <1>6, <2>4 DEF SyncFetch, IInv, LockInv, RowsBelowCounter, UpsertRow,
                      InLog
<1>7. CASE UNCHANGED vars
  BY <1>7 DEF vars, IInv, TypeOK, LockInv, RowsBelowCounter, UpsertRow, InLog
<1>8. QED
  BY <1>1, <1>2, <1>3, <1>4, <1>5, <1>6, <1>7 DEF Next

THEOREM InductiveInvariant == Spec => []IInv
BY InitIInv, NextIInv, PTL DEF Spec

(* Every step keeps every variable in its type: InsertEvent, the commit    *)
(* and rollback of its transaction, and both halves of a sync.             *)
THEOREM TypeCorrect == Spec => []TypeOK
BY InductiveInvariant, PTL DEF IInv

-----------------------------------------------------------------------------
(* The step CommitsInPositionOrder requires of every transition.          *)
NewRowsAbove ==
    \A e \in Events :
        (~InLog(e) /\ InLog(e)') =>
           \A f \in Events : InLog(f) => rows[f].pos < rows'[e].pos

(* Only a commit adds a row, and the row it adds is at the locked counter  *)
(* plus one, above every committed row.                                   *)
LEMMA NextNewRowsAbove == IInv /\ [Next]_vars => [NewRowsAbove]_vars
<1> USE ConstantsAssumption
<1> SUFFICES ASSUME IInv, [Next]_vars PROVE [NewRowsAbove]_vars
  OBVIOUS
<1>1. CASE rows' = rows
  BY <1>1 DEF NewRowsAbove, InLog
<1>2. ASSUME NEW w \in Writers, Commit(w) PROVE NewRowsAbove
  <2> DEFINE ev == wst[w].ev
  <2>1. wst[w] \in WriterState /\ counter \in Nat
    BY DEF IInv, TypeOK, Pos
  <2>2. wst[w].pos = counter + 1
    BY <1>2 DEF Commit, IInv, LockInv
  <2>3. wst[w].pend = UpsertRow(ev, wst[w].pos, wst[w].excl)
    BY <1>2 DEF Commit, IInv, LockInv
  <2>4. ASSUME NEW e \in Events, ~InLog(e), InLog(e)',
               NEW f \in Events, InLog(f)
        PROVE  rows[f].pos < rows'[e].pos
    <3>1. e = ev
      BY <1>2, <2>4 DEF Commit, InLog, IInv, TypeOK
    <3>2. rows'[e] = wst[w].pend
      BY <1>2, <2>1, <3>1 DEF Commit, IInv, TypeOK, WriterState
    <3>3. wst[w].pend.pos = counter + 1
      BY <2>2, <2>3, <2>4, <3>1 DEF UpsertRow
    <3>4. rows[f].pos <= counter /\ rows[f].pos \in Nat
      BY DEF IInv, RowsBelowCounter, TypeOK, Row, Pos
    <3>5. QED
      BY <2>1, <3>2, <3>3, <3>4
  <2>5. QED
    BY <2>4 DEF NewRowsAbove
<1>3. QED
  BY <1>1, <1>2 DEF Next, NextStreamID, Insert, Rollback, SyncReadMax,
                    SyncFetch, vars

(* Stream positions appear in increasing order: InsertEvent holds the      *)
(* counter row lock from nextStreamID to commit, so no row ever becomes    *)
(* visible below one that is already visible, for any number of writers   *)
(* and any bound on the counter.                                          *)
THEOREM PositionOrder == Spec => CommitsInPositionOrder
<1>1. Spec => [][NewRowsAbove]_vars
  BY InductiveInvariant, NextNewRowsAbove, PTL DEF Spec
<1>2. QED
  BY <1>1 DEF CommitsInPositionOrder, NewRowsAbove

-----------------------------------------------------------------------------
(* A commit is one AppendEvent of the event its transaction upserted.     *)
LEMMA CommitIsAppend ==
    ASSUME IInv, NEW w \in Writers, Commit(w)
    PROVE  Abstract!AppendEvent(wst[w].ev, wst[w].excl)
<1> USE ConstantsAssumption
<1> DEFINE e == wst[w].ev
           x == wst[w].excl
<1>1. wst[w] \in WriterState /\ counter \in Nat /\ rows \in [Events -> Row]
  BY DEF IInv, TypeOK, Pos
<1>2. wst[w].pos = counter + 1 /\ wst[w].pend = UpsertRow(e, wst[w].pos, x)
  BY DEF Commit, IInv, LockInv
<1>3. counter < MaxStreamID
  BY <1>1, <1>2 DEF WriterState, Pos
<1>4. rows' = [rows EXCEPT ![e] = wst[w].pend] /\ counter' = counter + 1
  BY DEF Commit
<1>5. CASE rows[e].pos # 0
  <2>1. wst[w].pend = [rows[e] EXCEPT !.exclude = x]
    BY <1>2, <1>5 DEF UpsertRow, InLog
  <2>2. rows' = [rows EXCEPT ![e].exclude = x]
    BY <1>4, <2>1
  <2>3. QED
    BY <1>3, <1>4, <1>5, <2>2 DEF Abstract!AppendEvent
<1>6. CASE rows[e].pos = 0
  <2>1. wst[w].pend = [pos |-> counter + 1, exclude |-> x,
                       containsURL |-> ContainsURL(e)]
    BY <1>2, <1>6 DEF UpsertRow, InLog
  <2>2. ContainsURL(e) \in BOOLEAN
    BY DEF ContainsURL
  <2>3. QED
    BY <1>3, <1>4, <1>6, <2>1, <2>2 DEF Abstract!AppendEvent
<1>7. QED
  BY <1>5, <1>6

(* Every step of the writers and readers is an AppendEvent or leaves the  *)
(* counter and the rows alone.                                            *)
LEMMA NextRefines ==
    IInv /\ [Next]_vars => [Abstract!Next]_<<counter, rows>>
<1> SUFFICES ASSUME IInv, [Next]_vars PROVE [Abstract!Next]_<<counter, rows>>
  OBVIOUS
<1>1. ASSUME NEW w \in Writers, Commit(w) PROVE Abstract!Next
  <2>1. wst[w].ev \in Events /\ wst[w].excl \in BOOLEAN
    BY DEF IInv, TypeOK, WriterState
  <2>2. QED
    BY <1>1, <2>1, CommitIsAppend DEF Abstract!Next
<1>2. QED
  BY <1>1 DEF Next, NextStreamID, Insert, Rollback, SyncReadMax, SyncFetch,
              vars

(* The transactional InsertEvent implements the atomic output log: the    *)
(* counter update and the upserted row become visible together, in one    *)
(* step, whatever the number of writers and the bound on the counter.     *)
THEOREM Refinement == Spec => RefinesOutputLog
<1>1. Init => Abstract!Init
  BY DEF Init, Abstract!Init, NoRow
<1>2. QED
  BY <1>1, InductiveInvariant, NextRefines, PTL
     DEF Spec, RefinesOutputLog, Abstract!Spec

=============================================================================
