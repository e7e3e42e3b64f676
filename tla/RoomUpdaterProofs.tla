-------------------------- MODULE RoomUpdaterProofs --------------------------
(***************************************************************************)
(* Proofs that the room row's latest events are the forward extremities   *)
(* of the stored events and that its state snapshot never goes back to an *)
(* older one, for every set of writers, every event DAG and every bound.  *)
(*                                                                         *)
(* The argument: the row lock taken by SelectLatestEventsNIDsForUpdate is *)
(* held by at most one updater, whose reads are therefore still the       *)
(* committed row and whose event is still processable when it commits;    *)
(* the stored events are closed under prev, so a newly stored event is    *)
(* referenced by no stored event.                                          *)
(***************************************************************************)
EXTENDS RoomUpdater, TLAPS

LockInv ==
    /\ \A w \in Writers : upc[w] # "idle" <=> lockHolder = w
    /\ \A w \in Writers : upc[w] # "idle" =>
          /\ readLatest[w] = latest
          /\ readSnap[w] = snapshot
          /\ Processable(uev[w])
    /\ \A w \in Writers : upc[w] = "updated" =>
          /\ newLatest[w] = ForwardExtremities(latest, uev[w])
          /\ newSent[w] = uev[w]
          /\ newSnap[w] # 0

(* Every stored event's prev events are stored.                           *)
PrevClosed == \A f \in stored : Prev[f] \subseteq stored

(* The row is empty exactly while no event is stored.                      *)
EmptyRow ==
    /\ latest = {} <=> stored = {}
    /\ snapshot = 0 <=> stored = {}

IInv == TypeOK /\ LockInv /\ PrevClosed /\ LatestAreExtremities /\ EmptyRow

-----------------------------------------------------------------------------
(* The forward extremities of a set of events.                             *)
ExtOf(S) == {x \in S : \A f \in S : x \notin Prev[f]}

(* Storing an event whose prevs are stored, in a prev-closed set, moves    *)
(* the extremities exactly as ForwardExtremities does.                     *)
LEMMA ExtremitiesStep ==
    ASSUME NEW S \in SUBSET Events, NEW e \in Events, e \notin S,
           Prev[e] \subseteq S, \A f \in S : Prev[f] \subseteq S
    PROVE  ForwardExtremities(ExtOf(S), e) = ExtOf(S \cup {e})
<1>1. \A f \in S \cup {e} : e \notin Prev[f]
  OBVIOUS
<1>2. ASSUME NEW x \in S
      PROVE  x \in ExtOf(S \cup {e}) <=> x \in ExtOf(S) /\ x \notin Prev[e]
  BY DEF ExtOf
<1>3. QED
  BY <1>1, <1>2 DEF ForwardExtremities, ExtOf

(* The latest events after a commit are never empty.                      *)
LEMMA ForwardExtremitiesType ==
    ASSUME NEW L \in SUBSET Events, NEW e \in Events
    PROVE  ForwardExtremities(L, e) \in SUBSET Events /\ e \in ForwardExtremities(L, e)
BY DEF ForwardExtremities

LEMMA InitIInv == Init => IInv
<1> SUFFICES ASSUME Init PROVE IInv
  OBVIOUS
<1>1. AnyEvent \in Events
  BY UpdaterAssumption DEF AnyEvent
<1>2. TypeOK
  BY <1>1, UpdaterAssumption DEF Init, TypeOK, Snap
<1>3. QED
  BY <1>2, UpdaterAssumption
     DEF Init, IInv, LockInv, PrevClosed, LatestAreExtremities, Extremities,
         EmptyRow

LEMMA NextIInv == IInv /\ [Next]_vars => IInv'
<1> USE UpdaterAssumption
<1> SUFFICES ASSUME IInv, [Next]_vars PROVE IInv'
  OBVIOUS
<1>1. ASSUME NEW w \in Writers, SelectLatestEventsNIDsForUpdate(w) PROVE IInv'
  <2>1. \A v \in Writers : upc[v] = "idle"
    BY <1>1 DEF SelectLatestEventsNIDsForUpdate, IInv, LockInv
  <2>2. PICK e \in Events : Processable(e) /\ uev' = [uev EXCEPT ![w] = e]
    BY <1>1 DEF SelectLatestEventsNIDsForUpdate
  <2>3. TypeOK'
    BY <1>1, <2>2 DEF SelectLatestEventsNIDsForUpdate, IInv, TypeOK
  <2>4. LockInv'
    BY <1>1, <2>1, <2>2 DEF SelectLatestEventsNIDsForUpdate, IInv, TypeOK,
                            LockInv, Processable
  <2>5. QED
    BY <1>1, <2>3, <2>4 DEF SelectLatestEventsNIDsForUpdate, IInv, PrevClosed,
                            LatestAreExtremities, Extremities, EmptyRow
<1>2. ASSUME NEW w \in Writers, UpdateLatestEventNIDs(w) PROVE IInv'
  <2> DEFINE e == uev[w]
  <2>1. /\ lockHolder = w /\ readLatest[w] = latest /\ readSnap[w] = snapshot
        /\ Processable(e)
    BY <1>2 DEF UpdateLatestEventNIDs, IInv, LockInv
  <2>2. e \in Events /\ nextSnap \in Nat /\ snapshot \in Nat
    BY DEF IInv, TypeOK, Snap
  <2>3. NewStateSnapshot(e, readSnap[w]) # 0
    <3>1. CASE e \in StateEvents
      BY <2>2, <3>1 DEF NewStateSnapshot
    <3>2. CASE e \notin StateEvents
      <4>1. Prev[e] # {}
        BY <2>2, <3>2
      <4>2. stored # {}
        BY <2>1, <4>1 DEF Processable
      <4>3. QED
        BY <2>1, <3>2, <4>2 DEF NewStateSnapshot, IInv, EmptyRow
    <3>3. QED
      BY <3>1, <3>2
  <2>4. NewStateSnapshot(e, readSnap[w]) \in Snap
    BY <1>2, <2>2 DEF UpdateLatestEventNIDs, NewStateSnapshot, IInv, TypeOK, Snap
  <2>5. TypeOK'
    BY <1>2, <2>2, <2>4, ForwardExtremitiesType
       DEF UpdateLatestEventNIDs, IInv, TypeOK, Snap
  <2>6. LockInv'
    BY <1>2, <2>1, <2>3 DEF UpdateLatestEventNIDs, IInv, TypeOK, LockInv,
                            Processable
  <2>7. QED
    BY <1>2, <2>5, <2>6 DEF UpdateLatestEventNIDs, IInv, PrevClosed,
                            LatestAreExtremities, Extremities, EmptyRow
<1>3. ASSUME NEW w \in Writers, Commit(w) PROVE IInv'
  <2> DEFINE e == uev[w]
  <2>1. /\ lockHolder = w /\ Processable(e)
        /\ newLatest[w] = ForwardExtremities(latest, e)
        /\ newSent[w] = e /\ newSnap[w] # 0
    BY <1>3 DEF Commit, IInv, LockInv
  <2>2. \A v \in Writers \ {w} : upc[v] = "idle"
    BY <2>1 DEF IInv, LockInv
  <2>3. e \in Events /\ stored \in SUBSET Events
    BY DEF IInv, TypeOK
  <2>4. ForwardExtremities(ExtOf(stored), e) = ExtOf(stored \cup {e})
    BY <2>1, <2>3, ExtremitiesStep DEF Processable, IInv, PrevClosed
  <2>5. latest' = ExtOf(stored')
    BY <1>3, <2>1, <2>4 DEF Commit, IInv, LatestAreExtremities, Extremities,
                            ExtOf
  <2>6. TypeOK'
    BY <1>3, <2>1, <2>3, ForwardExtremitiesType DEF Commit, LocalVars, IInv,
                                                    TypeOK
  <2>7. LockInv'
    BY <1>3, <2>2 DEF Commit, IInv, TypeOK, LockInv
  <2>8. PrevClosed'
    BY <1>3, <2>1 DEF Commit, IInv, PrevClosed, Processable
  <2>9. EmptyRow'
    BY <1>3, <2>1, <2>3, ForwardExtremitiesType DEF Commit, IInv, TypeOK,
                                                    EmptyRow
  <2>10. QED
    BY <2>5, <2>6, <2>7, <2>8, <2>9 DEF IInv, LatestAreExtremities, Extremities,
                                        ExtOf
<1>4. ASSUME NEW w \in Writers, Rollback(w) PROVE IInv'
  <2>1. lockHolder = w
    BY <1>4 DEF Rollback, IInv, LockInv
  <2>2. \A v \in Writers \ {w} : upc[v] = "idle"
    BY <2>1 DEF IInv, LockInv
  <2>3. TypeOK'
    BY <1>4 DEF Rollback, LocalVars, IInv, TypeOK
  <2>4. LockInv'
    BY <1>4, <2>2 DEF Rollback, IInv, TypeOK, LockInv
  <2>5. QED
    BY <1>4, <2>3, <2>4 DEF Rollback, IInv, PrevClosed, LatestAreExtremities,
                            Extremities, EmptyRow
<1>5. CASE UNCHANGED vars
  BY <1>5 DEF vars, IInv, TypeOK, LockInv, PrevClosed, LatestAreExtremities,
              Extremities, EmptyRow, Processable, ForwardExtremities
<1>6. QED
  BY <1>1, <1>2, <1>3, <1>4, <1>5 DEF Next

(* However the updaters of a room interleave, with rollbacks anywhere,     *)
(* latest_event_nids is the set of forward extremities of the stored      *)
(* events.                                                                 *)
THEOREM LatestEventsCorrect == Spec => []LatestAreExtremities
<1>1. IInv => LatestAreExtremities
  BY DEF IInv
<1>2. QED
  BY <1>1, InitIInv, NextIInv, PTL DEF Spec

(* Every step of the updaters keeps every variable in its type.           *)
THEOREM UpdaterTypeCorrect == Spec => []TypeOK
<1>1. IInv => TypeOK
  BY DEF IInv
<1>2. QED
  BY <1>1, InitIInv, NextIInv, PTL DEF Spec

-----------------------------------------------------------------------------
(* Snapshot NIDs are allocated in increasing order: the committed snapshot *)
(* is at most the last one allocated, and what the lock holder is about to *)
(* commit lies between the two.                                            *)
SnapOrder ==
    /\ snapshot <= nextSnap
    /\ \A w \in Writers : upc[w] = "updated" =>
          snapshot <= newSnap[w] /\ newSnap[w] <= nextSnap

LEMMA InitSnapOrder == Init => SnapOrder
BY DEF Init, SnapOrder

LEMMA NextSnapOrder == IInv /\ SnapOrder /\ [Next]_vars => SnapOrder'
<1> USE UpdaterAssumption
<1> SUFFICES ASSUME IInv, SnapOrder, [Next]_vars PROVE SnapOrder'
  OBVIOUS
<1>0. snapshot \in Nat /\ nextSnap \in Nat /\ newSnap \in [Writers -> Nat]
  BY DEF IInv, TypeOK, Snap
<1>1. ASSUME NEW w \in Writers, SelectLatestEventsNIDsForUpdate(w) PROVE SnapOrder'
  <2>1. \A v \in Writers : upc[v] = "idle"
    BY <1>1 DEF SelectLatestEventsNIDsForUpdate, IInv, LockInv
  <2>2. \A v \in Writers : upc'[v] # "updated"
    BY <1>1, <2>1 DEF SelectLatestEventsNIDsForUpdate, IInv, TypeOK
  <2>3. QED
    BY <1>1, <2>2 DEF SelectLatestEventsNIDsForUpdate, SnapOrder
<1>2. ASSUME NEW w \in Writers, UpdateLatestEventNIDs(w) PROVE SnapOrder'
  <2>1. readSnap[w] = snapshot /\ upc[w] = "locked"
    BY <1>2 DEF UpdateLatestEventNIDs, IInv, LockInv
  <2>2. snapshot <= newSnap'[w] /\ newSnap'[w] <= nextSnap'
    BY <1>0, <1>2, <2>1 DEF UpdateLatestEventNIDs, NewStateSnapshot, SnapOrder,
                            IInv, TypeOK
  <2>3. nextSnap <= nextSnap'
    BY <1>0, <1>2 DEF UpdateLatestEventNIDs
  <2>4. QED
    BY <1>0, <1>2, <2>2, <2>3 DEF UpdateLatestEventNIDs, SnapOrder, IInv, TypeOK
<1>3. ASSUME NEW w \in Writers, Commit(w) PROVE SnapOrder'
  <2>1. upc[w] = "updated" /\ \A v \in Writers \ {w} : upc[v] = "idle"
    BY <1>3 DEF Commit, IInv, LockInv
  <2>2. \A v \in Writers : upc'[v] # "updated"
    BY <1>3, <2>1 DEF Commit, IInv, TypeOK
  <2>3. QED
    BY <1>3, <2>1, <2>2 DEF Commit, SnapOrder
<1>4. ASSUME NEW w \in Writers, Rollback(w) PROVE SnapOrder'
  <2>1. \A v \in Writers : upc'[v] = "updated" => upc[v] = "updated"
    BY <1>4 DEF Rollback, IInv, TypeOK
  <2>2. QED
    BY <1>4, <2>1 DEF Rollback, LocalVars, SnapOrder
<1>5. CASE UNCHANGED vars
  BY <1>5 DEF vars, SnapOrder
<1>6. QED
  BY <1>1, <1>2, <1>3, <1>4, <1>5 DEF Next

(* No commit, whatever the interleaving of the updaters and their         *)
(* rollbacks, moves state_snapshot_nid back to an older snapshot: the      *)
(* lock holder writes the snapshot it read under the lock or a newer one. *)
THEOREM SnapshotMonotone == Spec => SnapshotNeverRegresses
<1>1. IInv /\ SnapOrder /\ [Next]_vars => [snapshot' >= snapshot]_snapshot
  <2> SUFFICES ASSUME IInv, SnapOrder, [Next]_vars
               PROVE  [snapshot' >= snapshot]_snapshot
    OBVIOUS
  <2>0. snapshot \in Nat /\ newSnap \in [Writers -> Nat]
    BY DEF IInv, TypeOK, Snap
  <2>1. ASSUME NEW w \in Writers, Commit(w) PROVE snapshot' >= snapshot
    BY <2>0, <2>1 DEF Commit, SnapOrder
  <2>2. ASSUME NEW w \in Writers,
               \/ SelectLatestEventsNIDsForUpdate(w)
               \/ UpdateLatestEventNIDs(w)
               \/ Rollback(w)
        PROVE  UNCHANGED snapshot
    BY <2>2 DEF SelectLatestEventsNIDsForUpdate, UpdateLatestEventNIDs, Rollback
  <2>3. QED
    BY <2>1, <2>2 DEF Next, vars
<1>2. QED
  BY <1>1, InitIInv, NextIInv, InitSnapOrder, NextSnapOrder, PTL
     DEF Spec, SnapshotNeverRegresses

-----------------------------------------------------------------------------
(* A commit is one ProcessEvent of the abstract room.                     *)
LEMMA CommitIsProcessEvent ==
    ASSUME IInv, NEW w \in Writers, Commit(w)
    PROVE  RoomLog!ProcessEvent(uev[w])
<1>1. /\ Processable(uev[w])
      /\ newLatest[w] = ForwardExtremities(latest, uev[w])
      /\ newSent[w] = uev[w]
  BY DEF Commit, IInv, LockInv
<1>2. QED
  BY <1>1 DEF Commit, Processable, ForwardExtremities, RoomLog!ProcessEvent

LEMMA NextRefinesRoomLog ==
    IInv /\ [Next]_vars => [RoomLog!Next]_<<stored, latest, lastSent>>
<1> SUFFICES ASSUME IInv, [Next]_vars
             PROVE  [RoomLog!Next]_<<stored, latest, lastSent>>
  OBVIOUS
<1>1. ASSUME NEW w \in Writers, Commit(w) PROVE RoomLog!Next
  <2>1. uev[w] \in Events
    BY DEF IInv, TypeOK
  <2>2. QED
    BY <1>1, <2>1, CommitIsProcessEvent DEF RoomLog!Next
<1>2. ASSUME NEW w \in Writers,
             \/ SelectLatestEventsNIDsForUpdate(w)
             \/ UpdateLatestEventNIDs(w)
             \/ Rollback(w)
      PROVE  UNCHANGED <<stored, latest, lastSent>>
  BY <1>2 DEF SelectLatestEventsNIDsForUpdate, UpdateLatestEventNIDs, Rollback
<1>3. QED
  BY <1>1, <1>2 DEF Next, vars

(* However the updaters interleave and roll back, the committed row goes   *)
(* through the steps of the atomic room: each commit processes one        *)
(* processable event, latest_event_nids following ForwardExtremities and  *)
(* last_event_sent_nid naming the event.                                   *)
THEOREM RoomRefinement == Spec => RefinesRoomEvents
<1>1. Init => RoomLog!Init
  BY DEF Init, RoomLog!Init
<1>2. Spec => []IInv
  BY InitIInv, NextIInv, PTL DEF Spec
<1>3. QED
  BY <1>1, <1>2, NextRefinesRoomLog, PTL DEF Spec, RefinesRoomEvents, RoomLog!Spec

=============================================================================
