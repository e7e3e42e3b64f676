---------------------------- MODULE RoomUpdater ----------------------------
(***************************************************************************)
(* One row of roomserver_rooms and the room updaters that move its latest *)
(* events forward.                                                         *)
(*                                                                         *)
(* A goroutine processing an input event for the room begins a             *)
(* transaction, reads latest_event_nids, last_event_sent_nid and           *)
(* state_snapshot_nid with SelectLatestEventsNIDsForUpdate (SELECT ... FOR *)
(* UPDATE, which takes the row lock until the transaction ends), computes  *)
(* the new forward extremities and state snapshot, writes them with        *)
(* UpdateLatestEventNIDs and commits; any error rolls back.  The updater   *)
(* and the state computation are not under src/: they follow the spec     *)
(* (sections 4.4 and 4.5).  The event's prev events must already be       *)
(* stored, otherwise the input is not processed (backfill first).          *)
(***************************************************************************)
EXTENDS Naturals, FiniteSets

CONSTANTS
    Writers,      \* goroutines processing input events of the room
    Events,       \* event NIDs
    Prev,         \* the prev events of each event
    StateEvents,  \* the state events; an event without prev events is the
                  \* room's create event, a state event
    MaxSnapshot,  \* bound on state snapshot NIDs
    NoWriter      \* the row is not locked

ASSUME UpdaterAssumption ==
    /\ Events # {}
    /\ Prev \in [Events -> SUBSET Events]
    /\ StateEvents \subseteq Events
    /\ \A e \in Events : Prev[e] = {} => e \in StateEvents
    /\ MaxSnapshot \in Nat
    /\ NoWriter \notin Writers

VARIABLES
    latest,     \* committed latest_event_nids
    lastSent,   \* committed last_event_sent_nid (0: none)
    snapshot,   \* committed state_snapshot_nid (0: none)
    stored,     \* events whose processing committed
    nextSnap,   \* last state snapshot NID allocated
    lockHolder, \* the transaction holding the row lock
    upc,        \* per writer: "idle", "locked" or "updated"
    uev,        \* per writer: the event it processes
    readLatest, \* per writer: latest_event_nids as it read them
    readSnap,   \* per writer: state_snapshot_nid as it read it
    newLatest,  \* per writer: latest_event_nids it wrote, uncommitted
    newSnap,    \* per writer: state_snapshot_nid it wrote, uncommitted
    newSent     \* per writer: last_event_sent_nid it wrote, uncommitted

vars == <<latest, lastSent, snapshot, stored, nextSnap, lockHolder, upc, uev,
          readLatest, readSnap, newLatest, newSnap, newSent>>

Snap == 0..MaxSnapshot

AnyEvent == CHOOSE e \in Events : TRUE

(* roomsSchema: a new row has latest_event_nids '[]', last_event_sent_nid  *)
(* 0 and state_snapshot_nid 0.                                             *)
Init ==
    /\ latest = {}
    /\ lastSent = 0
    /\ snapshot = 0
    /\ stored = {}
    /\ nextSnap = 0
    /\ lockHolder = NoWriter
    /\ upc = [w \in Writers |-> "idle"]
    /\ uev = [w \in Writers |-> AnyEvent]
    /\ readLatest = [w \in Writers |-> {}]
    /\ readSnap = [w \in Writers |-> 0]
    /\ newLatest = [w \in Writers |-> {}]
    /\ newSnap = [w \in Writers |-> 0]
    /\ newSent = [w \in Writers |-> 0]

LocalVars == <<readLatest, readSnap, newLatest, newSnap, newSent>>

(* An event the room can process now: not stored, every prev stored.       *)
Processable(e) == e \notin stored /\ Prev[e] \subseteq stored

(* Mutant of SelectLatestEventsNIDsForUpdate: the plain SELECT of         *)
(* SelectLatestEventNIDs, which takes no lock.                            *)
SelectLatestEventNIDs(w) ==
    /\ upc[w] = "idle"
    /\ \E e \in Events :
          /\ Processable(e)
          /\ uev' = [uev EXCEPT ![w] = e]
    /\ upc' = [upc EXCEPT ![w] = "locked"]
    /\ readLatest' = [readLatest EXCEPT ![w] = latest]
    /\ readSnap' = [readSnap EXCEPT ![w] = snapshot]
    /\ UNCHANGED <<latest, lastSent, snapshot, stored, nextSnap, lockHolder,
                   newLatest, newSnap, newSent>>

(* The updater's transaction starts with SelectLatestEventsNIDsForUpdate:  *)
(* it waits for the row lock, takes it, and reads the committed row.       *)
SelectLatestEventsNIDsForUpdate(w) ==
    /\ upc[w] = "idle"
    /\ lockHolder = NoWriter
    /\ \E e \in Events :
          /\ Processable(e)
          /\ uev' = [uev EXCEPT ![w] = e]
    /\ lockHolder' = w
    /\ upc' = [upc EXCEPT ![w] = "locked"]
    /\ readLatest' = [readLatest EXCEPT ![w] = latest]
    /\ readSnap' = [readSnap EXCEPT ![w] = snapshot]
    /\ UNCHANGED <<latest, lastSent, snapshot, stored, nextSnap,
                   newLatest, newSnap, newSent>>

(* The new forward extremities: the old ones minus those the event         *)
(* references, plus the event.                                             *)
ForwardExtremities(old, e) == (old \ Prev[e]) \cup {e}

(* A state event gets a fresh snapshot (a new block on the old state);     *)
(* any other event keeps the snapshot it read.                             *)
NewStateSnapshot(e, old) == IF e \in StateEvents THEN nextSnap + 1 ELSE old

(* Mutant of UpdateLatestEventNIDs: the caller passes lastEventSentNID and *)
(* stateSnapshotNID in each other's place.                                *)
UpdateLatestEventNIDsSwapped(w) ==
    /\ upc[w] = "locked"
    /\ nextSnap < MaxSnapshot
    /\ newLatest' = [newLatest EXCEPT ![w] = ForwardExtremities(readLatest[w], uev[w])]
    /\ newSnap' = [newSnap EXCEPT ![w] = uev[w]]
    /\ newSent' = [newSent EXCEPT ![w] = NewStateSnapshot(uev[w], readSnap[w])]
    /\ nextSnap' = IF uev[w] \in StateEvents THEN nextSnap + 1 ELSE nextSnap
    /\ upc' = [upc EXCEPT ![w] = "updated"]
    /\ UNCHANGED <<latest, lastSent, snapshot, stored, lockHolder, uev,
                   readLatest, readSnap>>

(* Mutant of UpdateLatestEventNIDs: the caller passes the                    *)
(* last_event_sent_nid it read instead of the event it sends.              *)
UpdateLatestEventNIDsKeepsSent(w) ==
    /\ upc[w] = "locked"
    /\ nextSnap < MaxSnapshot
    /\ newLatest' = [newLatest EXCEPT ![w] = ForwardExtremities(readLatest[w], uev[w])]
    /\ newSnap' = [newSnap EXCEPT ![w] = NewStateSnapshot(uev[w], readSnap[w])]
    /\ newSent' = [newSent EXCEPT ![w] = lastSent]
    /\ nextSnap' = IF uev[w] \in StateEvents THEN nextSnap + 1 ELSE nextSnap
    /\ upc' = [upc EXCEPT ![w] = "updated"]
    /\ UNCHANGED <<latest, lastSent, snapshot, stored, lockHolder, uev,
                   readLatest, readSnap>>

(* UpdateLatestEventNIDs inside the transaction, with the snapshot rows    *)
(* written before it; last_event_sent_nid becomes the event sent on to    *)
(* the output log.                                                         *)
UpdateLatestEventNIDs(w) ==
    /\ upc[w] = "locked"
    /\ nextSnap < MaxSnapshot
    /\ newLatest' = [newLatest EXCEPT ![w] = ForwardExtremities(readLatest[w], uev[w])]
    /\ newSnap' = [newSnap EXCEPT ![w] = NewStateSnapshot(uev[w], readSnap[w])]
    /\ newSent' = [newSent EXCEPT ![w] = uev[w]]
    /\ nextSnap' = IF uev[w] \in StateEvents THEN nextSnap + 1 ELSE nextSnap
    /\ upc' = [upc EXCEPT ![w] = "updated"]
    /\ UNCHANGED <<latest, lastSent, snapshot, stored, lockHolder, uev,
                   readLatest, readSnap>>

(* The transaction commits: the row and the event become visible and the  *)
(* row lock is released.                                                   *)
Commit(w) ==
    /\ upc[w] = "updated"
    /\ latest' = newLatest[w]
    /\ snapshot' = newSnap[w]
    /\ lastSent' = newSent[w]
    /\ stored' = stored \cup {uev[w]}
    /\ lockHolder' = NoWriter
    /\ upc' = [upc EXCEPT ![w] = "idle"]
    /\ UNCHANGED <<nextSnap, uev, LocalVars>>

(* An error after the lock was taken rolls everything back.  Snapshot     *)
(* NIDs already allocated stay allocated.                                 *)
Rollback(w) ==
    /\ upc[w] \in {"locked", "updated"}
    /\ lockHolder' = NoWriter
    /\ upc' = [upc EXCEPT ![w] = "idle"]
    /\ UNCHANGED <<latest, lastSent, snapshot, stored, nextSnap, uev, LocalVars>>

Next ==
    \E w \in Writers :
        \/ SelectLatestEventsNIDsForUpdate(w)
        \/ UpdateLatestEventNIDs(w)
        \/ Commit(w)
        \/ Rollback(w)

Spec == Init /\ [][Next]_vars

-----------------------------------------------------------------------------
TypeOK ==
    /\ latest \subseteq Events
    /\ lastSent \in Events \cup {0}
    /\ snapshot \in Snap
    /\ stored \subseteq Events
    /\ nextSnap \in Snap
    /\ lockHolder \in Writers \cup {NoWriter}
    /\ upc \in [Writers -> {"idle", "locked", "updated"}]
    /\ uev \in [Writers -> Events]
    /\ readLatest \in [Writers -> SUBSET Events]
    /\ readSnap \in [Writers -> Snap]
    /\ newLatest \in [Writers -> SUBSET Events]
    /\ newSnap \in [Writers -> Snap]
    /\ newSent \in [Writers -> Events \cup {0}]

(* The forward extremities of the stored DAG: stored events no stored     *)
(* event references.                                                       *)
Extremities == {e \in stored : \A f \in stored : e \notin Prev[f]}

(* latest_event_nids is exactly the set of forward extremities, however    *)
(* the updaters of the room interleave: the row lock taken by the FOR     *)
(* UPDATE read makes each updater start from the row the previous one     *)
(* committed, so no extremity is lost and none is kept once referenced.   *)
LatestAreExtremities == latest = Extremities

(* A commit never sets state_snapshot_nid back to an older snapshot: the   *)
(* room's state is never reverted to one from before a committed state    *)
(* event.  It holds because the FOR UPDATE lock makes every updater read   *)
(* the committed row and keep it until it commits, so the snapshot it      *)
(* writes is the one it found or one allocated after it; two updaters      *)
(* working from the same read would commit in either order.               *)
SnapshotNeverRegresses == [][snapshot' >= snapshot]_snapshot

RoomLog == INSTANCE RoomEvents
             WITH events <- stored, extremities <- latest, sent <- lastSent

(* The updaters, with their row lock, uncommitted writes and rollbacks,   *)
(* implement the room's atomic event processing: every commit processes  *)
(* one event whose prev events are stored, sets latest_event_nids to the  *)
(* extremities after it and last_event_sent_nid to it; no other step      *)
(* changes the committed row.                                              *)
RefinesRoomEvents == RoomLog!Spec

=============================================================================
