-------------------------- MODULE OutputRoomEvents --------------------------
(***************************************************************************)
(* The sync API's output log: syncapi_output_room_events together with the *)
(* global counter row of syncapi_stream_id.                                *)
(*                                                                         *)
(* Writers are the goroutines that store an output event: inside one       *)
(* database transaction InsertEvent calls nextStreamID (UPDATE the counter *)
(* row, then SELECT it back) and upserts the row keyed by event_id; the    *)
(* transaction then commits or rolls back.  The UPDATE takes the counter   *)
(* row's lock, held until the transaction ends.                            *)
(*                                                                         *)
(* Readers are incremental /sync streams, one per room: each reads         *)
(* SelectMaxEventID outside any transaction, then SelectRecentEvents over  *)
(* (since, max] with onlySyncEvents, and advances since to max.  A batch   *)
(* that hits the limit is reported as limited, which tells the client that *)
(* the range below its oldest event was skipped.                           *)
(***************************************************************************)
EXTENDS Integers, FiniteSets

CONSTANTS
    Writers,        \* goroutines that write output events
    Events,         \* event IDs
    Rooms,          \* room IDs
    RoomOf,         \* the room of each event
    HasURL,         \* whether the event content has a "url" key
    ExcludeChoices, \* the excludeFromSync values callers pass
    MaxStreamID,    \* bound on the global stream counter
    Limit,          \* the timeline limit of a sync request
    NoWriter        \* the counter row is unlocked

ASSUME ConstantsAssumption ==
    /\ Events # {} /\ IsFiniteSet(Events)  \* a table holds finitely many rows
    /\ RoomOf \in [Events -> Rooms]
    /\ HasURL \in [Events -> BOOLEAN]
    /\ ExcludeChoices \subseteq BOOLEAN
    /\ MaxStreamID \in Nat
    /\ Limit \in Nat \ {0}
    /\ NoWriter \notin Writers

VARIABLES
    counter,    \* committed value of syncapi_stream_id.stream_id ("global")
    rows,       \* committed rows, by event_id; pos = 0: no row
    lockHolder, \* the transaction holding the counter row lock
    wst,        \* per-writer transaction state
    returned,   \* history: <<event, position>> returned by committed InsertEvents
    since,      \* per-room reader: position of its last sync
    rpc,        \* per-room reader: "idle" or "maxread"
    rmax,       \* per-room reader: SelectMaxEventID result of this sync
    delivered,  \* per-room reader: times each event was returned to the client
    gaps        \* per-room reader: ranges skipped by limited batches

vars == <<counter, rows, lockHolder, wst, returned, since, rpc, rmax,
          delivered, gaps>>

Pos == 0..MaxStreamID

Row == [pos : Pos, exclude : BOOLEAN, containsURL : BOOLEAN]

NoRow == [pos |-> 0, exclude |-> FALSE, containsURL |-> FALSE]

WriterState == [pc : {"idle", "allocated", "inserted"}, ev : Events,
                excl : BOOLEAN, pos : Pos, pend : Row]

TypesRange == [from : Pos, to : Pos, backwards : BOOLEAN]

Gap == [from : Pos, before : SUBSET Pos]

IdleWriter == [pc |-> "idle", ev |-> CHOOSE e \in Events : TRUE,
               excl |-> FALSE, pos |-> 0, pend |-> NoRow]

-----------------------------------------------------------------------------
(* types.Range: the low and high ends of a range, by direction.            *)
Low(r) == IF r.backwards THEN r.to ELSE r.from

High(r) == IF r.backwards THEN r.from ELSE r.to

InLog(e) == rows[e].pos # 0

(* Mutants of SelectMaxEventID: NULL read as -1; a value cached at startup. *)
SelectMaxEventIDNullAsMinusOne ==
    LET ps == {rows[e].pos : e \in {f \in Events : InLog(f)}}
    IN  IF ps = {} THEN -1 ELSE CHOOSE m \in ps : \A p \in ps : p <= m

SelectMaxEventIDStale == 0

(* SelectMaxEventID: MAX(id) over all committed rows, 0 when there is none. *)
SelectMaxEventID ==
    LET ps == {rows[e].pos : e \in {f \in Events : InLog(f)}}
    IN  IF ps = {} THEN 0 ELSE CHOOSE m \in ps : \A p \in ps : p <= m

(* Mutant of SelectRecentEvents: the range excludes its high end.        *)
SelectRecentEventsExclHigh(room, r, limit, onlySyncEvents) ==
    LET match == {e \in Events :
                    /\ InLog(e)
                    /\ RoomOf[e] = room
                    /\ Low(r) < rows[e].pos /\ rows[e].pos < High(r)
                    /\ onlySyncEvents => ~rows[e].exclude}
    IN  {e \in match :
           Cardinality({f \in match : rows[f].pos > rows[e].pos}) < limit}

(* SelectRecentEvents: rows of the room with Low < id <= High, the sync     *)
(* variant without excluded rows, newest first, at most limit of them.     *)
(* The result is a set: the chronological re-sort only orders it.          *)
SelectRecentEvents(room, r, limit, onlySyncEvents) ==
    LET match == {e \in Events :
                    /\ InLog(e)
                    /\ RoomOf[e] = room
                    /\ Low(r) < rows[e].pos /\ rows[e].pos <= High(r)
                    /\ onlySyncEvents => ~rows[e].exclude}
    IN  {e \in match :
           Cardinality({f \in match : rows[f].pos > rows[e].pos}) < limit}

(* InsertEvent's content check.  Event content is always a JSON object,    *)
(* so json.Unmarshal succeeds and fills the map with the content's keys;   *)
(* on failure it would leave the map nil.  The "url" key is looked up only *)
(* when Unmarshal returned an error.                                       *)
UnmarshalOK(e) == TRUE

ParsedKeys(e) ==
    IF UnmarshalOK(e) THEN (IF HasURL[e] THEN {"url"} ELSE {}) ELSE {}

ContainsURL(e) == ~UnmarshalOK(e) /\ "url" \in ParsedKeys(e)

(* Mutant of UpsertRow: the conflict also moves the row to the new id.    *)
UpsertRowMovesRow(e, p, x) ==
    IF InLog(e) THEN [rows[e] EXCEPT !.exclude = x, !.pos = p]
    ELSE [pos |-> p, exclude |-> x, containsURL |-> ContainsURL(e)]

(* insertEventSQL: a new row at the allocated id, or, ON CONFLICT on        *)
(* event_id, the existing row with only exclude_from_sync updated.          *)
UpsertRow(e, p, x) ==
    IF InLog(e) THEN [rows[e] EXCEPT !.exclude = x]
    ELSE [pos |-> p, exclude |-> x, containsURL |-> ContainsURL(e)]

-----------------------------------------------------------------------------
Init ==
    /\ counter = 0
    /\ rows = [e \in Events |-> NoRow]
    /\ lockHolder = NoWriter
    /\ wst = [w \in Writers |-> IdleWriter]
    /\ returned = {}
    /\ since = [r \in Rooms |-> 0]
    /\ rpc = [r \in Rooms |-> "idle"]
    /\ rmax = [r \in Rooms |-> 0]
    /\ delivered = [r \in Rooms |-> [e \in Events |-> 0]]
    /\ gaps = [r \in Rooms |-> {}]

ReaderVars == <<since, rpc, rmax, delivered, gaps>>

(* Mutant of NextStreamID: the UPDATE does not lock the counter row, so    *)
(* concurrent transactions read the same committed value.                 *)
NextStreamIDNoLock(w) ==
    /\ wst[w].pc = "idle"
    /\ counter < MaxStreamID
    /\ \E e \in Events, x \in ExcludeChoices :
          wst' = [wst EXCEPT ![w] = [pc |-> "allocated", ev |-> e, excl |-> x,
                                     pos |-> counter + 1, pend |-> NoRow]]
    /\ UNCHANGED <<counter, rows, lockHolder, returned, ReaderVars>>

(* InsertEvent up to nextStreamID, in writer w's transaction: the UPDATE    *)
(* waits for and takes the counter row lock and bumps the counter; the     *)
(* SELECT reads the transaction's own uncommitted value back.              *)
NextStreamID(w) ==
    /\ wst[w].pc = "idle"
    /\ lockHolder = NoWriter
    /\ counter < MaxStreamID
    /\ \E e \in Events, x \in ExcludeChoices :
          wst' = [wst EXCEPT ![w] = [pc |-> "allocated", ev |-> e, excl |-> x,
                                     pos |-> counter + 1, pend |-> NoRow]]
    /\ lockHolder' = w
    /\ UNCHANGED <<counter, rows, returned, ReaderVars>>

(* The INSERT ... ON CONFLICT of InsertEvent, not yet visible to others.    *)
Insert(w) ==
    /\ wst[w].pc = "allocated"
    /\ wst' = [wst EXCEPT ![w].pc = "inserted",
                          ![w].pend = UpsertRow(wst[w].ev, wst[w].pos, wst[w].excl)]
    /\ UNCHANGED <<counter, rows, lockHolder, returned, ReaderVars>>

(* The transaction commits: the row and the counter become visible, the     *)
(* lock is released and InsertEvent's streamPos is what the caller gets.    *)
Commit(w) ==
    /\ wst[w].pc = "inserted"
    /\ rows' = [rows EXCEPT ![wst[w].ev] = wst[w].pend]
    /\ counter' = counter + 1
    /\ lockHolder' = NoWriter
    /\ returned' = returned \cup {<<wst[w].ev, wst[w].pos>>}
    /\ wst' = [wst EXCEPT ![w] = IdleWriter]
    /\ UNCHANGED ReaderVars

(* Mutant of Rollback: the insert is not undone with the counter update.   *)
RollbackKeepsInsert(w) ==
    /\ wst[w].pc \in {"allocated", "inserted"}
    /\ rows' = IF wst[w].pc = "inserted"
               THEN [rows EXCEPT ![wst[w].ev] = wst[w].pend] ELSE rows
    /\ lockHolder' = NoWriter
    /\ wst' = [wst EXCEPT ![w] = IdleWriter]
    /\ UNCHANGED <<counter, returned, ReaderVars>>

(* Any error after nextStreamID (in InsertEvent or later in the caller's    *)
(* transaction) rolls the counter update and the insert back.               *)
Rollback(w) ==
    /\ wst[w].pc \in {"allocated", "inserted"}
    /\ lockHolder' = NoWriter
    /\ wst' = [wst EXCEPT ![w] = IdleWriter]
    /\ UNCHANGED <<counter, rows, returned, ReaderVars>>

(* A sync of room r reads the current maximum position.                     *)
SyncReadMax(r) ==
    /\ rpc[r] = "idle"
    /\ rmax' = [rmax EXCEPT ![r] = SelectMaxEventID]
    /\ rpc' = [rpc EXCEPT ![r] = "maxread"]
    /\ UNCHANGED <<counter, rows, lockHolder, wst, returned, since, delivered, gaps>>

(* ... then fetches (since, max] for the room and advances since to max.    *)
(* A batch of Limit events is limited: what lies above since and below the *)
(* batch's oldest event (its prev_batch position) was skipped.              *)
SyncFetch(r) ==
    LET batch == SelectRecentEvents(r, [from |-> since[r], to |-> rmax[r],
                                        backwards |-> FALSE], Limit, TRUE)
    IN
    /\ rpc[r] = "maxread"
    /\ delivered' = [delivered EXCEPT ![r] =
                       [e \in Events |-> IF e \in batch THEN @[e] + 1 ELSE @[e]]]
    /\ gaps' = [gaps EXCEPT ![r] =
                  IF Cardinality(batch) = Limit
                  THEN @ \cup {[from |-> since[r],
                                before |-> {rows[e].pos : e \in batch}]}
                  ELSE @]
    /\ since' = [since EXCEPT ![r] = rmax[r]]
    /\ rpc' = [rpc EXCEPT ![r] = "idle"]
    /\ UNCHANGED <<counter, rows, lockHolder, wst, returned, rmax>>

Next ==
    \/ \E w \in Writers :
          NextStreamID(w) \/ Insert(w) \/ Commit(w) \/ Rollback(w)
    \/ \E r \in Rooms : SyncReadMax(r) \/ SyncFetch(r)

(* A transaction in progress ends; a sync stream keeps being polled.        *)
Fairness ==
    /\ \A w \in Writers : WF_vars(Insert(w)) /\ WF_vars(Commit(w) \/ Rollback(w))
    /\ \A r \in Rooms : WF_vars(SyncReadMax(r)) /\ WF_vars(SyncFetch(r))

Spec == Init /\ [][Next]_vars /\ Fairness

-----------------------------------------------------------------------------
TypeOK ==
    /\ counter \in Pos
    /\ rows \in [Events -> Row]
    /\ lockHolder \in Writers \cup {NoWriter}
    /\ wst \in [Writers -> WriterState]
    /\ returned \subseteq Events \X Pos
    /\ since \in [Rooms -> Pos]
    /\ rpc \in [Rooms -> {"idle", "maxread"}]
    /\ rmax \in [Rooms -> Pos]
    /\ delivered \in [Rooms -> [Events -> Nat]]
    /\ gaps \in [Rooms -> SUBSET Gap]


(* Skipped(r, p): position p lies in a range a limited batch of room r's    *)
(* sync reported as skipped.                                               *)
Skipped(r, p) == \E g \in gaps[r] : g.from < p /\ \A q \in g.before : p < q

(* Incremental sync loses nothing: every sync-visible row of room r at or  *)
(* below the stream's since position has been returned to the client, or  *)
(* lies in a range a limited batch reported as skipped.  SelectMaxEventID  *)
(* runs outside any transaction, so this holds only if rows become         *)
(* visible in position order (the counter row lock held to commit).        *)
NoMissedSyncEvent ==
    \A r \in Rooms, e \in Events :
        (/\ InLog(e) /\ RoomOf[e] = r /\ ~rows[e].exclude
         /\ rows[e].pos <= since[r])
        => delivered[r][e] > 0 \/ Skipped(r, rows[e].pos)

(* An event stored twice (the roomserver output is consumed at least once) *)
(* is returned to a room's incremental sync at most once: the upsert on    *)
(* event_id keeps a single row at a single position.                       *)
ExactlyOnceDelivery ==
    \A r \in Rooms, e \in Events : delivered[r][e] <= 1

(* Every row that appears in the log gets a position above every row       *)
(* already visible: commits happen in stream-position order.               *)
CommitsInPositionOrder ==
    [][\A e \in Events :
         (~InLog(e) /\ InLog(e)') =>
            \A f \in Events : InLog(f) => rows[f].pos < rows'[e].pos]_vars

(* Every sync-visible row is eventually returned to its room's sync stream *)
(* or reported as skipped by a limited batch.                              *)
EventuallyDelivered ==
    \A e \in Events :
        (InLog(e) /\ ~rows[e].exclude)
            ~> (delivered[RoomOf[e]][e] > 0 \/ Skipped(RoomOf[e], rows[e].pos))

(* InsertEvent returns the position the event's row is stored at: storing  *)
(* the same event again returns the same position (spec section 8).        *)
InsertEventReturnsRowPosition ==
    \A pr \in returned : rows[pr[1]].pos = pr[2]

(* The contains_url column says whether the event content has a url key.   *)
RowURLFlagMatchesContent ==
    \A e \in Events : InLog(e) => rows[e].containsURL = HasURL[e]

(* The transactional writer implements the atomic output log.             *)
Abstract == INSTANCE OutputLog

RefinesOutputLog == Abstract!Spec

=============================================================================
