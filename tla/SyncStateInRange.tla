--------------------------- MODULE SyncStateInRange ---------------------------
(***************************************************************************)
(* SelectStateInRange of the sync API's output log: one call, on a log     *)
(* written by InsertEvent.                                                 *)
(*                                                                         *)
(* The log is a sequence of rows; a row's index is its stream position.    *)
(* InsertEvent stores add_state_ids and remove_state_ids as json.Marshal   *)
(* of the caller's slices: a nil slice (an event that changes no state)   *)
(* becomes the JSON text "null", never SQL NULL.  The call selects the     *)
(* rows in (Low, High] whose add or remove column IS NOT NULL, oldest      *)
(* first, at most Limit of them, and folds them: per room, every removed   *)
(* ID is marked false, then every added ID true; every row's event goes   *)
(* into eventIDToEvent.                                                    *)
(***************************************************************************)
EXTENDS Naturals, Sequences, SequencesExt

CONSTANTS
    Rooms,      \* room IDs
    StateIDs,   \* state event IDs that deltas name
    MaxRows,    \* bound on the length of the log
    Limits,     \* the stateFilter.Limit values callers pass
    JsonNull,   \* the text json.Marshal makes of a nil slice
    NoResult    \* the call has not returned yet

VARIABLES
    log,     \* the rows of syncapi_output_room_events, by position
    range,   \* the types.Range of the call
    limit,   \* the stateFilter.Limit of the call
    result   \* what the call returned: stateNeeded and eventIDToEvent

vars == <<log, range, limit, result>>

(* The column text of a state delta: a set of IDs, or "null".              *)
Delta == {JsonNull} \cup {{x} : x \in StateIDs}

Row == [room : Rooms, add : Delta, del : Delta]

(* A row whose caller passed state: addState or removeState not nil.       *)
StateCarrying(i) == log[i].add # JsonNull \/ log[i].del # JsonNull

(* types.Range: the low and high ends of a range, by direction.            *)
Low(r) == IF r.backwards THEN r.to ELSE r.from

High(r) == IF r.backwards THEN r.from ELSE r.to

(* The SQL predicate on the delta columns: IS NOT NULL.  InsertEvent never *)
(* stores SQL NULL, so every row passes.                                   *)
DeltaNotNull(i) == TRUE

(* Mutant of SelectStateInRangeRows: ORDER BY id DESC.                     *)
SelectStateInRangeRowsDesc(r, lim) ==
    LET inRange == SelectSeq([i \in 1..Len(log) |-> Len(log) + 1 - i],
                             LAMBDA i : Low(r) < i /\ i <= High(r) /\ DeltaNotNull(i))
    IN  SubSeq(inRange, 1, IF lim < Len(inRange) THEN lim ELSE Len(inRange))

(* selectStateInRangeSQL: the positions of the rows it returns, in order.  *)
SelectStateInRangeRows(r, lim) ==
    LET inRange == SelectSeq([i \in 1..Len(log) |-> i],
                             LAMBDA i : Low(r) < i /\ i <= High(r) /\ DeltaNotNull(i))
    IN  SubSeq(inRange, 1, IF lim < Len(inRange) THEN lim ELSE Len(inRange))

(* unmarshalStateIDs: "null" unmarshals to a nil slice.                    *)
UnmarshalStateIDs(d) == IF d = JsonNull THEN {} ELSE d

(* A needSet, map[string]bool: a function on the IDs it has an entry for. *)
NoEntry == [x \in {} |-> FALSE]

(* Mutant of FoldRow: the adds are applied before the deletes.             *)
FoldRowAddsFirst(acc, i) ==
    LET room == log[i].room
        adds == UnmarshalStateIDs(log[i].add)
        dels == UnmarshalStateIDs(log[i].del)
        old  == IF room \in acc.rooms THEN acc.need[room] ELSE NoEntry
        set  == [x \in DOMAIN old \cup dels \cup adds |->
                    IF x \in dels THEN FALSE ELSE IF x \in adds THEN TRUE ELSE old[x]]
    IN  [rooms |-> acc.rooms \cup {room},
         need  |-> [acc.need EXCEPT ![room] = set],
         events |-> acc.events \cup {i}]

(* The body of the rows.Next loop: the room's needSet (made if missing),   *)
(* every deleted ID set false, then every added ID set true; the row's     *)
(* event cached in eventIDToEvent.                                         *)
FoldRow(acc, i) ==
    LET room == log[i].room
        adds == UnmarshalStateIDs(log[i].add)
        dels == UnmarshalStateIDs(log[i].del)
        old  == IF room \in acc.rooms THEN acc.need[room] ELSE NoEntry
        set  == [x \in DOMAIN old \cup dels \cup adds |->
                    IF x \in adds THEN TRUE ELSE IF x \in dels THEN FALSE ELSE old[x]]
    IN  [rooms |-> acc.rooms \cup {room},
         need  |-> [acc.need EXCEPT ![room] = set],
         events |-> acc.events \cup {i}]

EmptyResult == [rooms |-> {}, need |-> [r \in Rooms |-> NoEntry], events |-> {}]

Ranges == {rg \in [from : 0..MaxRows, to : 0..MaxRows, backwards : BOOLEAN] :
              Low(rg) <= High(rg)}

Init ==
    /\ log \in UNION {[1..n -> Row] : n \in 0..MaxRows}
    /\ range \in {rg \in Ranges : High(rg) <= Len(log)}
    /\ limit \in Limits
    /\ result = NoResult

(* The call: the query, then the fold over its rows in the order returned. *)
SelectStateInRange ==
    /\ result = NoResult
    /\ result' = FoldLeft(FoldRow, EmptyResult, SelectStateInRangeRows(range, limit))
    /\ UNCHANGED <<log, range, limit>>

Next == SelectStateInRange

Spec == Init /\ [][Next]_vars

-----------------------------------------------------------------------------
(* The rows the call was meant to fold: the first limit state-carrying     *)
(* rows in the range, oldest first (spec section 4.6).                     *)
StateEntries ==
    LET inRange == SelectSeq([i \in 1..Len(log) |-> i],
                             LAMBDA i : Low(range) < i /\ i <= High(range)
                                        /\ StateCarrying(i))
    IN  SubSeq(inRange, 1, IF limit < Len(inRange) THEN limit ELSE Len(inRange))

(* Of the rows at positions P, the IDs of room r whose last mention, by    *)
(* stream position, adds them.                                             *)
LastWriteAdds(r, P) ==
    {x \in StateIDs :
        \E k \in P :
           /\ log[k].room = r
           /\ x \in UnmarshalStateIDs(log[k].add)
           /\ \A j \in P :
                 (j > k /\ log[j].room = r) =>
                    x \notin UnmarshalStateIDs(log[j].add) \cup UnmarshalStateIDs(log[j].del)}

(* The state a room needs is what the later entries of the rows the call   *)
(* read say: an ID added and later removed is not needed, one removed and *)
(* later added again is (spec section 8's last scenario), per room.       *)
NeededIsLastWrite ==
    result # NoResult =>
        \A r \in Rooms :
           {x \in StateIDs : r \in result.rooms /\ x \in DOMAIN result.need[r]
                              /\ result.need[r][x]}
              = LastWriteAdds(r, ToSet(SelectStateInRangeRows(range, limit)))

(* The call reads state-carrying entries only (spec section 4.6, and the   *)
(* comment "Fetch all the state change events"): every event it returns   *)
(* in eventIDToEvent is one whose row carries a state delta, and the      *)
(* limit counts such rows only.                                           *)
ScansStateEntriesOnly ==
    result # NoResult => result.events = ToSet(StateEntries)

=============================================================================
