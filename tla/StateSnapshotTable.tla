------------------------- MODULE StateSnapshotTable -------------------------
(***************************************************************************)
(* roomserver_state_snapshots of the embedded-engine roomserver storage:   *)
(* insertState and bulkSelectStateBlockNIDs, through database/sql and the  *)
(* SQLite driver.                                                          *)
(*                                                                         *)
(* insertState runs the prepared insertStateSQL with QueryRowContext.  The *)
(* string holds two statements; the driver prepares the first and keeps   *)
(* the rest as a tail that a prepared statement never runs.  So Scan steps *)
(* the INSERT alone: the row is written with the next AUTOINCREMENT NID,   *)
(* the INSERT yields no row, and the call returns sql.ErrNoRows.  Each call *)
(* is one autocommit statement, so concurrent callers only serialise.      *)
(*                                                                         *)
(* bulkSelectStateBlockNIDs binds pq.Int64Array(nids) to IN ($1).  Its     *)
(* driver value is one TEXT, the array literal '{n1,n2,...}', which SQLite *)
(* compares with the INTEGER state_snapshot_nid as a single value.  The    *)
(* rows loop fills a slice as long as the request and fails when fewer    *)
(* rows came back than NIDs were asked for.  Callers pass NIDs without     *)
(* duplicates (they deduplicate first).                                    *)
(***************************************************************************)
EXTENDS Naturals, Sequences, SequencesExt

CONSTANTS
    BlockLists,  \* the state block NID lists snapshots are made of
    MaxNID,      \* bound on state snapshot NIDs
    MaxRequest,  \* bound on the number of NIDs a lookup asks for
    Err,         \* the "state NIDs missing" error of the lookup
    ErrNoRows,   \* sql.ErrNoRows, returned by Scan on an empty result
    NoCall       \* no call has returned yet

VARIABLES
    snaps,    \* the rows: NID |-> the stored state_block_nids value
    lastNID,  \* the AUTOINCREMENT counter
    got,      \* what the last insertState returned: a NID or ErrNoRows
    request,  \* the NIDs the last lookup asked for
    answer,   \* what it returned: a slice of StateBlockNIDList, or Err
    atCall    \* the rows the table held when it ran

vars == <<snaps, lastNID, got, request, answer, atCall>>

NID == 1..MaxNID

(* The requests callers make: distinct NIDs, in any order.                 *)
Requests == UNION {{s \in [1..n -> NID] : IsInjective(s)} : n \in 1..MaxRequest}

(* pq.Int64Array(nids).Value(): the TEXT array literal '{n1,n2,...}'; a    *)
(* SQLite value is typed, INTEGER or TEXT.                                 *)
Int64ArrayText(nids) == [type |-> "text", val |-> nids]

(* Scan into a pq.Int64Array parses the array literal back.                *)
ParseInt64Array(v) == v.val

(* state_snapshot_nid = v for the INTEGER PRIMARY KEY column: numeric      *)
(* affinity turns a TEXT into a number only when it reads as one, which an *)
(* array literal, starting with '{', never does; an INTEGER never equals a *)
(* TEXT.                                                                   *)
SqlIntEq(n, v) == v.type = "integer" /\ v.val = n

Init ==
    /\ snaps = <<>>
    /\ lastNID = 0
    /\ got = NoCall
    /\ request = <<>>
    /\ answer = NoCall
    /\ atCall = snaps

(* insertState: the INSERT writes a row with the next AUTOINCREMENT NID    *)
(* and the block list as its array text; the SELECT of the tail never runs *)
(* and Scan returns sql.ErrNoRows.  room_nid is not read back by any      *)
(* lookup and is left out.                                                 *)
InsertState ==
    /\ lastNID < MaxNID
    /\ \E blocks \in BlockLists :
          snaps' = [n \in DOMAIN snaps \cup {lastNID + 1} |->
                      IF n = lastNID + 1 THEN Int64ArrayText(blocks) ELSE snaps[n]]
    /\ lastNID' = lastNID + 1
    /\ got' = ErrNoRows
    /\ UNCHANGED <<request, answer, atCall>>

(* The number of NIDs of the set sel below n.                             *)
RankIn(sel, n) == Cardinality({m \in sel : m < n})

(* bulkSelectStateBlockNIDsSQL with $1 bound to param: the rows whose NID  *)
(* equals it, ORDER BY state_snapshot_nid ASC: the k-th row is the NID     *)
(* with k - 1 of the selected NIDs below it.                               *)
SelectedNIDs(param) ==
    LET sel == {n \in DOMAIN snaps : SqlIntEq(n, param)}
    IN  [k \in 1..Cardinality(sel) |-> CHOOSE n \in sel : RankIn(sel, n) = k - 1]

(* The rows.Next loop fills results[0..i) in row order, parsing each       *)
(* state_block_nids; i # len(stateNIDs) is the error.                      *)
BulkResult(req) ==
    LET rows == SelectedNIDs(Int64ArrayText(req))
    IN  IF Len(rows) # Len(req) THEN Err
        ELSE [k \in 1..Len(rows) |->
                 [nid |-> rows[k], blocks |-> ParseInt64Array(snaps[rows[k]])]]

BulkSelectStateBlockNIDs ==
    /\ \E req \in Requests :
          /\ request' = req
          /\ answer' = BulkResult(req)
    /\ atCall' = snaps
    /\ UNCHANGED <<snaps, lastNID, got>>

Next == InsertState \/ BulkSelectStateBlockNIDs

Spec == Init /\ [][Next]_vars

-----------------------------------------------------------------------------
(* bulkSelectStateBlockNIDs fails exactly when a requested snapshot NID    *)
(* has no row (spec section 4.3: NotFoundError, never expected in normal  *)
(* operation); otherwise it returns one entry per requested NID, with the *)
(* block list the snapshot had when the lookup ran, sorted by NID so that  *)
(* the callers' binary search finds every one of them.                    *)
BulkLookupCorrect ==
    answer # NoCall =>
        IF \E n \in ToSet(request) : n \notin DOMAIN atCall
        THEN answer = Err
        ELSE /\ answer # Err
             /\ {answer[k].nid : k \in DOMAIN answer} = ToSet(request)
             /\ \A k \in DOMAIN answer :
                   answer[k].blocks = ParseInt64Array(atCall[answer[k].nid])
             /\ \A k, j \in DOMAIN answer : k < j => answer[k].nid < answer[j].nid

=============================================================================
