# TLA+ models of the Dendrite storage and client-API code under `src/`

This directory holds TLA+ models of the stateful parts of the code under `src/`, the TLC configurations that check them on small instances, and TLAPS proofs of the main safety properties for every value of the constants.

## The system and how its parts interact

The code under `src/` is a slice of a Matrix homeserver. Its parts are these:

| Part | Source | What it does |
|---|---|---|
| Roomserver rooms table | `roomserver/storage/mysql/rooms_table.go` | One row per room: `latest_event_nids` (the forward extremities), `last_event_sent_nid` and `state_snapshot_nid`. An updater transaction reads the row `FOR UPDATE`, computes the new extremities and state snapshot, writes them back and commits. |
| Roomserver state snapshots | `unnamed/part_001` (SQLite) | `insertState` stores a snapshot and is meant to return its NID. `bulkSelectStateBlockNIDs` looks up many snapshots at once, sorted by NID for the callers' binary search. |
| Sync API output log | `syncapi/storage/mysql/output_room_events_table.go`, `stream_id_table.go` | The roomserver's output events are stored with a position taken from the global stream counter (`nextStreamID`, inside the writer's transaction). Incremental `/sync` reads `SelectMaxEventID`, then `SelectRecentEvents` over `(since, max]`. `SelectStateInRange` folds the state deltas of a range. |
| Appservice transaction IDs | `appservice/storage/mysql/txn_id_counter_table.go` | `selectTxnID` hands each transaction sent to an application service its ID. |
| Client API GetEvent | `clientapi/routing/getevent.go` | `GET /rooms/{roomId}/event/{eventId}`. It asks the roomserver for the event and for the user's membership at that event, and returns the event to a joined user. |
| Client API routing | `clientapi/routing/routing.go` | `Setup` registers the client-server API on four gorilla/mux routers (`/`, `r0`, `v1`, `unstable`): a path template, the methods it accepts, the wrapper (JSON or HTML) and the handler with the arguments it takes from the path. |

The roomserver produces output events. The sync API consumes them at least once, so an event can arrive twice, and stores them in the output log. Clients read the log through `/sync`. A client request reaches the client API through the routing table, and the handler it selects (GetEvent among them) asks the roomserver directly.

The MySQL files use the Postgres/SQLite dialect: `$n` placeholders, `ON CONFLICT`, `INSERT OR IGNORE`, and `LIMIT $8` with three arguments. The models give the statements the meaning their text intends: an upsert on `event_id`, an insert ignored on a primary-key conflict, and a limit that is the filter's limit. Result order is modelled only where the code depends on it. `SelectRecentEvents` is modelled as a set, because its caller re-sorts it. The state fold and the snapshot lookup are modelled as sequences.

## Modules

| Module | Models | State | Actions |
|---|---|---|---|
| `OutputRoomEvents` | output log and stream counter, with writer transactions and per-room sync streams | `counter`, `rows` (by event ID: position, exclude flag, contains_url), `lockHolder` (the counter row lock), `wst` (per writer: step, event, position, uncommitted row), `returned` (history of InsertEvent results), and per room `since`, `rpc`, `rmax`, `delivered`, `gaps` | `NextStreamID` (UPDATE takes the row lock), `Insert` (the upsert, uncommitted), `Commit`, `Rollback`, `SyncReadMax` (`SelectMaxEventID`), `SyncFetch` (`SelectRecentEvents`, then `since := max`) |
| `OutputLog` | what the log promises: one atomic `AppendEvent` per stored event | `counter`, `rows` | `AppendEvent` |
| `SyncStateInRange` | one call of `SelectStateInRange` on any log of up to `MaxRows` rows | `log`, `range`, `limit`, `result` | `SelectStateInRange` (the query, then the `needSet` fold via `FoldLeft`) |
| `AppserviceTxnCounter` | the counter table, its `prepare` at every start, and concurrent workers | `ids` (the `last_id` of every `'txn_id'` row), `prepared`, `pc`, `got`, `issued`, `restarts` | `Prepare`, `SelectStmt`, `UpdateStmt`, `UpdateStmtFails`, `Restart` |
| `RoomUpdater` | one room row and concurrent updater transactions | committed `latest`, `lastSent`, `snapshot`, `stored`, `nextSnap`, `lockHolder`, and per writer `upc`, `uev` and the read and written values | `SelectLatestEventsNIDsForUpdate`, `UpdateLatestEventNIDs`, `Commit`, `Rollback` |
| `StateSnapshotTable` | the SQLite snapshot table through `database/sql` | `snaps` (each row's stored array text), `lastNID`, `got` (the last `insertState` result), `request`, `answer`, `atCall` | `InsertState`, `BulkSelectStateBlockNIDs` |
| `GetEvent` | one call of the handler, over every answer the roomserver can give | `pathRoom`, `rsAnswer`, `response` | `GetEventCall` |
| `Routing` | the route table of `Setup` and gorilla/mux dispatch | `req`, `resp` (the request served and which handler, with which arguments, answered it) | `ServeHTTP` |
| `ClientAPI` | routing composed with GetEvent: the room of the path is the one the router extracted | the above, `rsAnswer`, `response` | `ServeRequest`, `RoomserverAnswers`, `HandleGetEvent` |
| `RoomEvents` | what the room updaters promise: each event processed atomically once its prev events are stored | `events`, `extremities`, `sent` | `ProcessEvent` |

The `MC_*` modules give the constants model values. `OutputRoomEventsProofs`, `SyncReaderProofs` (the sync readers of `OutputRoomEvents`), `RoomUpdaterProofs`, `AppserviceTxnCounterProofs` and `GetEventProofs` hold the proofs.

**Routing.** `Routing` writes each route of `Setup` as a record: the router, the template (a sequence of literal segments, `{var}` segments, the regexp alternatives `{membership:(?:join|kick|ban|unban|invite)}` and `{path:(?:account/3pid|register)}`, and the `{eventType:[^/]+/?}` variable), the methods, the wrapper and the handler's arguments, including the trailing-slash trim of the state routes (`strings.HasSuffix(eventType, "/")`, then the last character sliced off) and the `false`/`true` flags of the membership routes. The gorilla/mux behaviour is modelled from its documentation, since it is not under `src/`: templates are anchored, the first route matching path and method wins, otherwise 405 when some route matched the path and 404 when none did. The JSON wrappers (`MakeAuthAPI`, `MakeExternalAPI`, in `internal/`, also not under `src/`) answer `OPTIONS` themselves, and a path variable that does not URL-decode gives an error before the handler runs. Path values are model values: one room or user value, a second one, and one that fails to decode (`%zz`). The requests are every instance of every template, each with a trailing slash too, and two probe paths (`/rooms/a/forget`, `/rooms/a/joined`, which no template matches), with every method on every router. Templates that can match the same path, such as the state routes with and without a key, or `/rooms/{roomID}/{membership}` beside the other `/rooms/{roomID}/...` routes, are exercised on every such path. `PROJECT.json` maps every modelling definition to the source lines it translates.

Some code the models need is not under `src/`. It is modelled from `spec.md` and marked `spec_modelled` in the map:
- the callers' transaction commit and rollback;
- the sync stream loop;
- `types.Range`;
- the updater's computation of extremities and state;
- process restart;
- the callers' deduplication of snapshot NIDs.

**SQLite driver.** The snapshot table runs on `database/sql` with the SQLite driver, which is not under `src/` either. The model uses two of its behaviours.
- A prepared statement is compiled from the first statement of its string, and the rest is kept as a tail that is never executed. So `QueryRowContext` on `insertStateSQL` runs only the INSERT. The row is written, the INSERT returns no row, and `Scan` returns `sql.ErrNoRows`. Read as two statements, `Scan` would still see the INSERT's empty result first.
- `pq.Int64Array(nids)` is a `driver.Valuer` whose value is the array text `'{1,2}'`, bound as TEXT. `IN ($1)` is then a comparison with that one value. Applying INTEGER affinity cannot turn an array literal into a number, and an INTEGER never equals a TEXT.

## Runs

| Run | Expect | What it shows |
|---|---|---|
| `sync_log` | pass | Two writers store three live events, each possibly twice. Two rooms' sync streams read concurrently, with `MaxStreamID` 4 and `Limit` 1. It checks `NoMissedSyncEvent`, `ExactlyOnceDelivery`, `CommitsInPositionOrder` (an action property), `EventuallyDelivered` (liveness) and `RefinesOutputLog` (refinement of `OutputLog`). |
| `insert_position` | violation | A second InsertEvent of the same event returns a new position while the row keeps its old one, against spec section 8. |
| `contains_url` | violation | `contains_url` is false for content with a `url` key: the key is looked up only when `json.Unmarshal` fails. |
| `txn_bounded` | pass | Two workers and one restart: an ID is handed out at most `(restarts+1)·|Workers|` times. This bound is what the code really gives. |
| `txn_unique` | violation | An ID is handed out twice. The shortest trace has two workers SELECT the same `last_id` before either UPDATE, because there is no transaction between them. The same state space also holds the restart path: with `last_id` as the primary key, `INSERT OR IGNORE` at restart adds a second row, and ID 1 is issued again (with one worker, that is the only path). |
| `room_updater` | pass | Two updaters process a forked history of five events (1 ← 2 ← {3, 4, 5}). `latest_event_nids` is always exactly the set of forward extremities, a commit never moves `state_snapshot_nid` back to an older snapshot (`SnapshotNeverRegresses`, an action property), and the updaters implement `RoomEvents` (`RefinesRoomEvents`, with `stored`, `latest` and `lastSent` as `events`, `extremities` and `sent`). |
| `state_fold` | pass | Every log of at most 3 rows over 2 rooms and 2 state IDs, every range in both directions, and limits 1 and 3: the `needSet` marks needed exactly the IDs whose last mention adds them. |
| `state_rows_only` | violation | Rows without a delta are stored as the text `null`, pass `IS NOT NULL`, are returned, and count against the limit. |
| `route_table` | pass | Every request the model enumerates, on every router: each state-event form (with and without a key, with a trailing slash) reaches the handler with the trimmed event type and the key; each membership action reaches its handler and nothing else does; no route is shadowed by an earlier one for a request it accepts (`NoShadowedRoute`); and GetEvent, reached through the router, serves an event only to a joined user. |
| `get_event_room` | violation | Reached through the router, GetEvent can return an event of a room other than the one in the path: membership is checked in the event's own room. |
| `preflight` | violation | A CORS preflight `OPTIONS /capabilities` gets 405: that route is registered for `GET` only, while `Setup` relies on the wrappers answering `OPTIONS`. |
| `snapshot_lookup` | violation | The snapshot lookup fails even when every snapshot it asks for exists. In the trace, `insertState` writes row 1 and returns `sql.ErrNoRows`, and then a lookup of NID 1 fails with "state NIDs missing": the NID list reaches SQLite as the text `'{1}'`, which matches no row. The spec (section 4.3) allows that error only for a missing NID. The trace also shows the `insertState` bug: the snapshot is stored, yet the caller gets an error instead of its NID. |

Every passing run has at least one mutant in `PROJECT.json`. A mutant is a plausible bug in a mapped definition that TLC catches under the run's own configuration. Examples are a lock that is not taken, a range that excludes its high end, an `ORDER BY` that is reversed, and a trailing-slash trim that is missing.

**Bounds.**
- `sync_log` allows four positions for three events. That is enough for a re-store, a rollback that leaves a gap, and two transactions in flight.
- With `Limit` 1, a batch can be limited.
- `txn_bounded` lets `last_id` reach 6, which is enough for a restart after the counter has moved and for both workers to interleave afterwards.
- The room updater history contains a fork, a merge of extremities, and non-state events.

**Deadlock.** Deadlock checking is off only where the system really stops:
- after its single call (`SyncStateInRange`, and the routed request of `route_table`);
- when every event of the room is stored (`room_updater`);
- when `last_id` reaches its bound (`txn_bounded`).

**Fairness.** `OutputRoomEvents` assumes weak fairness for two things:
- a started transaction eventually inserts and then commits or rolls back (the caller's code runs to the end of its transaction);
- every room's sync stream keeps polling (the client long-polls `/sync`).

There is no fairness on starting a new write. `EventuallyDelivered` is the only liveness property, and it rests on these two assumptions.

## Proofs

`tlapm` checks every proof. TLC checks the same formulas on the instances above.

**`OutputRoomEventsProofs`**
- `IInv == TypeOK /\ LockInv /\ RowsBelowCounter` is the inductive invariant.
  - `LockInv` says that a writer has a transaction in progress exactly when it holds the counter row lock, that its position is `counter + 1`, and that its uncommitted row is the upsert of its event.
  - `RowsBelowCounter` says that every committed row lies at or below `counter`.
- `TypeOK` alone is not inductive. Without `LockInv`, two writers could both hold position `counter + 1`.
- `InitIInv` and `NextIInv` are proved with one step per action and one sub-step per conjunct.
- `InductiveInvariant` (`Spec => []IInv`) and `TypeCorrect` follow from them.
- `PositionOrder` proves the action property `CommitsInPositionOrder`. It goes through `NextNewRowsAbove`: a committed row takes position `counter + 1`, and the invariant puts every visible row below that.
- `Refinement` proves `Spec => RefinesOutputLog`.
  - Under the identity mapping on `counter` and `rows`, `Commit` is an `AppendEvent` (`CommitIsAppend`).
  - Every other action is a stutter.

**`SyncReaderProofs`** (extends `OutputRoomEventsProofs`)
- `RInv == IInv /\ ReaderInv` is the reader invariant. `ReaderInv` says three things:
  - a reader's `since` is 0 or the position of a committed row, at or below `counter`;
  - between `SelectMaxEventID` and the fetch, the maximum it read lies between `since` and `counter` and is such a position too;
  - every event it returned is committed, lies at or below `since`, and was returned exactly once.
- The argument:
  - Committed rows never move (`RowsStable`), and a new row appears at `counter + 1`.
  - `SelectMaxEventID` is at most `counter` (`SelectMaxFacts`).
  - So the range `(since, max]` of a fetch lies above everything returned before. No event is returned twice.
- `ReaderInvariant` proves `Spec => []RInv`. `ExactlyOnce` proves `Spec => []ExactlyOnceDelivery` from it, for every value of the constants, exclusions included.
- `NoMissedLive` proves `Spec => []NoMissedSyncEvent` under the hypothesis `LiveOnly` (`ExcludeChoices = {FALSE}`). The `sync_log` run uses the same constant.
  - The strengthening is `NInv == RInv /\ NoExcluded /\ DistinctPos /\ NoMissedSyncEvent`.
  - `DistinctPos` says that committed rows have distinct positions. Each commit takes `counter + 1`, and every visible row is at or below `counter`.
  - The heart of the proof is the limited batch. `SelectRecentEvents` keeps the rows of the range with fewer than `Limit` rows above them (`Top`).
  - For any finite set of rows with distinct positions, a row left out lies below every row of the batch (`TopOrder`). The batch then holds exactly `Limit` rows (`TopFull`, from a least and a greatest element via well-founded minimality).
  - So the gap `SyncFetch` records covers every row of the range that was not returned.
  - The hypothesis is needed, not just convenient. With exclusions, the upsert keeps a re-stored row's old position below a reader's `since`; this is the backfill hazard listed in `PROJECT.json`.

**`RoomUpdaterProofs`**
- `IInv == TypeOK /\ LockInv /\ PrevClosed /\ LatestAreExtremities /\ EmptyRow`.
  - `LockInv` says that the writer holding the row lock read the committed row, and that what it wrote is computed from that row.
  - `PrevClosed` says that stored events have their prev events stored.
  - `EmptyRow` says that `latest_event_nids` is empty, and `state_snapshot_nid` is 0, exactly while no event is stored. The lock holder's written snapshot is nonzero because of it.
- `LatestAreExtremities` is not inductive alone, because it needs the lock fact. `ExtremitiesStep` shows that adding a processable event to the stored set changes the extremities as `ForwardExtremities` does.
- `LatestEventsCorrect` proves `Spec => []LatestAreExtremities`, and `UpdaterTypeCorrect` proves `Spec => []TypeOK`.
- `SnapshotMonotone` proves the action property `Spec => SnapshotNeverRegresses`. It uses a second invariant, `SnapOrder`: the committed snapshot is at most `nextSnap`, the last allocated NID, and the snapshot the lock holder has written but not committed lies between the two. `LockInv` gives the holder's read as the committed snapshot. A state event gets `nextSnap + 1`, and any other event writes back what it read, so the commit never lowers the snapshot. Without the lock, `LockInv` fails: two updaters that read the same row commit in either order, and TLC shows the snapshot going back.

- `RoomRefinement` proves `Spec => RefinesRoomEvents`. A `Commit` of the lock holder is a `ProcessEvent` of its event (`CommitIsProcessEvent`, using `LockInv` and `LatestAreExtremities`); every other step leaves `stored`, `latest` and `lastSent` alone and is a stutter (`NextRefinesRoomLog`).

**`AppserviceTxnCounterProofs`**
- `DuplicatesBounded` (an ID is issued at most `(restarts+1)·|Workers|` times) is not inductive. The strengthening `IInv == TypeOK /\ RowsBound /\ IssuedBound` counts rows:
  - `RowsBound`: there are at most `restarts` rows, plus one once `prepare` has run since the last start.
  - `IssuedBound`: at an ID `i` that some row holds, `issued[i]` is at most `|Workers|` times the number of rows above `i`; at an ID no row holds, `issued[i]` plus the scans of `i` still waiting for their UPDATE is.
- The argument: an UPDATE moves every row up by one (`ShiftCardinality`, `ShiftAbove`: after the move, the rows above `i` are those that were at or above `i`), so every row holds each value for one stretch of time, and during a stretch each worker scans it at most once before its own UPDATE. A SELECT only scans a held value, a restart drops every waiting scan, and `prepare` adds row 1, above which nothing changes.
- `TxnTypeCorrect` proves `Spec => []TypeOK`, and `TxnDuplicatesBounded` proves `Spec => []DuplicatesBounded` from `IInv` (`IInvBounded`).

**`GetEventProofs`**
- `CallServesOnlyJoined`: on any answer in `Answer`, `GetEventCall` returns 200 only if both queries succeeded, the event and its prev events exist, and the member set is exactly `{"join"}`. At most one member event is returned, so `"join" \in member` fixes it.
- `ServedOnlyToJoinedCorrect` proves `Spec => []ServedOnlyToJoined` for the handler alone.
- `ClientAPI`'s `HandleGetEvent` is `GE!GetEventCall` on an answer in `GE!Answer`, so this is the step behind `EventServedOnlyToJoined`. That property itself stays with TLC (see below).

**Assumptions.** The proofs rest on the named constant assumptions, `ConstantsAssumption`, `UpdaterAssumption`, and `CounterAssumption`:
- the event set is nonempty and finite (a table holds finitely many rows);
- `Prev` maps events to sets of events;
- an event without prev events is a state event (the create event);
- the bounds are natural numbers, and the set of appservice workers is finite;
- `NoWriter` is not a writer.

**Only model-checked.** TLAPS cannot prove liveness or reason about `ENABLED`, so `EventuallyDelivered` stays with TLC. The following are also model-checked only:
- `NoMissedSyncEvent` when excluded rows are stored. It does not hold there, as explained above.
- `NeededIsLastWrite`. It is about `FoldLeft` over every write log, which would need induction over sequences, and the provers cannot instantiate the library's induction theorems.
- `BulkLookupCorrect` is not proved: the code violates it (`snapshot_lookup`).
- The routing properties and `EventServedOnlyToJoined` as `ClientAPI` states it. `Routing` is written with RECURSIVE operators (template matching and instance enumeration), and a module that reaches one loses the SMT backend. `GetEventProofs` proves the handler's half.

## Not modelled

- `unnamed/part_000` wires up the federation API.
- `unnamed/part_002` and `appservice/storage/storage.go` choose a database implementation from the URL.
- `build/docker/docker-compose.deps-mysql.yml` is deployment configuration.

None of these holds state that a step of the system changes. `InsertRoomNID` and the room-version lookups of the rooms table are not modelled either: the updater model starts from an existing room row.
