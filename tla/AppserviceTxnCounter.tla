------------------------ MODULE AppserviceTxnCounter ------------------------
(***************************************************************************)
(* The appservice_counters table of the application-service storage and   *)
(* selectTxnID, which hands each outgoing transaction to an application   *)
(* service its ID.                                                        *)
(*                                                                         *)
(* prepare runs txnIDSchema at every start of the process: CREATE TABLE IF *)
(* NOT EXISTS, then INSERT OR IGNORE of the row ('txn_id', 1).  The table's *)
(* primary key is last_id, not name, so the insert is ignored only while a *)
(* row with last_id = 1 exists.  selectTxnID is one statement string       *)
(* holding two statements, a SELECT of last_id and an UPDATE that adds one *)
(* to it, run outside any transaction; QueryRow scans the first row of the *)
(* SELECT.  Each application service has a worker goroutine of its own    *)
(* that calls it.                                                          *)
(*                                                                         *)
(* The rows named 'txn_id' are modelled by the set of their last_id        *)
(* values (the primary key makes them distinct).                           *)
(***************************************************************************)
EXTENDS Naturals, FiniteSets

CONSTANTS
    Workers,     \* appservice worker goroutines calling selectTxnID
    MaxID,       \* bound on last_id
    MaxRestarts  \* bound on process restarts

ASSUME CounterAssumption ==
    /\ IsFiniteSet(Workers)
    /\ MaxID \in Nat \ {0}
    /\ MaxRestarts \in Nat

VARIABLES
    ids,       \* last_id of every row named 'txn_id'
    prepared,  \* txnStatements.prepare has run since the last start
    pc,        \* per worker: "idle", or "selected" between SELECT and UPDATE
    got,       \* per worker: the last_id its SELECT scanned
    issued,    \* per ID: how many selectTxnID calls returned it
    restarts   \* process restarts so far

vars == <<ids, prepared, pc, got, issued, restarts>>

ID == 1..MaxID

Init ==
    /\ ids = {}
    /\ prepared = FALSE
    /\ pc = [w \in Workers |-> "idle"]
    /\ got = [w \in Workers |-> 1]
    /\ issued = [i \in ID |-> 0]
    /\ restarts = 0

(* txnIDSchema: INSERT OR IGNORE conflicts on the primary key last_id.     *)
Prepare ==
    /\ ~prepared
    /\ ids' = ids \cup {1}
    /\ prepared' = TRUE
    /\ UNCHANGED <<pc, got, issued, restarts>>

(* Mutant of SelectStmt: the worker reads a value one below the row's.    *)
SelectStmtOffByOne(w) ==
    /\ prepared
    /\ pc[w] = "idle"
    /\ \E i \in ids : got' = [got EXCEPT ![w] = i - 1]
    /\ pc' = [pc EXCEPT ![w] = "selected"]
    /\ UNCHANGED <<ids, prepared, issued, restarts>>

(* The SELECT of selectTxnIDSQL; QueryRow scans the first row, and with   *)
(* several rows named 'txn_id' which one comes first is unspecified.      *)
SelectStmt(w) ==
    /\ prepared
    /\ pc[w] = "idle"
    /\ \E i \in ids : got' = [got EXCEPT ![w] = i]
    /\ pc' = [pc EXCEPT ![w] = "selected"]
    /\ UNCHANGED <<ids, prepared, issued, restarts>>

(* Two rows whose last_id values are adjacent: the UPDATE of one of them  *)
(* to the other's value violates the primary key unless the engine       *)
(* happens to update the higher one first.                                *)
Adjacent == \E i \in ids : i + 1 \in ids

(* Mutant of UpdateStmt: the UPDATE matches no row.                       *)
UpdateStmtNoMatch(w) ==
    /\ pc[w] = "selected"
    /\ \A i \in ids : i < MaxID
    /\ UNCHANGED ids
    /\ issued' = [issued EXCEPT ![got[w]] = @ + 1]
    /\ pc' = [pc EXCEPT ![w] = "idle"]
    /\ UNCHANGED <<prepared, got, restarts>>

(* The UPDATE of selectTxnIDSQL adds one to last_id of every 'txn_id' row; *)
(* selectTxnID returns the scanned ID.                                    *)
UpdateStmt(w) ==
    /\ pc[w] = "selected"
    /\ \A i \in ids : i < MaxID
    /\ ids' = {i + 1 : i \in ids}
    /\ issued' = [issued EXCEPT ![got[w]] = @ + 1]
    /\ pc' = [pc EXCEPT ![w] = "idle"]
    /\ UNCHANGED <<prepared, got, restarts>>

(* ... or the UPDATE fails on the primary key and selectTxnID returns the *)
(* error; no ID is handed out.                                            *)
UpdateStmtFails(w) ==
    /\ pc[w] = "selected"
    /\ Adjacent
    /\ pc' = [pc EXCEPT ![w] = "idle"]
    /\ UNCHANGED <<ids, prepared, got, issued, restarts>>

(* The process stops and starts again: calls in flight are lost, the      *)
(* table persists and prepare runs again.                                 *)
Restart ==
    /\ restarts < MaxRestarts
    /\ prepared' = FALSE
    /\ pc' = [w \in Workers |-> "idle"]
    /\ restarts' = restarts + 1
    /\ UNCHANGED <<ids, got, issued>>

Next ==
    \/ Prepare
    \/ Restart
    \/ \E w \in Workers : SelectStmt(w) \/ UpdateStmt(w) \/ UpdateStmtFails(w)

Spec == Init /\ [][Next]_vars

-----------------------------------------------------------------------------
TypeOK ==
    /\ ids \subseteq ID
    /\ prepared \in BOOLEAN
    /\ pc \in [Workers -> {"idle", "selected"}]
    /\ got \in [Workers -> ID]
    /\ issued \in [ID -> Nat]
    /\ restarts \in 0..MaxRestarts

(* selectTxnID never hands out the same transaction ID twice ("selects    *)
(* the latest ascending transaction ID"): application services drop a    *)
(* transaction whose ID they have already processed.                      *)
TxnIDsUnique == \A i \in ID : issued[i] <= 1

(* How far selectTxnID is from that: an ID is handed out at most once per  *)
(* row and per worker.  Each row's last_id only grows, a restart adds at   *)
(* most one row, and while a row holds a value every worker can scan it    *)
(* at most once before its own UPDATE moves the row on.                    *)
DuplicatesBounded ==
    \A i \in ID : issued[i] <= (restarts + 1) * Cardinality(Workers)

=============================================================================
