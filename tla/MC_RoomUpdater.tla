--------------------------- MODULE MC_RoomUpdater ---------------------------
(* The room of spec section 8: create (1), a join (2), two concurrent name *)
(* changes on the join (3, 4) and a message on the join (5).               *)
EXTENDS RoomUpdater, TLC

CONSTANTS w1, w2

MCWriters == {w1, w2}

MCEvents == 1..5

MCPrev == (1 :> {}) @@ (2 :> {1}) @@ (3 :> {2}) @@ (4 :> {2}) @@ (5 :> {2})

MCStateEvents == {1, 2, 3, 4}

=============================================================================
