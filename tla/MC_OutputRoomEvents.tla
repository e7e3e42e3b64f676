------------------------ MODULE MC_OutputRoomEvents -------------------------
(* Small instance: two writers, three events in two rooms, one event with *)
(* a url.                                                                  *)
EXTENDS OutputRoomEvents

CONSTANTS w1, w2, e1, e2, e3, r1, r2

MCWriters == {w1, w2}
MCEvents == {e1, e2, e3}
MCRooms == {r1, r2}
MCRoomOf == [e \in MCEvents |-> IF e = e3 THEN r2 ELSE r1]
MCHasURL == [e \in MCEvents |-> e = e1]

=============================================================================
