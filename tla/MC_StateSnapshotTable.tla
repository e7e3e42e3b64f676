------------------------ MODULE MC_StateSnapshotTable ------------------------
EXTENDS StateSnapshotTable

CONSTANTS b1, b2

(* Block lists of zero, one and two blocks (an empty state is a snapshot). *)
MCBlockLists == {<<>>, <<b1>>, <<b1, b2>>}

=============================================================================
