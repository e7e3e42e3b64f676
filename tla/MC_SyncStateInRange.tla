------------------------ MODULE MC_SyncStateInRange ------------------------
EXTENDS SyncStateInRange

CONSTANTS r1, r2, a, b

MCRooms == {r1, r2}

MCStateIDs == {a, b}

=============================================================================
