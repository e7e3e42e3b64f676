\* Two updaters, the forked history of spec section 8.
CONSTANTS
    w1 = w1  w2 = w2
    NoWriter = NoWriter
    Writers <- MCWriters
    Events <- MCEvents
    Prev <- MCPrev
    StateEvents <- MCStateEvents
    MaxSnapshot = 4
SPECIFICATION Spec
\* Processing stops once every input event of the room is stored.
CHECK_DEADLOCK FALSE
INVARIANT TypeOK
INVARIANT LatestAreExtremities
PROPERTY SnapshotNeverRegresses
PROPERTY RefinesRoomEvents
