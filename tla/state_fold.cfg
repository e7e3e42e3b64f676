\* Logs of up to three rows over two rooms and two state IDs.
CONSTANTS
    r1 = r1  r2 = r2  a = a  b = b
    JsonNull = JsonNull
    NoResult = NoResult
    Rooms <- MCRooms
    StateIDs <- MCStateIDs
    MaxRows = 3
    Limits = {1, 3}
SPECIFICATION Spec
\* One call of SelectStateInRange; it returns and the model stops.
CHECK_DEADLOCK FALSE
INVARIANT NeededIsLastWrite
