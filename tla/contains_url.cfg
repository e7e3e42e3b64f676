\* Live events, one of them with a url key in its content.
CONSTANTS
    w1 = w1  w2 = w2  e1 = e1  e2 = e2  e3 = e3  r1 = r1  r2 = r2
    NoWriter = NoWriter
    Writers <- MCWriters
    Events <- MCEvents
    Rooms <- MCRooms
    RoomOf <- MCRoomOf
    HasURL <- MCHasURL
    ExcludeChoices = {FALSE}
    MaxStreamID = 3
    Limit = 1
SPECIFICATION Spec
INVARIANT RowURLFlagMatchesContent
