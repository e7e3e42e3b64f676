\* Every instance of every template, with and without a trailing slash, on
\* every router and with every method, each served once; GetEvent behind it.
CONSTANTS
    VarValues <- MCVarValues
    BadEscapes <- MCBadEscapes
    ExtraPaths <- MCExtraPaths
    Memberships <- MCMemberships
    Nil = Nil
    NoRequest = NoRequest
    BadContent = BadContent
    NoResponse = NoResponse
SPECIFICATION CSpec
\* One request is served; then the model stops.
CHECK_DEADLOCK FALSE
INVARIANT StateEventRouting
INVARIANT MembershipRouting
INVARIANT NoShadowedRoute
INVARIANT EventServedOnlyToJoined
