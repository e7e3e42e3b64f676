------------------------------- MODULE Routing -------------------------------
(***************************************************************************)
(* The client API's route table (clientapi/routing/routing.go, Setup) and *)
(* how the gorilla/mux router dispatches a request over it.               *)
(*                                                                         *)
(* Setup registers a handler per path template and set of methods on the  *)
(* root router and on the /client/r0, /client/api/v1 and /client/unstable *)
(* subrouters.  The router tries the routes in registration order: the    *)
(* first one whose template matches the path and whose methods include    *)
(* the request's method handles it; if none does, the answer is 405 when  *)
(* some route matched the path alone, and 404 otherwise.  A template      *)
(* variable matches one nonempty path segment ([^/]+) unless it carries   *)
(* its own pattern.  Most handlers URL-decode the variables first and     *)
(* answer with an error when that fails; then they call the operation     *)
(* with the decoded values.  The JSON wrappers (MakeAuthAPI,              *)
(* MakeExternalAPI) answer OPTIONS themselves, for CORS preflight.        *)
(*                                                                         *)
(* A path is the sequence of its segments: /a/b is <<"a", "b">> and a     *)
(* trailing slash is a last empty segment.  One step serves one request;  *)
(* the router holds no state between requests.                            *)
(***************************************************************************)
EXTENDS Naturals, Sequences, SequencesExt, TLC

CONSTANTS
    VarValues,    \* the path segment values requests put in variables
    BadEscapes,   \* the values among them that fail URL decoding
    ExtraPaths,   \* further request paths, beyond the instances of templates
    Nil,          \* a nil pointer argument
    NoRequest     \* no request served yet

VARIABLES
    req,   \* the request served: [mux, method, path]
    resp   \* how it was answered

vars == <<req, resp>>

Muxes == {"root", "r0", "v1", "unstable"}
Methods == {"GET", "POST", "PUT", "DELETE", "OPTIONS"}

(* Template elements: a literal segment, a [^/]+ variable, a variable     *)
(* with an alternation of fixed texts, and the [^/]+/? variable.           *)
L(s) == [kind |-> "lit", name |-> s]
V(n) == [kind |-> "var", name |-> n]
Alt(n, ws) == [kind |-> "alt", name |-> n, words |-> ws]
SlashV(n) == [kind |-> "slash", name |-> n]

(* Handler arguments: a decoded variable, a literal, a variable with a    *)
(* trailing slash removed.                                                 *)
A(n) == [kind |-> "var", name |-> n]
K(x) == [kind |-> "lit", val |-> x]
Trimmed(n) == [kind |-> "trim", name |-> n]

Rt(mux, tpl, methods, wrap, handler, args, decodes) ==
    [mux |-> mux, tpl |-> tpl, methods |-> methods, wrap |-> wrap,
     handler |-> handler, args |-> args, decodes |-> decodes]

Json == "json"
Html == "html"

(* The text a variable captures: its segments joined with "/".            *)
JoinSegs(w) == FoldLeft(LAMBDA acc, s : acc \o "/" \o s, Head(w), Tail(w))

(* Whether the segments w are a word of element e's pattern.              *)
InPattern(e, w) ==
    CASE e.kind = "lit"   -> w = <<e.name>>
      [] e.kind = "var"   -> Len(w) = 1 /\ w[1] # ""
      [] e.kind = "alt"   -> w \in e.words
      [] e.kind = "slash" -> \/ Len(w) = 1 /\ w[1] # ""
                             \/ Len(w) = 2 /\ w[1] # "" /\ w[2] = ""

NoVars == [n \in {} |-> ""]

Capture(e, w) == IF e.kind = "lit" THEN NoVars ELSE e.name :> JoinSegs(w)

(* The variable bindings under which template tpl matches the whole of    *)
(* path p (the template's regexp is anchored at both ends).               *)
RECURSIVE Matches(_, _)
Matches(tpl, p) ==
    IF tpl = <<>> THEN (IF p = <<>> THEN {NoVars} ELSE {})
    ELSE UNION {{Capture(Head(tpl), SubSeq(p, 1, k)) @@ b :
                    b \in Matches(Tail(tpl), SubSeq(p, k + 1, Len(p)))} :
                k \in {j \in 1..Len(p) : InPattern(Head(tpl), SubSeq(p, 1, j))}}

(* Mutant of MembershipVar: the pattern is left off, {membership}.         *)
MembershipVarUnrestricted == V("membership")

(* {membership:(?:join|kick|ban|unban|invite)}                             *)
MembershipVar ==
    Alt("membership", {<<"join">>, <<"kick">>, <<"ban">>, <<"unban">>, <<"invite">>})

(* {eventType:[^/]+/?}                                                     *)
StateEventTypeVar == SlashV("eventType")

(* Mutant of TrimSlash: the trailing slash is kept.                         *)
TrimSlashMissing(v) == v

(* If there's a trailing slash, remove it.                                *)
TrimSlash(v) ==
    IF Len(v) > 0 /\ SubSeq(v, Len(v), Len(v)) = "/"
    THEN SubSeq(v, 1, Len(v) - 1) ELSE v

(* /client/versions on the root router, then the r0 room routes.          *)
RoomRoutes == <<
    Rt("root", <<L("client"), L("versions")>>, {"GET", "OPTIONS"}, Json, "versions", <<>>, FALSE),
    Rt("r0", <<L("createRoom")>>, {"POST", "OPTIONS"}, Json, "CreateRoom", <<>>, FALSE),
    Rt("r0", <<L("join"), V("roomIDOrAlias")>>, {"POST", "OPTIONS"}, Json,
       "JoinRoomByIDOrAlias", <<A("roomIDOrAlias")>>, TRUE),
    Rt("r0", <<L("joined_rooms")>>, {"GET", "OPTIONS"}, Json, "GetJoinedRooms", <<>>, FALSE),
    Rt("r0", <<L("rooms"), V("roomID"), L("leave")>>, {"POST", "OPTIONS"}, Json,
       "LeaveRoomByID", <<A("roomID")>>, TRUE),
    Rt("r0", <<L("rooms"), V("roomID"), MembershipVar>>, {"POST", "OPTIONS"}, Json,
       "SendMembership", <<A("roomID"), A("membership")>>, TRUE),
    Rt("r0", <<L("rooms"), V("roomID"), L("send"), V("eventType")>>, {"POST", "OPTIONS"}, Json,
       "SendEvent", <<A("roomID"), A("eventType"), K(Nil), K(Nil)>>, TRUE),
    Rt("r0", <<L("rooms"), V("roomID"), L("send"), V("eventType"), V("txnID")>>, {"PUT", "OPTIONS"}, Json,
       "SendEvent", <<A("roomID"), A("eventType"), A("txnID"), K(Nil)>>, TRUE),
    Rt("r0", <<L("rooms"), V("roomID"), L("event"), V("eventID")>>, {"GET", "OPTIONS"}, Json,
       "GetEvent", <<A("roomID"), A("eventID")>>, TRUE),
    Rt("r0", <<L("rooms"), V("roomID"), L("state")>>, {"GET", "OPTIONS"}, Json,
       "OnIncomingStateRequest", <<A("roomID")>>, TRUE),
    Rt("r0", <<L("rooms"), V("roomID"), L("state"), V("type")>>, {"GET", "OPTIONS"}, Json,
       "OnIncomingStateTypeRequest", <<A("roomID"), A("type"), K("")>>, TRUE),
    Rt("r0", <<L("rooms"), V("roomID"), L("state"), V("type"), V("stateKey")>>, {"GET", "OPTIONS"}, Json,
       "OnIncomingStateTypeRequest", <<A("roomID"), A("type"), A("stateKey")>>, TRUE),
    Rt("r0", <<L("rooms"), V("roomID"), L("state"), StateEventTypeVar>>, {"PUT", "OPTIONS"}, Json,
       "SendEvent", <<A("roomID"), Trimmed("eventType"), K(Nil), K("")>>, TRUE),
    Rt("r0", <<L("rooms"), V("roomID"), L("state"), V("eventType"), V("stateKey")>>, {"PUT", "OPTIONS"}, Json,
       "SendEvent", <<A("roomID"), A("eventType"), K(Nil), A("stateKey")>>, TRUE)
    >>

(* Registration, directory, logout, typing, to-device, login routes.      *)
AccountRoutes == <<
    Rt("r0", <<L("register")>>, {"POST", "OPTIONS"}, Json, "Register", <<>>, FALSE),
    Rt("v1", <<L("register")>>, {"POST", "OPTIONS"}, Json, "LegacyRegister", <<>>, FALSE),
    Rt("r0", <<L("register"), L("available")>>, {"GET", "OPTIONS"}, Json, "RegisterAvailable", <<>>, FALSE),
    Rt("r0", <<L("directory"), L("room"), V("roomAlias")>>, {"GET", "OPTIONS"}, Json,
       "DirectoryRoom", <<A("roomAlias")>>, TRUE),
    Rt("r0", <<L("directory"), L("room"), V("roomAlias")>>, {"PUT", "OPTIONS"}, Json,
       "SetLocalAlias", <<A("roomAlias")>>, TRUE),
    Rt("r0", <<L("directory"), L("room"), V("roomAlias")>>, {"DELETE", "OPTIONS"}, Json,
       "RemoveLocalAlias", <<A("roomAlias")>>, TRUE),
    Rt("r0", <<L("logout")>>, {"POST", "OPTIONS"}, Json, "Logout", <<>>, FALSE),
    Rt("r0", <<L("logout"), L("all")>>, {"POST", "OPTIONS"}, Json, "LogoutAll", <<>>, FALSE),
    Rt("r0", <<L("rooms"), V("roomID"), L("typing"), V("userID")>>, {"PUT", "OPTIONS"}, Json,
       "SendTyping", <<A("roomID"), A("userID")>>, TRUE),
    Rt("r0", <<L("sendToDevice"), V("eventType"), V("txnID")>>, {"PUT", "OPTIONS"}, Json,
       "SendToDevice", <<A("eventType"), A("txnID")>>, TRUE),
    Rt("unstable", <<L("sendToDevice"), V("eventType"), V("txnID")>>, {"PUT", "OPTIONS"}, Json,
       "SendToDevice", <<A("eventType"), A("txnID")>>, TRUE),
    Rt("r0", <<L("account"), L("whoami")>>, {"GET", "OPTIONS"}, Json, "Whoami", <<>>, FALSE),
    Rt("r0", <<L("login")>>, {"GET", "POST", "OPTIONS"}, Json, "Login", <<>>, FALSE),
    Rt("r0", <<L("auth"), V("authType"), L("fallback"), L("web")>>, {"GET", "POST", "OPTIONS"}, Html,
       "AuthFallback", <<A("authType")>>, FALSE)
    >>

(* {path:(?:account/3pid|register)}                                        *)
ThreePIDPathVar == Alt("path", {<<"account", "3pid">>, <<"register">>})

(* Push rules, filters, profile, 3PID and stub routes.                    *)
ProfileRoutes == <<
    Rt("r0", <<L("pushrules"), L("")>>, {"GET", "OPTIONS"}, Json, "push_rules", <<>>, FALSE),
    Rt("r0", <<L("user"), V("userId"), L("filter")>>, {"POST", "OPTIONS"}, Json,
       "PutFilter", <<A("userId")>>, TRUE),
    Rt("r0", <<L("user"), V("userId"), L("filter"), V("filterId")>>, {"GET", "OPTIONS"}, Json,
       "GetFilter", <<A("userId"), A("filterId")>>, TRUE),
    Rt("r0", <<L("profile"), V("userID")>>, {"GET", "OPTIONS"}, Json, "GetProfile", <<A("userID")>>, TRUE),
    Rt("r0", <<L("profile"), V("userID"), L("avatar_url")>>, {"GET", "OPTIONS"}, Json,
       "GetAvatarURL", <<A("userID")>>, TRUE),
    Rt("r0", <<L("profile"), V("userID"), L("avatar_url")>>, {"PUT", "OPTIONS"}, Json,
       "SetAvatarURL", <<A("userID")>>, TRUE),
    Rt("r0", <<L("profile"), V("userID"), L("displayname")>>, {"GET", "OPTIONS"}, Json,
       "GetDisplayName", <<A("userID")>>, TRUE),
    Rt("r0", <<L("profile"), V("userID"), L("displayname")>>, {"PUT", "OPTIONS"}, Json,
       "SetDisplayName", <<A("userID")>>, TRUE),
    Rt("r0", <<L("account"), L("3pid")>>, {"GET", "OPTIONS"}, Json, "GetAssociated3PIDs", <<>>, FALSE),
    Rt("r0", <<L("account"), L("3pid")>>, {"POST", "OPTIONS"}, Json,
       "CheckAndSave3PIDAssociation", <<>>, FALSE),
    Rt("unstable", <<L("account"), L("3pid"), L("delete")>>, {"POST", "OPTIONS"}, Json,
       "Forget3PID", <<>>, FALSE),
    Rt("r0", <<ThreePIDPathVar, L("email"), L("requestToken")>>, {"POST", "OPTIONS"}, Json,
       "RequestEmailToken", <<>>, FALSE),
    Rt("r0", <<L("presence"), V("userID"), L("status")>>, {"PUT", "OPTIONS"}, Json, "presence", <<>>, FALSE),
    Rt("r0", <<L("voip"), L("turnServer")>>, {"GET", "OPTIONS"}, Json, "RequestTurnServer", <<>>, FALSE),
    Rt("r0", <<L("thirdparty"), L("protocols")>>, {"GET", "OPTIONS"}, Json,
       "thirdparty_protocols", <<>>, FALSE),
    Rt("r0", <<L("rooms"), V("roomID"), L("initialSync")>>, {"GET", "OPTIONS"}, Json,
       "rooms_initial_sync", <<>>, FALSE)
    >>

(* Account data, members, devices, stubs, tags and capabilities.  The GET *)
(* account_data routes and /capabilities are registered without OPTIONS.  *)
UserRoutes == <<
    Rt("r0", <<L("user"), V("userID"), L("account_data"), V("type")>>, {"PUT", "OPTIONS"}, Json,
       "SaveAccountData", <<A("userID"), K(""), A("type")>>, TRUE),
    Rt("r0", <<L("user"), V("userID"), L("rooms"), V("roomID"), L("account_data"), V("type")>>,
       {"PUT", "OPTIONS"}, Json, "SaveAccountData", <<A("userID"), A("roomID"), A("type")>>, TRUE),
    Rt("r0", <<L("user"), V("userID"), L("account_data"), V("type")>>, {"GET"}, Json,
       "GetAccountData", <<A("userID"), K(""), A("type")>>, TRUE),
    Rt("r0", <<L("user"), V("userID"), L("rooms"), V("roomID"), L("account_data"), V("type")>>,
       {"GET"}, Json, "GetAccountData", <<A("userID"), A("roomID"), A("type")>>, TRUE),
    Rt("r0", <<L("rooms"), V("roomID"), L("members")>>, {"GET", "OPTIONS"}, Json,
       "GetMemberships", <<A("roomID"), K(FALSE)>>, TRUE),
    Rt("r0", <<L("rooms"), V("roomID"), L("joined_members")>>, {"GET", "OPTIONS"}, Json,
       "GetMemberships", <<A("roomID"), K(TRUE)>>, TRUE),
    Rt("r0", <<L("rooms"), V("roomID"), L("read_markers")>>, {"POST", "OPTIONS"}, Json,
       "rooms_read_markers", <<>>, FALSE),
    Rt("r0", <<L("devices")>>, {"GET", "OPTIONS"}, Json, "GetDevicesByLocalpart", <<>>, FALSE),
    Rt("r0", <<L("devices"), V("deviceID")>>, {"GET", "OPTIONS"}, Json,
       "GetDeviceByID", <<A("deviceID")>>, TRUE),
    Rt("r0", <<L("devices"), V("deviceID")>>, {"PUT", "OPTIONS"}, Json,
       "UpdateDeviceByID", <<A("deviceID")>>, TRUE),
    Rt("r0", <<L("devices"), V("deviceID")>>, {"DELETE", "OPTIONS"}, Json,
       "DeleteDeviceById", <<A("deviceID")>>, TRUE),
    Rt("r0", <<L("delete_devices")>>, {"POST", "OPTIONS"}, Json, "DeleteDevices", <<>>, FALSE),
    Rt("r0", <<L("events")>>, {"GET", "OPTIONS"}, Json, "events", <<>>, FALSE),
    Rt("r0", <<L("initialSync")>>, {"GET", "OPTIONS"}, Json, "initial_sync", <<>>, FALSE),
    Rt("r0", <<L("user"), V("userId"), L("rooms"), V("roomId"), L("tags")>>, {"GET", "OPTIONS"}, Json,
       "GetTags", <<A("userId"), A("roomId")>>, TRUE),
    Rt("r0", <<L("user"), V("userId"), L("rooms"), V("roomId"), L("tags"), V("tag")>>,
       {"PUT", "OPTIONS"}, Json, "PutTag", <<A("userId"), A("roomId"), A("tag")>>, TRUE),
    Rt("r0", <<L("user"), V("userId"), L("rooms"), V("roomId"), L("tags"), V("tag")>>,
       {"DELETE", "OPTIONS"}, Json, "DeleteTag", <<A("userId"), A("roomId"), A("tag")>>, TRUE),
    Rt("r0", <<L("capabilities")>>, {"GET"}, Json, "GetCapabilities", <<>>, FALSE)
    >>

(* Setup's registrations, in order.                                       *)
Routes == RoomRoutes \o AccountRoutes \o ProfileRoutes \o UserRoutes

(* The paths a template stands for, with variables from VarValues.        *)
RECURSIVE Instances(_)
Instances(tpl) ==
    IF tpl = <<>> THEN {<<>>}
    ELSE LET e == Head(tpl)
             words == CASE e.kind = "lit"   -> {<<e.name>>}
                        [] e.kind = "var"   -> {<<v>> : v \in VarValues}
                        [] e.kind = "alt"   -> e.words
                        [] e.kind = "slash" -> {<<v>> : v \in VarValues} \cup {<<v, "">> : v \in VarValues}
         IN  {w \o rest : w \in words, rest \in Instances(Tail(tpl))}

(* Every instance of every template, each also with a trailing slash,     *)
(* and the extra paths; on every router, with every method.               *)
Paths ==
    LET inst == UNION {Instances(Routes[i].tpl) : i \in DOMAIN Routes}
    IN  inst \cup {p \o <<"">> : p \in inst} \cup ExtraPaths

Requests == [mux : Muxes, method : Methods, path : Paths]

Answer(outcome, route, handler, args) ==
    [outcome |-> outcome, route |-> route, handler |-> handler, args |-> args]

(* Route i's template matches the request's path on its router.           *)
PathMatched(i, r) == Routes[i].mux = r.mux /\ Matches(Routes[i].tpl, r.path) # {}

ArgValue(a, b) ==
    CASE a.kind = "var"  -> b[a.name]
      [] a.kind = "lit"  -> a.val
      [] a.kind = "trim" -> TrimSlash(b[a.name])

(* The handler Setup registered for route i: the wrapper answers OPTIONS; *)
(* then URLDecodeMapValues, its error, or the call.                       *)
Respond(i, r) ==
    LET rt == Routes[i]
        b  == CHOOSE b \in Matches(rt.tpl, r.path) : TRUE
    IN  CASE r.method = "OPTIONS" /\ rt.wrap = Json -> Answer("Preflight", i, "", <<>>)
          [] rt.decodes /\ \E n \in DOMAIN b : b[n] \in BadEscapes ->
                Answer("DecodeError", i, "", <<>>)
          [] OTHER -> Answer("Called", i, rt.handler,
                             [k \in DOMAIN rt.args |-> ArgValue(rt.args[k], b)])

(* Mutant of Dispatch: the first route whose path matches decides, and a  *)
(* method it lacks is a 405 even if a later route has it.                 *)
DispatchFirstPath(r) ==
    LET pm == {i \in DOMAIN Routes : PathMatched(i, r)}
    IN  IF pm = {} THEN Answer("NotFound", 0, "", <<>>)
        ELSE IF r.method \in Routes[Min(pm)].methods THEN Respond(Min(pm), r)
        ELSE Answer("MethodNotAllowed", 0, "", <<>>)

(* Router.ServeHTTP: the first route matching path and method, else 405  *)
(* if a route matched the path alone, else 404.                           *)
Dispatch(r) ==
    LET full == {i \in DOMAIN Routes : PathMatched(i, r) /\ r.method \in Routes[i].methods}
    IN  IF full # {} THEN Respond(Min(full), r)
        ELSE IF \E i \in DOMAIN Routes : PathMatched(i, r)
             THEN Answer("MethodNotAllowed", 0, "", <<>>)
             ELSE Answer("NotFound", 0, "", <<>>)

Init ==
    /\ req = NoRequest
    /\ resp = NoRequest

ServeHTTP ==
    /\ req = NoRequest
    /\ \E r \in Requests :
          /\ req' = r
          /\ resp' = Dispatch(r)

Next == ServeHTTP

Spec == Init /\ [][Next]_vars

-----------------------------------------------------------------------------
Called(h, args) == resp.outcome = "Called" /\ resp.handler = h /\ resp.args = args

(* Room state over /client/r0/rooms/{roomID}/state/...: reading a state    *)
(* event by type, or by type and key, calls OnIncomingStateTypeRequest     *)
(* with the empty key when none is given; sending one by PUT calls        *)
(* SendEvent as a state event (stateKey not nil), with the empty key for  *)
(* /state/T and for /state/T/ alike, and with the event type without the  *)
(* slash.  Four templates and two variable patterns decide this.          *)
StateEventRouting ==
    \A rm, t, k \in VarValues \ BadEscapes :
        LET base == <<"rooms", rm, "state", t>>
            At(m, p) == req = [mux |-> "r0", method |-> m, path |-> p]
        IN  /\ At("PUT", base) => Called("SendEvent", <<rm, t, Nil, "">>)
            /\ At("PUT", base \o <<"">>) => Called("SendEvent", <<rm, t, Nil, "">>)
            /\ At("PUT", base \o <<k>>) => Called("SendEvent", <<rm, t, Nil, k>>)
            /\ At("GET", base) => Called("OnIncomingStateTypeRequest", <<rm, t, "">>)
            /\ At("GET", base \o <<k>>) => Called("OnIncomingStateTypeRequest", <<rm, t, k>>)

MembershipActions == {"join", "kick", "ban", "unban", "invite"}

(* POST /client/r0/rooms/{roomID}/{action}: the membership actions call   *)
(* SendMembership with the room and the action, leave calls LeaveRoomByID *)
(* (registered before the membership route), and no other last segment   *)
(* (state, members, read_markers, forget, ...) reaches SendMembership.    *)
MembershipRouting ==
    (/\ req # NoRequest
     /\ req.mux = "r0" /\ req.method = "POST"
     /\ Len(req.path) = 3 /\ req.path[1] = "rooms"
     /\ req.path[2] \in VarValues \ BadEscapes)
    => LET rm == req.path[2]
           m  == req.path[3]
       IN  /\ m \in MembershipActions => Called("SendMembership", <<rm, m>>)
           /\ m = "leave" => Called("LeaveRoomByID", <<rm>>)
           /\ m \notin MembershipActions => resp.handler # "SendMembership"

(* No registration shadows another: a request other than OPTIONS that a   *)
(* route's template and methods accept is served by that route, so no     *)
(* earlier registration takes it.                                          *)
NoShadowedRoute ==
    (req # NoRequest /\ req.method # "OPTIONS")
    => \A i \in DOMAIN Routes :
          (PathMatched(i, req) /\ req.method \in Routes[i].methods) => resp.route = i

(* CORS preflight: an OPTIONS request on a path some route serves reaches *)
(* a handler, as the comments in Setup require ("Browsers use the OPTIONS *)
(* HTTP method to check if the CORS policy allows ... requests, so we     *)
(* need to allow this method"), instead of the router's 405.              *)
PreflightRouted ==
    (req # NoRequest /\ req.method = "OPTIONS" /\ \E i \in DOMAIN Routes : PathMatched(i, req))
    => resp.outcome # "MethodNotAllowed"

=============================================================================
