------------------------------ MODULE ClientAPI ------------------------------
(***************************************************************************)
(* The client API as a client sees it: the router of Setup dispatches the *)
(* request, and when it reaches the GET /rooms/{roomID}/event/{eventID}   *)
(* route its closure calls GetEvent with the decoded roomID, the room the *)
(* GetEvent module calls pathRoom.  The roomserver's answers to GetEvent's *)
(* two queries are inputs, as in GetEvent.                                *)
(***************************************************************************)
EXTENDS Routing

CONSTANTS
    Memberships,  \* membership values of m.room.member, "join" among them
    BadContent,   \* a member event whose membership does not parse
    NoResponse    \* GetEvent has not been asked, or has not returned

VARIABLES
    rsAnswer,   \* the roomserver's answers to GetEvent's queries
    response    \* GetEvent's HTTP response

allVars == <<req, resp, rsAnswer, response>>

(* GetEvent's roomID parameter: the first argument the route passes.       *)
RoomIDArg == IF resp = NoRequest THEN NoResponse ELSE resp.args[1]

GE == INSTANCE GetEvent
        WITH Rooms <- VarValues \ BadEscapes,
             pathRoom <- RoomIDArg,
             rsAnswer <- rsAnswer,
             response <- response

CallsGetEvent == resp # NoRequest /\ resp.outcome = "Called" /\ resp.handler = "GetEvent"

CInit ==
    /\ Init
    /\ rsAnswer = NoResponse
    /\ response = NoResponse

(* The router serves the request; GetEvent has not run yet.               *)
ServeRequest ==
    /\ ServeHTTP
    /\ UNCHANGED <<rsAnswer, response>>

(* GetEvent's QueryEventsByID and QueryStateAfterEvents: the roomserver   *)
(* answers, with any of the answers it can give.                          *)
RoomserverAnswers ==
    /\ CallsGetEvent
    /\ rsAnswer = NoResponse
    /\ rsAnswer' \in GE!Answer
    /\ UNCHANGED <<req, resp, response>>

(* GetEvent runs on those answers and returns.                            *)
HandleGetEvent ==
    /\ rsAnswer # NoResponse
    /\ UNCHANGED <<req, resp>>
    /\ GE!GetEventCall

CNext == ServeRequest \/ RoomserverAnswers \/ HandleGetEvent

CSpec == CInit /\ [][CNext]_allVars

-----------------------------------------------------------------------------
(* GET /client/r0/rooms/{roomID}/event/{eventID} answers 200 only to a    *)
(* user whose membership after the event's prev events is join, and only *)
(* when both roomserver queries succeeded (GetEvent's ServedOnlyToJoined, *)
(* reached through the router).                                           *)
EventServedOnlyToJoined == GE!ServedOnlyToJoined

(* A 200 for GET /client/r0/rooms/{roomID}/event/{eventID} carries an     *)
(* event of the room the path names.                                       *)
EventFromPathRoom == GE!ServedFromPathRoom

=============================================================================
