------------------------------ MODULE GetEvent ------------------------------
(***************************************************************************)
(* The client API handler GET /rooms/{roomId}/event/{eventId}: one call.   *)
(*                                                                         *)
(* It asks the roomserver for the event by ID (QueryEventsByID), then for  *)
(* the requesting user's m.room.member state after the event's prev events *)
(* in the event's own room (QueryStateAfterEvents), and returns the event *)
(* if that membership is join.  The roomserver's answers are inputs: every *)
(* combination of a found or missing event, an error of either query, a   *)
(* missing room, missing prev events and each membership is enumerated.   *)
(***************************************************************************)
EXTENDS Naturals

CONSTANTS
    Rooms,        \* room IDs
    Memberships,  \* membership values of m.room.member, "join" among them
    BadContent,   \* a member event whose membership does not parse
    NoResponse    \* the handler has not returned yet

VARIABLES
    pathRoom,   \* the {roomId} of the request
    rsAnswer,   \* what the roomserver answers to the two queries
    response    \* the HTTP response: code and, for 200, the event's room

vars == <<pathRoom, rsAnswer, response>>

(* The roomserver's answers.  found: QueryEventsByID returned the event;   *)
(* evRoom: the event's room_id; member: the user's member events after    *)
(* the prev events (none, or one, whose content may not parse).           *)
Answer == [eventsErr : BOOLEAN, found : BOOLEAN, evRoom : Rooms,
           stateErr : BOOLEAN, roomExists : BOOLEAN, prevExist : BOOLEAN,
           member : {{}} \cup {{m} : m \in Memberships \cup {BadContent}}]

NotFound == [code |-> 404, room |-> NoResponse]

InternalServerError == [code |-> 500, room |-> NoResponse]

Init ==
    /\ pathRoom \in Rooms
    /\ rsAnswer \in Answer
    /\ response = NoResponse

(* Mutant of MemberResponse: the membership is read but never compared.    *)
MemberResponseAnyMembership(a) ==
    IF a.member = {} THEN NotFound
    ELSE IF BadContent \in a.member THEN InternalServerError
    ELSE [code |-> 200, room |-> a.evRoom]

(* The loop over stateResp.StateEvents: a member event whose Membership() *)
(* fails is a 500, one with membership join returns the event; otherwise  *)
(* the loop ends and the handler answers 404.                             *)
MemberResponse(a) ==
    IF a.member = {} THEN NotFound
    ELSE IF BadContent \in a.member THEN InternalServerError
    ELSE IF "join" \in a.member THEN [code |-> 200, room |-> a.evRoom]
    ELSE NotFound

(* GetEvent, from the first query to the response it returns.              *)
GetEventCall ==
    /\ response = NoResponse
    /\ response' =
          IF rsAnswer.eventsErr THEN InternalServerError
          ELSE IF ~rsAnswer.found THEN NotFound
          ELSE IF rsAnswer.stateErr THEN InternalServerError
          ELSE IF ~rsAnswer.roomExists THEN InternalServerError
          ELSE IF ~rsAnswer.prevExist THEN NotFound
          ELSE MemberResponse(rsAnswer)
    /\ UNCHANGED <<pathRoom, rsAnswer>>

Next == GetEventCall

Spec == Init /\ [][Next]_vars

-----------------------------------------------------------------------------
(* The event is returned only to a user joined to the event's room at the  *)
(* event (state after its prev events), and only when the roomserver      *)
(* answered both queries without an error; a user who was never joined, *)
(* or left before it, gets the same 404 as for a missing event.           *)
ServedOnlyToJoined ==
    response # NoResponse /\ response.code = 200 =>
        /\ ~rsAnswer.eventsErr /\ ~rsAnswer.stateErr
        /\ rsAnswer.found /\ rsAnswer.prevExist
        /\ rsAnswer.member = {"join"}

(* The event returned for /rooms/{roomId}/event/{eventId} is an event of   *)
(* the room the path names.                                               *)
ServedFromPathRoom ==
    response # NoResponse /\ response.code = 200 => response.room = pathRoom

=============================================================================
