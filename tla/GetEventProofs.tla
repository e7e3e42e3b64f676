------------------------- MODULE GetEventProofs ----------------------------
(***************************************************************************)
(* GetEvent answers 200 only to a joined user, for every answer the        *)
(* roomserver can give and any rooms and memberships.  The call-level     *)
(* lemma is what ClientAPI's HandleGetEvent step runs (GE!GetEventCall on *)
(* an answer in GE!Answer); the router around it declares RECURSIVE      *)
(* operators, so ClientAPI's EventServedOnlyToJoined itself stays with TLC.*)
(***************************************************************************)
EXTENDS GetEvent, TLAPS

(* The call on an answer the roomserver can give returns 200 only when    *)
(* both queries succeeded, the event and its prev events exist and the    *)
(* user's one member event says join.                                     *)
LEMMA CallServesOnlyJoined ==
    ASSUME rsAnswer \in Answer, GetEventCall
    PROVE  ServedOnlyToJoined'
<1>1. UNCHANGED rsAnswer
  BY DEF GetEventCall
<1>2. SUFFICES ASSUME response'.code = 200 PROVE
            /\ ~rsAnswer.eventsErr /\ ~rsAnswer.stateErr
            /\ rsAnswer.found /\ rsAnswer.prevExist
            /\ rsAnswer.member = {"join"}
  BY <1>1 DEF ServedOnlyToJoined
<1> DEFINE a == rsAnswer
<1>3. response' = IF a.eventsErr THEN InternalServerError
                  ELSE IF ~a.found THEN NotFound
                  ELSE IF a.stateErr THEN InternalServerError
                  ELSE IF ~a.roomExists THEN InternalServerError
                  ELSE IF ~a.prevExist THEN NotFound
                  ELSE MemberResponse(a)
  BY DEF GetEventCall
<1>4. InternalServerError.code # 200 /\ NotFound.code # 200
  BY DEF InternalServerError, NotFound
<1>5. ~a.eventsErr
  BY <1>2, <1>3, <1>4
<1>6. a.found
  BY <1>2, <1>3, <1>4, <1>5
<1>7. ~a.stateErr
  BY <1>2, <1>3, <1>4, <1>5, <1>6
<1>8. a.roomExists
  BY <1>2, <1>3, <1>4, <1>5, <1>6, <1>7
<1>9. a.prevExist /\ response' = MemberResponse(a)
  BY <1>2, <1>3, <1>4, <1>5, <1>6, <1>7, <1>8
<1>10. "join" \in a.member
  BY <1>2, <1>4, <1>9 DEF MemberResponse
<1>11. a.member = {"join"}
  BY <1>10 DEF Answer
<1>12. QED
  BY <1>5, <1>6, <1>7, <1>9, <1>11

GetEventInv == rsAnswer \in Answer /\ ServedOnlyToJoined

(* However the roomserver answers, a GET of an event returns it only to a *)
(* user whose membership at the event is join.                            *)
THEOREM ServedOnlyToJoinedCorrect == Spec => []ServedOnlyToJoined
<1>1. Init => GetEventInv
  BY DEF Init, GetEventInv, ServedOnlyToJoined
<1>2. GetEventInv /\ [Next]_vars => GetEventInv'
  <2> SUFFICES ASSUME GetEventInv, [Next]_vars PROVE GetEventInv'
    OBVIOUS
  <2>1. CASE GetEventCall
    BY <2>1, CallServesOnlyJoined DEF GetEventInv, GetEventCall
  <2>2. CASE UNCHANGED vars
    BY <2>2 DEF GetEventInv, ServedOnlyToJoined, vars
  <2>3. QED
    BY <2>1, <2>2 DEF Next
<1>3. GetEventInv => ServedOnlyToJoined
  BY DEF GetEventInv
<1>4. QED
  BY <1>1, <1>2, <1>3, PTL DEF Spec

=============================================================================
