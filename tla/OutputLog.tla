------------------------------ MODULE OutputLog ------------------------------
(***************************************************************************)
(* What the output log promises (spec section 4.6): each AppendEvent is    *)
(* one atomic step that takes the next stream position; a new event gets  *)
(* a row at that position, an event already in the log keeps its row and  *)
(* position and only its exclude-from-sync flag is updated.               *)
(***************************************************************************)
EXTENDS Naturals

CONSTANTS Events, MaxStreamID

VARIABLES counter, rows

Pos == 0..MaxStreamID

Row == [pos : Pos, exclude : BOOLEAN, containsURL : BOOLEAN]

Init ==
    /\ counter = 0
    /\ rows = [e \in Events |-> [pos |-> 0, exclude |-> FALSE,
                                 containsURL |-> FALSE]]

AppendEvent(e, x) ==
    /\ counter < MaxStreamID
    /\ counter' = counter + 1
    /\ IF rows[e].pos # 0
       THEN rows' = [rows EXCEPT ![e].exclude = x]
       ELSE \E u \in BOOLEAN :
               rows' = [rows EXCEPT ![e] = [pos |-> counter + 1, exclude |-> x,
                                            containsURL |-> u]]

Next == \E e \in Events, x \in BOOLEAN : AppendEvent(e, x)

Spec == Init /\ [][Next]_<<counter, rows>>

=============================================================================
