----------------------------- MODULE RoomEvents -----------------------------
(***************************************************************************)
(* What the room updaters promise (spec sections 4.4 and 4.5): the events *)
(* of a room are processed one at a time, each once and only after its    *)
(* prev events; the room's latest events are its forward extremities and  *)
(* the last event sent is the one processed last.                          *)
(***************************************************************************)
CONSTANTS
    Events,  \* event NIDs
    Prev     \* the prev events of each event

VARIABLES
    events,       \* the events processed
    extremities,  \* the room's forward extremities
    sent          \* the last event processed (0: none)

Init ==
    /\ events = {}
    /\ extremities = {}
    /\ sent = 0

(* Processing e: it becomes an extremity and those it references stop     *)
(* being extremities.                                                      *)
ProcessEvent(e) ==
    /\ e \notin events
    /\ Prev[e] \subseteq events
    /\ events' = events \cup {e}
    /\ extremities' = (extremities \ Prev[e]) \cup {e}
    /\ sent' = e

Next == \E e \in Events : ProcessEvent(e)

Spec == Init /\ [][Next]_<<events, extremities, sent>>

=============================================================================
