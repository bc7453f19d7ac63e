--------------------------- MODULE QueueExecution ---------------------------
(***************************************************************************)
(* What a session queue promises to those who put work into it: one item    *)
(* executes at a time and an item executes at most once, whether or not the *)
(* process restarts in between.                                             *)
(***************************************************************************)
CONSTANTS Items, None

VARIABLES
    started,   \* the items whose execution has begun
    active     \* the item that executes, or None

Init == started = {} /\ active = None

Begin(i) ==
    /\ active = None
    /\ i \in Items \ started
    /\ started' = started \cup {i}
    /\ active' = i

End ==
    /\ active # None
    /\ active' = None
    /\ UNCHANGED started

Next == (\E i \in Items : Begin(i)) \/ End

Spec == Init /\ [][Next]_<<started, active>>
=============================================================================
