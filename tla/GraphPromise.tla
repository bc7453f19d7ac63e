---------------------------- MODULE GraphPromise ----------------------------
(***************************************************************************)
(* What a caller of the canvas' runGraphAndReturnImageOutput is promised    *)
(* (features/controlLayers/konva/CanvasStateApiModule.ts): "A promise that  *)
(* resolves to the image output or rejects with an error", and a signal     *)
(* that cancels it.  A promise settles once; it resolves only to an output  *)
(* the server produced for this very graph; once the caller has aborted,    *)
(* it no longer resolves.                                                   *)
(***************************************************************************)
CONSTANT Requests

VARIABLES
    promise,   \* the state of each promise
    produced,  \* the graphs whose output node completed
    aborted    \* the requests whose signal was aborted

vars == <<promise, produced, aborted>>

Init ==
    /\ promise = [r \in Requests |-> "idle"]
    /\ produced = {}
    /\ aborted = {}

Call(r) ==
    /\ promise[r] = "idle"
    /\ promise' = [promise EXCEPT ![r] = "pending"]
    /\ UNCHANGED <<produced, aborted>>

Produce(r) ==
    /\ promise[r] # "idle"
    /\ produced' = produced \cup {r}
    /\ UNCHANGED <<promise, aborted>>

Resolve(r) ==
    /\ promise[r] = "pending"
    /\ r \in produced \ aborted
    /\ promise' = [promise EXCEPT ![r] = "image"]
    /\ UNCHANGED <<produced, aborted>>

\* Rejecting may come with the caller's clean-up, which aborts the signal.
Reject(r) ==
    /\ promise[r] = "pending"
    /\ promise' = [promise EXCEPT ![r] = "error"]
    /\ aborted' \in {aborted, aborted \cup {r}}
    /\ UNCHANGED produced

\* Aborting a pending promise is a rejection, that of a settled one is moot.
AbortSettled(r) ==
    /\ promise[r] \in {"image", "error"}
    /\ aborted' = aborted \cup {r}
    /\ UNCHANGED <<promise, produced>>

Next == \E r \in Requests :
    Call(r) \/ Produce(r) \/ Resolve(r) \/ Reject(r) \/ AbortSettled(r)

Spec == Init /\ [][Next]_vars
=============================================================================
