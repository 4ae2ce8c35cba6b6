------------------------------ MODULE ChainOwner ------------------------------
(***************************************************************************)
(* What a presentation owner promises while providers come and go: at any  *)
(* time at most one of the plain chain and the provider chains shows the   *)
(* window; the owner changes only when no frame is in flight; and a frame  *)
(* ends under the owner it began with.                                     *)
(***************************************************************************)
CONSTANTS Frames, Owners, Nobody

VARIABLES owner,      \* whose chain the application presents through
          inFlight,   \* frames begun and not yet presented or dropped
          switching   \* a change of owner is under way

vars == <<owner, inFlight, switching>>

Init == owner \in Owners \cup {Nobody} /\ inFlight = {} /\ switching = FALSE

BeginFrame(f) == /\ ~switching /\ f \notin inFlight
                 /\ inFlight' = inFlight \cup {f}
                 /\ UNCHANGED <<owner, switching>>

EndFrame(f) == /\ ~switching /\ f \in inFlight
               /\ inFlight' = inFlight \ {f}
               /\ UNCHANGED <<owner, switching>>

StartSwitch == /\ ~switching /\ inFlight = {}
               /\ switching' = TRUE
               /\ UNCHANGED <<owner, inFlight>>

\* The old owner lets go before a new one takes over.
LetGo == /\ switching /\ owner' = Nobody
         /\ UNCHANGED <<inFlight, switching>>

TakeOver(o) == /\ switching /\ owner = Nobody /\ owner' = o
               /\ UNCHANGED <<inFlight, switching>>

EndSwitch == /\ switching /\ switching' = FALSE
             /\ owner' = owner \/ (owner = Nobody /\ owner' \in Owners)
             /\ UNCHANGED inFlight

Next == \/ \E f \in Frames : BeginFrame(f) \/ EndFrame(f)
        \/ StartSwitch \/ LetGo \/ EndSwitch
        \/ \E o \in Owners : TakeOver(o)

Spec == Init /\ [][Next]_vars
===============================================================================
