------------------------------ MODULE InputLease ------------------------------
(***************************************************************************)
(* What every owner of frame-generation inputs promises, whichever way it  *)
(* keeps its books: an input set is held from the moment it is handed over *)
(* until nobody reads it, is released once, and never comes back under the *)
(* same frame id.                                                          *)
(*                                                                         *)
(* "Reading" is a fact about the GPU and the vendor SDK, not about the     *)
(* owner's bookkeeping: an owner that loses track of a reader cannot hide  *)
(* it from this specification.                                             *)
(***************************************************************************)
CONSTANT Frames

VARIABLES held,      \* frames whose inputs are retained
          reading,   \* frames whose inputs a GPU queue or the SDK still reads
          closed     \* frames that can no longer be held: given back, or passed over

vars == <<held, reading, closed>>

Init == held = {} /\ reading = {} /\ closed = {}

\* Frames come in order: taking one gives up those it passes over.
Hold(f, skipped) == /\ f \notin held \cup closed
                    /\ skipped \cap (held \cup {f}) = {}
                    /\ held' = held \cup {f}
                    /\ closed' = closed \cup skipped
                    /\ UNCHANGED reading

\* A read of inputs that are held starts.
StartRead(f) == /\ f \in held
                /\ reading' = reading \cup {f}
                /\ UNCHANGED <<held, closed>>

\* Readers finish in the order their queues run, several frames at a time.
FinishReads(F) == /\ F \subseteq reading
                  /\ reading' = reading \ F
                  /\ UNCHANGED <<held, closed>>

\* Only inputs nobody reads are given back.
Release(F) == /\ F \subseteq held \ reading
              /\ held' = held \ F
              /\ closed' = closed \cup F
              /\ UNCHANGED reading

Next == \/ \E f \in Frames : StartRead(f)
        \/ \E F \in SUBSET Frames : \/ FinishReads(F) \/ Release(F)
                                   \/ \E f \in Frames : Hold(f, F)

Spec == Init /\ [][Next]_vars
===============================================================================
