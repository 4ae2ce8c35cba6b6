------------------------------- MODULE SrSession -------------------------------
(***************************************************************************)
(* runtime/orchestrator/src/sr_session.cpp: the super-resolution session.  *)
(* It holds at most one open backend; a switch opens and plans the         *)
(* replacement before it closes what is there, and a frame is submitted    *)
(* with reset unless it continues the very history the backend has.        *)
(*                                                                         *)
(* Backend, quality and version are one choice; session and view one view. *)
(* Argument and ABI checks, which change nothing, are left out.            *)
(***************************************************************************)
EXTENDS Integers, FiniteSets

CONSTANTS Choices,       \* backends with their quality and version
          Views,         \* session_id and view_id of a frame record
          NoChoice,      \* RSF_SR_NONE
          MaxInstances   \* bound: backends opened

ASSUME ChoicesAssumption == NoChoice \notin Choices
ASSUME InstancesAssumption == MaxInstances \in Nat

VARIABLES
    session,    \* rsf_sr_session, and what its status says is effective
    opened,     \* backends ever opened: their names are 1 .. opened
    open,       \* the backends that are open
    seen,       \* what a backend's history ends with: its last good frame
    submitted   \* history: the last frame given to a backend, when it was given without reset

sessionVars == <<session, opened, open, seen, submitted>>

Instance == 1 .. MaxInstances
NoInstance == 0
NoFrame == [view |-> NoChoice, frame |-> 0, generation |-> 0]
Frame == [view : Views \union {NoChoice}, frame : Nat, generation : Nat]

Reset == [continues |-> FALSE, frame |-> NoFrame, after |-> NoFrame]

SessionInit ==
    /\ session = [backend |-> NoInstance, effective |-> NoChoice, reset |-> TRUE,
                  last |-> NoFrame, exposure |-> FALSE]
    /\ opened = 0 /\ open = {}
    /\ seen = [i \in Instance |-> NoFrame]
    /\ submitted = Reset

\* RSF_SR_NONE: the backend is closed.
SelectNone ==
    /\ open' = open \ {session.backend}
    /\ session' = [session EXCEPT !.backend = NoInstance, !.effective = NoChoice, !.reset = TRUE]
    /\ UNCHANGED <<opened, seen, submitted>>

Unchanged(choice) == session.backend # NoInstance /\ session.effective = choice

\* The provider refuses to open, or what it opened cannot be planned.
OpenRefused == UNCHANGED sessionVars

PlanRefusedClosing(closed) ==
    /\ opened < MaxInstances /\ opened' = opened + 1
    /\ open' = (open \union {opened + 1}) \ closed
    /\ UNCHANGED <<session, seen, submitted>>
PlanRefusedOnly == PlanRefusedClosing({})
PlanRefused == PlanRefusedClosing({opened + 1})

AdoptWith(choice, exposure, reset) ==
    /\ opened < MaxInstances /\ opened' = opened + 1
    /\ open' = (open \union {opened + 1}) \ {session.backend}
    /\ session' = [session EXCEPT !.backend = opened + 1, !.effective = choice,
                                  !.exposure = exposure, !.reset = reset]
    /\ UNCHANGED <<seen, submitted>>
\* A bug: the history is taken over with the backend's replacement.
AdoptSilently(choice, exposure) == AdoptWith(choice, exposure, session.reset)
Adopt(choice, exposure) == AdoptWith(choice, exposure, TRUE)

Replace(choice, exposure) == OpenRefused \/ PlanRefused \/ Adopt(choice, exposure)

\* rsf_sr_session_select.
Select(choice) ==
    \/ choice = NoChoice /\ SelectNone
    \/ choice # NoChoice /\ Unchanged(choice) /\ UNCHANGED sessionVars
    \/ choice # NoChoice /\ ~Unchanged(choice) /\ Replace(choice, session.exposure)

\* rsf_sr_session_set_auto_exposure: the same choice, opened again; a refusal
\* restores the policy.
SetAutoExposure(enabled) ==
    /\ enabled # session.exposure
    /\ \/ session.effective # NoChoice /\ Replace(session.effective, enabled)
       \/ /\ session.effective = NoChoice
          /\ session' = [session EXCEPT !.exposure = enabled, !.reset = TRUE]
          /\ UNCHANGED <<opened, open, seen, submitted>>

\* rsf_sr_session_evaluate: refused without a backend, for another output size
\* (fits), or when the frame is not newer.  A refusal resets the next one; so does the caller's
\* own reset flag, which is left out.
Stale(frame) == frame.view = session.last.view /\ frame.frame <= session.last.frame
Refuses(fits, frame) == session.backend = NoInstance \/ ~fits \/ Stale(frame)

EvaluateRefused(fits, frame) ==
    /\ Refuses(fits, frame)
    /\ session' = [session EXCEPT !.reset = TRUE]
    /\ UNCHANGED <<opened, open, seen, submitted>>

Follows(frame, last) == frame = [last EXCEPT !.frame = @ + 1]

Evaluate(fits, frame, ok) ==
    /\ ~Refuses(fits, frame)
    /\ submitted' = IF session.reset \/ ~Follows(frame, session.last) THEN Reset
                    ELSE [continues |-> TRUE, frame |-> frame, after |-> seen[session.backend]]
    /\ seen' = [seen EXCEPT ![session.backend] = IF ok THEN frame ELSE NoFrame]
    /\ session' = [session EXCEPT !.last = frame, !.reset = ~ok]
    /\ UNCHANGED <<opened, open>>

Close == IF session.backend = NoInstance THEN open ELSE open \ {session.backend}

SessionTypeOK ==
    /\ session \in [backend : Instance \union {NoInstance}, effective : Choices \union {NoChoice},
                    reset : BOOLEAN, last : Frame, exposure : BOOLEAN]
    /\ opened \in 0 .. MaxInstances /\ open \subseteq 1 .. opened
    /\ seen \in [Instance -> Frame]
    /\ submitted \in [continues : BOOLEAN, frame : Frame, after : Frame]
=============================================================================
