----------------------------- MODULE PluginSession -----------------------------
(***************************************************************************)
(* runtime/orchestrator/src/plugin_session.cpp: the owner of a game plugin *)
(* module. start, quiesce and stop call the plugin outside the session's   *)
(* mutex: `transitioning' keeps them apart, and apart from status readers. *)
(* A successful stop deletes the session, which unloads the module.        *)
(***************************************************************************)
EXTENDS Integers

VARIABLES
    session,    \* rsf_plugin_session, without its readers
    readers     \* status calls inside the plugin

sessionVars == <<session, readers>>

\* The flags of a session: before prepare, after it, and after a prepare that failed and
\* whose plugin could be quiesced but not stopped.
NoSession == [loaded |-> FALSE, prepared |-> FALSE, started |-> FALSE, quiesced |-> FALSE,
              transitioning |-> FALSE]
Prepared == [NoSession EXCEPT !.loaded = TRUE, !.prepared = TRUE]
Retained == [NoSession EXCEPT !.loaded = TRUE, !.quiesced = TRUE]

SessionInit == session = NoSession /\ readers = 0

Busy == session.transitioning \/ readers > 0

\* The guard of each call, under the mutex; `called' is what the plugin has then answered.
MayStart == ~Busy /\ session.prepared /\ ~session.quiesced /\ ~session.started
MayQuiesce == ~Busy /\ ~session.quiesced
MayStop == ~Busy /\ session.quiesced /\ ~session.started

Transition == session' = [session EXCEPT !.transitioning = TRUE]
Started(called) ==
    session' = [session EXCEPT !.transitioning = FALSE, !.started = called \/ session.started]
Quiesced ==
    session' = [session EXCEPT !.transitioning = FALSE, !.quiesced = TRUE, !.started = FALSE]
StopRefused == session' = [session EXCEPT !.transitioning = FALSE]
Stopped == session' = NoSession

\* rsf_plugin_session_status: a reader is refused only during a transition.
MayReadAny == session.loaded      \* a bug: transitions are not looked at
MayRead == session.loaded /\ ~session.transitioning
ReadBegin == MayRead /\ readers' = readers + 1 /\ UNCHANGED session
ReadEnd == readers > 0 /\ readers' = readers - 1 /\ UNCHANGED session

=============================================================================
