---------------------------- MODULE SrBridge_proofs -----------------------------
(***************************************************************************)
(* Theorems about sr_bridge.cpp and sr_session.cpp, for any number of      *)
(* backends, frames, views, resource generations, command slots and fence  *)
(* values, and whatever the GPU does: a frame submitted without reset      *)
(* continues its backend's own history, and the session never leaves a     *)
(* backend open behind its back.                                           *)
(***************************************************************************)
EXTENDS SrBridge, TLAPS

SessionRecord ==
    [backend : Instance \union {NoInstance}, effective : Choices \union {NoChoice},
     reset : BOOLEAN, last : Frame, exposure : BOOLEAN]

\* A call keeps its arguments; what evaluates a frame has one.
CallInv ==
    /\ DOMAIN call = {"op", "waits", "value", "choice", "exposure", "frame"}
    /\ call.choice \in Choices \union {NoChoice} /\ call.exposure \in BOOLEAN
    /\ call.op \in {"resize", "evaluate"} => call.frame \in Frame /\ call.frame.frame # 0

\* Without a reset pending the backend has seen just what the session saw last.
HistoryInv ==
    /\ session \in SessionRecord
    /\ opened \in 0 .. MaxInstances /\ session.backend <= opened
    /\ seen \in [Instance -> Frame]
    /\ session.backend # NoInstance /\ ~session.reset =>
           seen[session.backend] = session.last /\ session.last # NoFrame

BridgeInv == CallInv /\ HistoryInv /\ ContinuesHistory

\* NoFrame is a frame.
LEMMA NoFrameType == NoFrame \in Frame
  BY DEF NoFrame, Frame

\* A bridge that was just opened has no history.
LEMMA InitInv == Init => BridgeInv
  <1> SUFFICES ASSUME Init PROVE BridgeInv
    OBVIOUS
  <1>1. CallInv
    BY DEF Init, Idle, CallInv
  <1>2. HistoryInv
    BY NoFrameType, InstancesAssumption DEF Init, SessionInit, HistoryInv, SessionRecord, NoInstance
  <1>3. ContinuesHistory
    BY DEF Init, SessionInit, Reset, ContinuesHistory
  <1> QED BY <1>1, <1>2, <1>3 DEF BridgeInv

\* A closed or a new backend: the next frame is reset, and the history is left as it was.
LEMMA ResetKeeps ==
  ASSUME HistoryInv, NEW backend \in Instance \union {NoInstance}, NEW choice \in Choices \union {NoChoice},
         NEW exposure \in BOOLEAN,
         session' = [session EXCEPT !.backend = backend, !.effective = choice,
                                    !.exposure = exposure, !.reset = TRUE],
         opened' \in {opened, opened + 1} \intersect 0 .. MaxInstances, backend <= opened',
         UNCHANGED <<seen, submitted>>
  PROVE  HistoryInv'
  <1>1. session' \in SessionRecord
    BY DEF HistoryInv, SessionRecord
  <1>2. session'.backend = backend /\ session'.reset = TRUE
    BY DEF HistoryInv, SessionRecord
  <1> QED BY <1>1, <1>2 DEF HistoryInv

\* A replacement opens a new backend with a reset, or changes nothing but what is open.
LEMMA ReplaceKeeps ==
  ASSUME HistoryInv, NEW choice \in Choices, NEW exposure \in BOOLEAN, Replace(choice, exposure)
  PROVE  HistoryInv' /\ submitted' = submitted
  <1>1. CASE OpenRefused
    BY <1>1 DEF HistoryInv, OpenRefused, sessionVars
  <1>2. CASE PlanRefused
    <2>1. opened' \in 0 .. MaxInstances /\ opened < opened' /\ opened \in Nat
      BY <1>2, InstancesAssumption DEF HistoryInv, PlanRefused, PlanRefusedClosing
    <2>2. session.backend \in Int
      BY DEF HistoryInv, SessionRecord, Instance, NoInstance
    <2> QED BY <1>2, <2>1, <2>2 DEF HistoryInv, PlanRefused, PlanRefusedClosing
  <1>3. CASE Adopt(choice, exposure)
    <2>1. opened' = opened + 1 /\ opened' \in 0 .. MaxInstances /\ opened' \in Instance
      BY <1>3, InstancesAssumption DEF HistoryInv, Adopt, AdoptWith, Instance
    <2>2. session' = [session EXCEPT !.backend = opened', !.effective = choice,
                                     !.exposure = exposure, !.reset = TRUE]
      BY <1>3, <2>1 DEF Adopt, AdoptWith
    <2>3. UNCHANGED <<seen, submitted>>
      BY <1>3 DEF Adopt, AdoptWith
    <2>4. opened' <= opened'
      BY <2>1
    <2> QED BY <2>1, <2>2, <2>3, <2>4, ResetKeeps
  <1> QED BY <1>1, <1>2, <1>3 DEF Replace

\* A select, and a change of the exposure policy.
LEMMA SelectKeeps ==
  ASSUME HistoryInv, NEW choice \in Choices \union {NoChoice}, Select(choice)
  PROVE  HistoryInv' /\ submitted' = submitted
  <1>1. CASE choice = NoChoice /\ SelectNone
    <2>1. session' \in SessionRecord /\ session'.backend = NoInstance
      BY <1>1 DEF HistoryInv, SessionRecord, SelectNone
    <2> QED BY <1>1, <2>1 DEF HistoryInv, SelectNone, NoInstance
  <1>2. CASE UNCHANGED sessionVars
    BY <1>2 DEF HistoryInv, SessionRecord, sessionVars
  <1>3. CASE choice # NoChoice /\ Replace(choice, session.exposure)
    BY <1>3, ReplaceKeeps DEF HistoryInv, SessionRecord
  <1> QED BY <1>1, <1>2, <1>3 DEF Select

\* Auto exposure is a replacement of the backend in use, or only a reset.
LEMMA ExposureKeeps ==
  ASSUME HistoryInv, NEW enabled \in BOOLEAN, SetAutoExposure(enabled)
  PROVE  HistoryInv' /\ submitted' = submitted
  <1>1. CASE session.effective # NoChoice /\ Replace(session.effective, enabled)
    BY <1>1, ReplaceKeeps DEF HistoryInv, SessionRecord
  <1>2. CASE session' = [session EXCEPT !.exposure = enabled, !.reset = TRUE]
             /\ UNCHANGED <<opened, open, seen, submitted>>
    <2>1. session' \in SessionRecord /\ session'.backend = session.backend /\ session'.reset = TRUE
      BY <1>2 DEF HistoryInv, SessionRecord
    <2> QED BY <1>2, <2>1 DEF HistoryInv
  <1> QED BY <1>1, <1>2 DEF SetAutoExposure

\* An evaluation ends the backend's history with its own frame, or resets the next one.
LEMMA EvaluateKeeps ==
  ASSUME HistoryInv, ContinuesHistory, NEW fits \in BOOLEAN, NEW frame \in Frame, frame.frame # 0,
         NEW ok \in BOOLEAN, Evaluate(fits, frame, ok) \/ EvaluateRefused(fits, frame)
  PROVE  HistoryInv' /\ ContinuesHistory'
  <1>1. CASE EvaluateRefused(fits, frame)
    <2>1. session' \in SessionRecord /\ session'.backend = session.backend /\ session'.reset = TRUE
      BY <1>1 DEF HistoryInv, SessionRecord, EvaluateRefused
    <2> QED BY <1>1, <2>1 DEF HistoryInv, EvaluateRefused, ContinuesHistory, Follows
  <1>2. CASE Evaluate(fits, frame, ok)
    <2>1. session.backend \in Instance /\ session.backend # NoInstance /\ frame # NoFrame
      BY <1>2 DEF Evaluate, Refuses, NoFrame, HistoryInv, SessionRecord
    <2>2. /\ session' \in SessionRecord /\ session'.backend = session.backend
          /\ session'.reset = ~ok /\ session'.last = frame
      BY <1>2 DEF Evaluate, HistoryInv, SessionRecord
    <2>3. seen' \in [Instance -> Frame] /\ (ok => seen'[session.backend] = frame)
      BY <1>2, <2>1, NoFrameType DEF Evaluate, HistoryInv
    <2>4. HistoryInv'
      <3>1. ~session'.reset => seen'[session'.backend] = session'.last /\ session'.last # NoFrame
        BY <2>1, <2>2, <2>3, Zenon
      <3>2. opened' = opened /\ session'.backend = session.backend /\ session' \in SessionRecord
        BY <1>2, <2>2, Zenon DEF Evaluate
      <3> QED BY <2>3, <3>1, <3>2 DEF HistoryInv
    <2>5. CASE session.reset \/ ~Follows(frame, session.last)
      <3>1. submitted' = Reset
        BY <1>2, <2>5, Zenon DEF Evaluate
      <3> QED BY <2>4, <3>1 DEF Reset, ContinuesHistory
    <2>6. CASE ~(session.reset \/ ~Follows(frame, session.last))
      <3>0. submitted' = [continues |-> TRUE, frame |-> frame, after |-> seen[session.backend]]
        BY <1>2, <2>6, Zenon DEF Evaluate
      <3>1. submitted'.after = session.last /\ submitted'.frame = frame /\ session.last # NoFrame
        BY <2>1, <2>6, <3>0 DEF HistoryInv
      <3>2. Follows(submitted'.frame, submitted'.after)
        BY <2>6, <3>1, Zenon
      <3> QED BY <2>4, <3>1, <3>2, Zenon DEF ContinuesHistory
    <2> QED BY <2>5, <2>6
  <1> QED BY <1>1, <1>2

\* Steps that leave the session alone.
LEMMA SessionKept ==
  ASSUME HistoryInv, ContinuesHistory, UNCHANGED <<session, opened, seen, submitted>>
  PROVE  HistoryInv' /\ ContinuesHistory'
  BY DEF HistoryInv, ContinuesHistory, Follows

\* Starting a call records its arguments.
LEMMA StartKeeps ==
  ASSUME BridgeInv, NEW op, NEW value, NEW arguments, DOMAIN arguments = DOMAIN Idle,
         arguments.choice \in Choices \union {NoChoice}, arguments.exposure \in BOOLEAN,
         op \in {"resize", "evaluate"} => arguments.frame \in Frame /\ arguments.frame.frame # 0,
         Start(op, value, arguments)
  PROVE  BridgeInv'
  <1>1. CallInv'
    BY DEF Start, Idle, CallInv
  <1>2. UNCHANGED <<session, opened, seen, submitted>>
    BY DEF Start, sessionVars
  <1> QED BY <1>1, <1>2, SessionKept DEF BridgeInv

\* Steps of the queues, and of a call that does not get to the session.
LEMMA QuietKeeps ==
  ASSUME BridgeInv, UNCHANGED <<session, opened, seen, submitted>>, call' \in {call, Idle}
  PROVE  BridgeInv'
  <1>1. CallInv'
    <2>1. CASE call' = call
      BY <2>1 DEF BridgeInv, CallInv
    <2>2. CASE call' = Idle
      BY <2>2 DEF CallInv, Idle
    <2> QED BY <2>1, <2>2
  <1> QED BY <1>1, SessionKept DEF BridgeInv

\* A call that is over has no arguments to keep.
LEMMA IdleCall == call' = Idle => CallInv'
  BY DEF CallInv, Idle

\* Every step keeps the history.
LEMMA StepInv == BridgeInv /\ [Next]_vars => BridgeInv'
  <1> SUFFICES ASSUME BridgeInv, [Next]_vars PROVE BridgeInv'
    OBVIOUS
  <1> USE DEF sessionVars, cpuVars
  <1>1. CASE CallSelect
    <2> PICK choice \in Choices \union {NoChoice} : Start("select", bridge.tick, [Idle EXCEPT !.choice = choice])
      BY <1>1 DEF CallSelect
    <2> DEFINE arguments == [Idle EXCEPT !.choice = choice]
    <2>1. DOMAIN arguments = DOMAIN Idle /\ arguments.choice = choice /\ arguments.exposure = FALSE
      BY DEF Idle
    <2> HIDE DEF arguments
    <2>2. Start("select", bridge.tick, arguments)
      BY DEF arguments
    <2> QED BY <2>1, <2>2, StartKeeps
  <1>2. CASE CallAutoExposure
    <2> DEFINE arguments == [Idle EXCEPT !.exposure = ~session.exposure]
    <2>1. DOMAIN arguments = DOMAIN Idle /\ arguments.choice = NoChoice /\ arguments.exposure \in BOOLEAN
      BY DEF Idle
    <2>2. Start("exposure", bridge.tick, arguments)
      BY <1>2 DEF CallAutoExposure
    <2> HIDE DEF arguments
    <2> QED BY <2>1, <2>2, StartKeeps
  <1>3. CASE CallEvaluate
    <2> PICK frame \in [view : Views, frame : 1 .. MaxFrame, generation : 1 .. MaxGeneration] :
                IF bridge.size = frame.generation
                THEN Start("evaluate", bridge.complete[bridge.next], [Idle EXCEPT !.frame = frame])
                ELSE Start("resize", bridge.tick, [Idle EXCEPT !.frame = frame])
      BY <1>3 DEF CallEvaluate
    <2> DEFINE arguments == [Idle EXCEPT !.frame = frame]
    <2>1. /\ DOMAIN arguments = DOMAIN Idle /\ arguments.choice = NoChoice /\ arguments.exposure = FALSE
          /\ arguments.frame = frame
      BY DEF Idle
    <2>2. frame \in Frame /\ frame.frame # 0
      BY BridgeAssumption DEF Frame
    <2>3. \/ Start("evaluate", bridge.complete[bridge.next], arguments)
          \/ Start("resize", bridge.tick, arguments)
      OBVIOUS
    <2> HIDE DEF arguments
    <2> QED BY <2>1, <2>2, <2>3, StartKeeps
  <1>4. CASE CallDestroy
    <2>1. Idle.choice = NoChoice /\ Idle.exposure = FALSE
      BY DEF Idle
    <2>2. Start("destroy", bridge.tick, Idle)
      BY <1>4 DEF CallDestroy, DestroyAfter
    <2> QED BY <2>1, <2>2, StartKeeps
  <1>5. CASE SelectAfterWait
    <2>1. HistoryInv' /\ submitted' = submitted
      BY <1>5, SelectKeeps DEF BridgeInv, CallInv, SelectAfterWait
    <2> QED BY <1>5, <2>1, IdleCall, Zenon DEF BridgeInv, ContinuesHistory, SelectAfterWait
  <1>6. CASE AutoExposureAfterWait
    <2>1. HistoryInv' /\ submitted' = submitted
      BY <1>6, ExposureKeeps DEF BridgeInv, CallInv, AutoExposureAfterWait
    <2> QED BY <1>6, <2>1, IdleCall, Zenon DEF BridgeInv, ContinuesHistory, AutoExposureAfterWait
  <1>7. CASE Resize
    <2>1. UNCHANGED <<session, opened, seen, submitted>>
      BY <1>7 DEF Resize
    <2>2. CASE call' = [call EXCEPT !.op = "evaluate", !.waits = FALSE] /\ call.op = "resize"
      <3>1. CallInv'
        BY <2>2 DEF BridgeInv, CallInv
      <3> QED BY <2>1, <3>1, SessionKept DEF BridgeInv
    <2>3. CASE call' = Idle
      BY <2>1, <2>3, QuietKeeps
    <2> QED BY <1>7, <2>2, <2>3 DEF Resize, Returns
  <1>8. CASE EvaluateAfterWait
    <2>1. call.frame \in Frame /\ call.frame.frame # 0
      BY <1>8 DEF EvaluateAfterWait, Returns, BridgeInv, CallInv
    <2> PICK ok \in BOOLEAN, fits \in BOOLEAN :
                \/ UNCHANGED <<session, opened, open, seen, submitted>>
                \/ EvaluateRefused(fits, call.frame)
                \/ Evaluate(fits, call.frame, ok)
      BY <1>8, Zenon DEF EvaluateAfterWait
    <2>2. HistoryInv' /\ ContinuesHistory'
      BY <2>1, EvaluateKeeps, SessionKept DEF BridgeInv
    <2> QED BY <1>8, <2>2, IdleCall DEF BridgeInv, EvaluateAfterWait
  <1>9. CASE DestroyAfterWait
    BY <1>9, QuietKeeps DEF DestroyAfterWait
  <1>10. CASE TimeOut
    BY <1>10, QuietKeeps DEF TimeOut
  <1>11. CASE GameFlush \/ Execute11 \/ Execute12 \/ FinishList
    <2>1. UNCHANGED <<session, opened, seen, submitted, call>>
      BY <1>11 DEF GameFlush, Execute11, Execute12, FinishList
    <2> QED BY <2>1, QuietKeeps
  <1>12. CASE UNCHANGED vars
    BY <1>12, QuietKeeps DEF vars
  <1> QED
    BY <1>1, <1>2, <1>3, <1>4, <1>5, <1>6, <1>7, <1>8, <1>9, <1>10, <1>11, <1>12 DEF Next, CpuReturns

\* A frame that is submitted without reset follows the frame its backend has seen last, of the
\* same view and resources, whatever was refused, failed, replaced or timed out before.
THEOREM HistoryIsContinued == Spec => []ContinuesHistory
  <1>1. BridgeInv => ContinuesHistory
    BY DEF BridgeInv
  <1> QED BY <1>1, InitInv, StepInv, PTL DEF Spec
-------------------------------------------------------------------------------
\* What is open.

\* A call is in progress only on an open bridge.
OwnedInv ==
    /\ OneBackendOpen /\ "state" \in DOMAIN bridge
    /\ call.op # "none" => bridge.state = "open"

\* A bridge that was just opened has no backend.
LEMMA OwnedInit == Init => OwnedInv
  BY ChoicesAssumption DEF Init, SessionInit, Idle, OwnedInv, OneBackendOpen, NoInstance

\* A replacement is opened and planned before the backend it replaces is closed, and only one
\* of them stays.
LEMMA ReplaceOwns ==
  ASSUME HistoryInv, OneBackendOpen, bridge'.state = bridge.state, bridge.state = "open",
         NEW choice \in Choices, NEW exposure \in BOOLEAN, Replace(choice, exposure)
  PROVE  OneBackendOpen'
  <1> USE DEF OneBackendOpen
  <1>1. CASE OpenRefused
    BY <1>1 DEF OpenRefused, sessionVars
  <1>2. session.backend \in Int /\ opened \in Nat /\ session.backend <= opened
    BY InstancesAssumption DEF HistoryInv, SessionRecord, Instance, NoInstance
  <1>3. CASE PlanRefused
    <2>1. opened + 1 \notin open
      BY <1>2
    <2> QED BY <1>3, <2>1 DEF PlanRefused, PlanRefusedClosing
  <1>4. CASE Adopt(choice, exposure)
    <2>1. session'.backend = opened + 1 /\ session'.effective = choice
      BY <1>4 DEF HistoryInv, SessionRecord, Adopt, AdoptWith
    <2>2. open' = {opened + 1}
      BY <1>2, <1>4 DEF Adopt, AdoptWith, NoInstance
    <2> QED BY <1>2, <2>1, <2>2, ChoicesAssumption DEF NoInstance
  <1> QED BY <1>1, <1>3, <1>4 DEF Replace

\* Steps that leave the session, what is open and the bridge's state alone.
LEMMA OwnedKept ==
  ASSUME OwnedInv, UNCHANGED <<open, bridge>>, session'.backend = session.backend,
         session'.effective = session.effective, call' \in {call, Idle}
  PROVE  OwnedInv'
  <1>1. call'.op # "none" => call.op # "none"
    BY DEF Idle
  <1> QED BY <1>1, Zenon DEF OwnedInv, OneBackendOpen

\* The same, when other fields of the bridge change.
LEMMA StateKept ==
  ASSUME OwnedInv, open' = open, "state" \in DOMAIN bridge', bridge'.state = bridge.state,
         session'.backend = session.backend, session'.effective = session.effective,
         call'.op # "none" => bridge.state = "open"
  PROVE  OwnedInv'
  BY Zenon DEF OwnedInv, OneBackendOpen

\* Every step leaves exactly the session's backend open.
LEMMA OwnedStep == BridgeInv /\ OwnedInv /\ [Next]_vars => OwnedInv'
  <1> SUFFICES ASSUME BridgeInv, OwnedInv, [Next]_vars PROVE OwnedInv'
    OBVIOUS
  <1> USE DEF sessionVars, cpuVars
  <1>0. ASSUME NEW op, NEW value, NEW arguments, Start(op, value, arguments)
        PROVE  OwnedInv'
    <2>1. "state" \in DOMAIN bridge' /\ bridge'.state = bridge.state
      BY <1>0 DEF OwnedInv, Start, FlushFor
    <2> QED BY <1>0, <2>1, StateKept DEF Start
  <1>1. CASE CallSelect \/ CallAutoExposure \/ CallEvaluate \/ CallDestroy
    BY <1>0, <1>1 DEF CallSelect, CallAutoExposure, CallEvaluate, CallDestroy, DestroyAfter
  <1>2. CASE SelectAfterWait
    <2>1. bridge.state = "open" /\ bridge' = bridge /\ call'.op = "none"
      BY <1>2 DEF SelectAfterWait, Returns, OwnedInv, Idle
    <2>2. OneBackendOpen'
      <3>1. CASE SelectNone
        BY <2>1, <3>1 DEF SelectNone, OwnedInv, OneBackendOpen, BridgeInv, HistoryInv, SessionRecord
      <3>2. CASE UNCHANGED sessionVars
        BY <2>1, <3>2 DEF OwnedInv, OneBackendOpen
      <3>3. CASE call.choice # NoChoice /\ Replace(call.choice, session.exposure)
        BY <2>1, <3>3, ReplaceOwns DEF OwnedInv, BridgeInv, CallInv, HistoryInv, SessionRecord
      <3> QED BY <1>2, <3>1, <3>2, <3>3 DEF SelectAfterWait, Select
    <2> QED BY <2>1, <2>2 DEF OwnedInv
  <1>3. CASE AutoExposureAfterWait
    <2>1. bridge.state = "open" /\ bridge' = bridge /\ call'.op = "none"
      BY <1>3 DEF AutoExposureAfterWait, Returns, OwnedInv, Idle
    <2>2. OneBackendOpen'
      <3>1. CASE session.effective # NoChoice /\ Replace(session.effective, call.exposure)
        BY <2>1, <3>1, ReplaceOwns DEF OwnedInv, BridgeInv, CallInv, HistoryInv, SessionRecord
      <3>2. CASE session' = [session EXCEPT !.exposure = call.exposure, !.reset = TRUE] /\ open' = open
        BY <2>1, <3>2 DEF OwnedInv, OneBackendOpen, BridgeInv, HistoryInv, SessionRecord
      <3> QED BY <1>3, <3>1, <3>2 DEF AutoExposureAfterWait, SetAutoExposure
    <2> QED BY <2>1, <2>2 DEF OwnedInv
  <1>4. CASE Resize
    <2>1. "state" \in DOMAIN bridge' /\ bridge'.state = bridge.state /\ bridge.state = "open"
      BY <1>4 DEF OwnedInv, Resize, Returns
    <2> QED BY <1>4, <2>1, StateKept DEF Resize
  <1>5. CASE EvaluateAfterWait
    <2>1. "state" \in DOMAIN bridge' /\ bridge'.state = bridge.state
      <3> PICK at, ok, n : Queue(at, ok, n)
        BY <1>5 DEF EvaluateAfterWait
      <3> QED BY DEF OwnedInv, Queue
    <2>2. open' = open /\ session'.backend = session.backend /\ session'.effective = session.effective
      <3> PICK ok \in BOOLEAN, fits \in BOOLEAN :
                  \/ UNCHANGED <<session, opened, open, seen, submitted>>
                  \/ EvaluateRefused(fits, call.frame)
                  \/ Evaluate(fits, call.frame, ok)
        BY <1>5, Zenon DEF EvaluateAfterWait
      <3>1. CASE EvaluateRefused(fits, call.frame)
        BY <3>1 DEF EvaluateRefused, BridgeInv, HistoryInv, SessionRecord
      <3>2. CASE Evaluate(fits, call.frame, ok)
        BY <3>2 DEF Evaluate, BridgeInv, HistoryInv, SessionRecord
      <3> QED BY <3>1, <3>2
    <2>3. call'.op = "none"
      BY <1>5 DEF EvaluateAfterWait, Idle
    <2> QED BY <2>1, <2>2, <2>3, StateKept
  <1>6. CASE DestroyAfterWait
    <2>1. bridge.state = "open" /\ "state" \in DOMAIN bridge' /\ bridge'.state = "destroyed"
      BY <1>6 DEF DestroyAfterWait, Returns, OwnedInv
    <2>2. open' = {}
      BY <1>6, <2>1 DEF DestroyAfterWait, Close, OwnedInv, OneBackendOpen
    <2>3. session' = session /\ call'.op = "none"
      BY <1>6 DEF DestroyAfterWait, Idle
    <2> QED BY <2>1, <2>2, <2>3 DEF OwnedInv, OneBackendOpen
  <1>7. CASE TimeOut
    <2>1. /\ "state" \in DOMAIN bridge'
          /\ bridge'.state = bridge.state \/ (bridge.state = "open" /\ bridge'.state = "retained")
      BY <1>7 DEF TimeOut, OwnedInv
    <2>2. open' = open /\ session' = session /\ call'.op = "none"
      BY <1>7 DEF TimeOut, Idle
    <2> QED BY <2>1, <2>2 DEF OwnedInv, OneBackendOpen
  <1>8. CASE GameFlush \/ Execute11 \/ Execute12 \/ FinishList
    <2>1. UNCHANGED <<open, bridge, session, call>>
      BY <1>8 DEF GameFlush, Execute11, Execute12, FinishList
    <2> QED BY <2>1, OwnedKept
  <1>9. CASE UNCHANGED vars
    BY <1>9, OwnedKept DEF vars
  <1> QED BY <1>1, <1>2, <1>3, <1>4, <1>5, <1>6, <1>7, <1>8, <1>9 DEF Next, CpuReturns

\* The session never leaves a backend open behind its back, nor names one it has closed,
\* through refused opens and plans, failed evaluations and waits that time out.
THEOREM BackendIsOwned == Spec => []OneBackendOpen
  <1>1. OwnedInv => OneBackendOpen
    BY DEF OwnedInv
  <1> QED BY <1>1, InitInv, StepInv, OwnedInit, OwnedStep, PTL DEF Spec
=============================================================================
