------------------------- MODULE NativeRenderer_proofs --------------------------
(***************************************************************************)
(* Theorems about the life of AC7's native renderer, for any number of     *)
(* scene renderers, outstanding scopes, refused markers and status calls:  *)
(* leases outlive their scopes, hooks go only when nothing needs them, the *)
(* module is unloaded only when nothing of it is queued or running, and    *)
(* the RHI thread enters and leaves the scopes as they nest.               *)
(***************************************************************************)
EXTENDS NativeRenderer, SequenceTheorems, TLAPS

-------------------------------------------------------------------------------
\* Types.

GameAt == {"idle", "tick", "bind", "built"}
RenderAt == {"idle", "submit", "context", "node", "family", "retire", "retiring", "end"}
PresentAt == {"list", "present", "start", "quiesce", "accepting", "quiesced", "guards", "live",
              "uniforms", "retired", "disable", "outer", "destroy"}

GameRecord == [at : GameAt, source : BOOLEAN, outer : BOOLEAN, entry : BOOLEAN]
RenderRecord == [at : RenderAt, cur : Renderers \union {NoRenderer}, frame : BOOLEAN,
                 submission : BOOLEAN, outer : BOOLEAN, entry : BOOLEAN, plan : BOOLEAN]
RendererRecord == [alive : BOOLEAN, active : BOOLEAN, hooked : BOOLEAN]
SessionRecord == [loaded : BOOLEAN, prepared : BOOLEAN, started : BOOLEAN, quiesced : BOOLEAN,
                  transitioning : BOOLEAN]

\* The threads and the session; a thread at work has a renderer.
ThreadTypes ==
    /\ game \in GameRecord /\ render \in RenderRecord /\ renderer \in RendererRecord
    /\ session \in SessionRecord /\ readers \in Nat /\ present \in PresentAt /\ shutdown \in BOOLEAN
    /\ bound \subseteq Renderers /\ uniforms \subseteq Renderers /\ pipe \in Seq(Renderers)
    /\ render.at # "idle" => render.cur \in Renderers
    /\ render.at = "idle" => render.cur = NoRenderer

\* Whether a call runs a hook's body is a Boolean.
LEMMA HookOrNot == \A thread : InHook(thread) \in BOOLEAN
  BY Zenon DEF InHook

\* A thread's step into a detour or back to the engine changes nothing else.
LEMMA WindowKeeps ==
  ASSUME NEW thread, Window(thread)
  PROVE  UNCHANGED <<scopeVars, sessionVars, renderer, bound, uniforms, game, render, pipe, unseen,
                     present, shutdown, refusals>>
  BY Zenon DEF Window, Enters, Returns, WindowUnchanged

\* The initial state is well typed.
LEMMA InitTypes == Init => ThreadTypes
  <1> SUFFICES ASSUME Init PROVE ThreadTypes
    OBVIOUS
  <1>1. game \in GameRecord /\ present \in PresentAt
    BY DEF Init, GameRecord, GameAt, PresentAt
  <1>2. render \in RenderRecord /\ render.at = "idle" /\ render.cur = NoRenderer
    BY DEF Init, RenderRecord, RenderAt
  <1>3. renderer \in RendererRecord /\ session \in SessionRecord
    BY DEF Init, SessionInit, NoSession, RendererRecord, SessionRecord
  <1>4. readers \in Nat /\ shutdown \in BOOLEAN /\ bound = {} /\ uniforms = {}
    BY DEF Init, SessionInit
  <1>5. pipe \in Seq(Renderers)
    BY DEF Init
  <1> QED BY <1>1, <1>2, <1>3, <1>4, <1>5, Zenon DEF ThreadTypes

\* The game thread's steps.
LEMMA GameTypes == ThreadTypes /\ Game => ThreadTypes'
  <1> SUFFICES ASSUME ThreadTypes, Game PROVE ThreadTypes'
    OBVIOUS
  <1> USE DEF GameUnchanged, Uncounted, scopeVars, sessionVars
  <1>1. UNCHANGED <<render, renderer, session, readers, present, shutdown, uniforms>>
    BY DEF Game, TickBegin, ConstructBegin, ConstructEnd
  <1>2. CASE TickBegin
    <2>1. PICK outer, source \in BOOLEAN :
              game' = [game EXCEPT !.at = "tick", !.outer = outer, !.source = source]
      <3>1. InHook("game") \in BOOLEAN /\ (InHook("game") /\ renderer.active) \in BOOLEAN
        BY HookOrNot, Zenon
      <3> QED BY <1>2, <3>1, Zenon DEF TickBegin
    <2>2. game' \in GameRecord
      BY <2>1 DEF ThreadTypes, GameRecord, GameAt
    <2> QED BY <1>1, <1>2, <2>2 DEF TickBegin, ThreadTypes
  <1>3. CASE ConstructBegin
    <2>1. PICK at \in {"bind", "built"}, entry \in BOOLEAN :
              game' = [game EXCEPT !.at = at, !.entry = entry]
      BY <1>3, HookOrNot, Zenon DEF ConstructBegin
    <2>2. game' \in GameRecord
      BY <2>1 DEF ThreadTypes, GameRecord, GameAt
    <2> QED BY <1>1, <1>3, <2>2 DEF ConstructBegin, ThreadTypes
  <1>4. CASE ConstructEnd
    <2>1. game' \in GameRecord
      BY <1>4 DEF ConstructEnd, ThreadTypes, GameRecord, GameAt
    <2>2. pipe' \in Seq(Renderers) /\ bound' \subseteq Renderers
      BY <1>4 DEF ConstructEnd, ThreadTypes
    <2> QED BY <1>1, <2>1, <2>2 DEF ThreadTypes
  <1> QED BY <1>2, <1>3, <1>4 DEF Game

\* What the render thread's steps leave alone.
LEMMA RenderKeeps ==
  ASSUME Render
  PROVE  UNCHANGED <<accepting, stack, session, readers, game, unseen, present, shutdown>>
  <1>1. RenderUnchanged
    BY Zenon DEF Render, RetireOther, FrameBegin, SubmissionBegin, ContextBegin, NodeProcess, NodeSkipped,
                 SubmissionEnd, RetireBegin, RetireEnd, FrameEnd
  <1> QED BY <1>1 DEF RenderUnchanged, sessionVars

\* A renderer may be turned off by them, and nothing else.
LEMMA RendererKept ==
  ASSUME ThreadTypes, Render
  PROVE  /\ renderer' \in RendererRecord /\ renderer'.alive = renderer.alive /\ renderer'.hooked = renderer.hooked
         /\ renderer'.active => renderer.active
  <1>1. \/ renderer' = renderer
        \/ \E no \in BOOLEAN : Deactivate(no)
    <2>1. CASE FrameBegin \/ NodeProcess \/ SubmissionEnd \/ FrameEnd
      BY <2>1, Zenon DEF FrameBegin, NodeProcess, SubmissionEnd, FrameEnd
    <2>2. CASE RetireEnd
      BY <2>2, Zenon DEF RetireEnd, RetireUniforms, UniformsThrough
    <2>3. CASE RetireOther \/ SubmissionBegin \/ ContextBegin \/ NodeSkipped \/ RetireBegin
      BY <2>3, Zenon DEF RetireOther, SubmissionBegin, ContextBegin, NodeSkipped, RetireBegin
    <2> QED BY <2>1, <2>2, <2>3 DEF Render
  <1>2. CASE renderer' = renderer
    BY <1>2 DEF ThreadTypes
  <1>3. ASSUME NEW no \in BOOLEAN, Deactivate(no)
        PROVE  /\ renderer' \in RendererRecord /\ renderer'.alive = renderer.alive
               /\ renderer'.hooked = renderer.hooked /\ (renderer'.active => renderer.active)
    <2>1. (renderer.active /\ ~no) \in BOOLEAN
      BY Zenon
    <2>2. renderer' = [renderer EXCEPT !.active = renderer.active /\ ~no]
      BY <1>3 DEF Deactivate
    <2> QED BY <2>1, <2>2 DEF ThreadTypes, RendererRecord
  <1> QED BY <1>1, <1>2, <1>3

\* Counting in and out, a thread only ever leaves the first set and may join the second.
LEMMA WindowsMove ==
  ASSUME Game \/ Render
  PROVE  entering' \subseteq entering /\ leaving' \subseteq leaving \union Threads /\ unseen' = unseen
  <1> USE DEF CountsIn, CountsOut, Passes, Lingers, Threads
  <1>1. CASE Game
    BY <1>1 DEF Game, TickBegin, ConstructBegin, ConstructEnd, GameUnchanged
  <1>2. CASE Render
    <2>1. unseen' = unseen
      BY <1>2, RenderKeeps
    <2>2. entering' \subseteq entering /\ leaving' \subseteq leaving \union Threads
      <3>1. CASE FrameBegin \/ FrameEnd \/ RetireOther
        <4>1. Passes("render")
          BY <3>1, Zenon DEF FrameBegin, FrameEnd, RetireOther
        <4> QED BY <4>1
      <3>2. CASE SubmissionBegin \/ ContextBegin \/ RetireBegin
        <4>1. CountsIn("render")
          BY <3>2, Zenon DEF SubmissionBegin, ContextBegin, RetireBegin
        <4> QED BY <4>1
      <3>3. CASE NodeProcess \/ NodeSkipped \/ SubmissionEnd \/ RetireEnd
        <4>1. \E held : CountsOut("render", held)
          BY <3>3, Zenon DEF NodeProcess, NodeSkipped, SubmissionEnd, RetireEnd
        <4> QED BY <4>1
      <3> QED BY <1>2, <3>1, <3>2, <3>3 DEF Render
    <2> QED BY <2>1, <2>2
  <1> QED BY <1>1, <1>2

\* Where each of them leaves the render thread.
LEMMA RenderMoves ==
  ASSUME ThreadTypes, Render
  PROVE  /\ render' \in RenderRecord
         /\ render'.at # "idle" => render'.cur \in Renderers
         /\ render'.at = "idle" => render'.cur = NoRenderer
         /\ pipe' \in Seq(Renderers)
         /\ bound' \subseteq bound /\ uniforms' \subseteq uniforms \union {render.cur}
         /\ (uniforms' \subseteq uniforms \/ render.at = "node")
  <1> USE DEF ThreadTypes, RenderTo
  <1>1. CASE FrameBegin
    <2>1. Head(pipe) \in Renderers /\ pipe' \in Seq(Renderers)
      BY <1>1 DEF FrameBegin
    <2>2. PICK frame \in BOOLEAN :
              render' = [render EXCEPT !.at = "submit", !.cur = Head(pipe), !.frame = frame]
      BY <1>1, Zenon DEF FrameBegin
    <2>3. render' \in RenderRecord /\ render'.at = "submit" /\ render'.cur = Head(pipe)
      BY <2>1, <2>2 DEF RenderRecord, RenderAt
    <2> QED BY <1>1, <2>1, <2>3 DEF FrameBegin
  <1>2. CASE SubmissionBegin
    <2>1. PICK submission, outer \in BOOLEAN :
              render' = [render EXCEPT !.at = "context", !.submission = submission, !.outer = outer]
      BY <1>2, HookOrNot, Zenon DEF SubmissionBegin, Hooked
    <2>2. render' \in RenderRecord /\ render'.at = "context" /\ render'.cur = render.cur
      BY <2>1 DEF RenderRecord, RenderAt
    <2> QED BY <1>2, <2>2 DEF SubmissionBegin
  <1>3. CASE ContextBegin
    <2>1. PICK plan, entry \in BOOLEAN :
              render' = [render EXCEPT !.at = "node", !.entry = entry, !.plan = plan]
      BY <1>3, HookOrNot, Zenon DEF ContextBegin, Hooked
    <2>2. render' \in RenderRecord /\ render'.at = "node" /\ render'.cur = render.cur
      BY <2>1 DEF RenderRecord, RenderAt
    <2> QED BY <1>3, <2>2 DEF ContextBegin
  <1>4. CASE NodeProcess
    <2>1. render' \in RenderRecord /\ render'.at = "family" /\ render'.cur = render.cur
      BY <1>4 DEF NodeProcess, RenderRecord, RenderAt
    <2> QED BY <1>4, <2>1 DEF NodeProcess
  <1>5. CASE NodeSkipped
    <2>1. render' \in RenderRecord /\ render'.at = "family" /\ render'.cur = render.cur
      BY <1>5 DEF NodeSkipped, RenderRecord, RenderAt
    <2> QED BY <1>5, <2>1 DEF NodeSkipped
  <1>6. CASE SubmissionEnd
    <2>1. render' \in RenderRecord /\ render'.at = "retire" /\ render'.cur = render.cur
      BY <1>6 DEF SubmissionEnd, RenderRecord, RenderAt
    <2> QED BY <1>6, <2>1 DEF SubmissionEnd
  <1>7. CASE RetireBegin
    <2>1. PICK outer \in BOOLEAN : render' = [render EXCEPT !.at = "retiring", !.outer = outer]
      BY <1>7, HookOrNot, Zenon DEF RetireBegin, Hooked
    <2>2. render' \in RenderRecord /\ render'.at = "retiring" /\ render'.cur = render.cur
      BY <2>1 DEF RenderRecord, RenderAt
    <2> QED BY <1>7, <2>2 DEF RetireBegin
  <1>8. CASE RetireEnd
    <2>1. render' \in RenderRecord /\ render'.at = "end" /\ render'.cur = render.cur
      BY <1>8 DEF RetireEnd, RenderRecord, RenderAt
    <2>2. uniforms' \subseteq uniforms
      BY <1>8 DEF RetireEnd, RetireUniforms, UniformsThrough
    <2> QED BY <1>8, <2>1, <2>2 DEF RetireEnd
  <1>9. CASE FrameEnd
    <2>1. render' \in RenderRecord /\ render'.at = "idle" /\ render'.cur = NoRenderer
      BY <1>9 DEF FrameEnd, RenderRecord, RenderAt
    <2> QED BY <1>9, <2>1 DEF FrameEnd
  <1>10. CASE RetireOther
    BY <1>10 DEF RetireOther
  <1> QED BY <1>1, <1>2, <1>3, <1>4, <1>5, <1>6, <1>7, <1>8, <1>9, <1>10 DEF Render

\* The RHI thread's steps.
LEMMA RhiTypes ==
  ASSUME ThreadTypes, Rhi
  PROVE  /\ UNCHANGED <<game, render, pipe, readers, bound, uniforms, shutdown>>
         /\ renderer' \in RendererRecord /\ session' \in SessionRecord /\ present' \in PresentAt
  <1> USE DEF RhiUnchanged, sessionVars, PresentStep
  <1>1. UNCHANGED <<game, render, pipe, readers, bound, uniforms, shutdown>>
    BY DEF Rhi, Execute, PresentReturns, StartBegin, StartHook, QuiesceBegin, QuiesceActive, QuiesceScopes,
           QuiesceEnd, Stop, StopBegin, StopRead, StopReads, StopBusy, ReadGuards, ReadLive, ReadUniforms,
           ReadRetired, DisableHooks, ReadOuter, Destroy
  <1>2. present' \in PresentAt
    <2>1. CASE Execute
      BY <2>1 DEF Execute, ThreadTypes, PresentAt
    <2>2. CASE ~Execute
      BY <2>2 DEF Rhi, PresentReturns, StartBegin, StartHook, QuiesceBegin, QuiesceActive, QuiesceScopes,
           QuiesceEnd, Stop, StopBegin, StopRead, StopReads, StopBusy, ReadGuards, ReadLive, ReadUniforms,
           ReadRetired, DisableHooks, ReadOuter, Destroy, PresentAt
    <2> QED BY <2>1, <2>2
  <1>3. renderer' \in RendererRecord
    <2>1. \/ renderer' = renderer
          \/ \E patched \in BOOLEAN : renderer' = [renderer EXCEPT !.active = patched]
          \/ renderer' = [renderer EXCEPT !.hooked = FALSE]
          \/ renderer' = [renderer EXCEPT !.alive = FALSE]
      BY DEF Rhi, Execute, PresentReturns, StartBegin, StartHook, QuiesceBegin, QuiesceActive, QuiesceScopes,
           QuiesceEnd, Stop, StopBegin, StopRead, StopReads, StopBusy, ReadGuards, ReadLive, ReadUniforms,
           ReadRetired, DisableHooks, ReadOuter, Destroy
    <2> QED BY <2>1 DEF ThreadTypes, RendererRecord
  <1>4. session' \in SessionRecord
    <2>1. CASE StartHook
      <3>1. PICK patched \in BOOLEAN : Started(patched)
        BY <2>1 DEF StartHook
      <3>2. (patched \/ session.started) \in BOOLEAN
        BY Zenon
      <3> QED BY <3>1, <3>2 DEF Started, ThreadTypes, SessionRecord
    <2>2. CASE ~StartHook
      <3>1. (session' = session) \/ Transition \/ Quiesced \/ StopRefused \/ Stopped
        BY <2>2 DEF Rhi, Execute, PresentReturns, StartBegin, QuiesceBegin, QuiesceActive, QuiesceScopes,
           QuiesceEnd, Stop, StopBegin, StopRead, StopReads, StopBusy, ReadGuards, ReadLive, ReadUniforms,
           ReadRetired, DisableHooks, ReadOuter, Destroy
      <3>2. CASE session' = session
        BY <3>2 DEF ThreadTypes
      <3>3. CASE Transition \/ Quiesced \/ StopRefused
        BY <3>3 DEF Transition, Quiesced, StopRefused, ThreadTypes, SessionRecord
      <3>4. CASE Stopped
        BY <3>4 DEF Stopped, NoSession, SessionRecord
      <3> QED BY <3>1, <3>2, <3>3, <3>4
    <2> QED BY <2>1, <2>2
  <1> QED BY <1>1, <1>2, <1>3, <1>4

\* The other threads' steps.
LEMMA OtherTypes ==
  ASSUME ThreadTypes, Others
  PROVE  /\ UNCHANGED <<open, list, stack, retired, render, pipe, bound, uniforms, present>>
         /\ game' \in GameRecord /\ renderer' \in RendererRecord /\ session' \in SessionRecord
         /\ readers' \in Nat /\ shutdown' \in BOOLEAN
  <1> USE DEF OthersUnchanged, sessionVars
  <1>1. UNCHANGED <<open, list, stack, retired, render, pipe, bound, uniforms, present>>
    BY DEF Others, Prepare, PrepareFails, PrepareFailsUnseen, RequestShutdown, StatusBegin, StatusEnd
  <1>2. CASE Prepare
    BY <1>1, <1>2 DEF Prepare, Prepared, NoSession, ThreadTypes, RendererRecord, SessionRecord
  <1>3. CASE PrepareFails
    <2>1. game' \in GameRecord
      BY <1>3 DEF PrepareFails, ThreadTypes, GameRecord
    <2> QED BY <1>1, <1>3, <2>1 DEF PrepareFails, Retained, NoSession, ThreadTypes, RendererRecord, SessionRecord
  <1>4. CASE RequestShutdown
    BY <1>1, <1>4 DEF RequestShutdown, ThreadTypes
  <1>5. CASE StatusBegin \/ StatusEnd
    BY <1>1, <1>5 DEF StatusBegin, StatusEnd, ReadBegin, ReadEnd, ThreadTypes
  <1>6. CASE PrepareFailsUnseen
    BY <1>1, <1>6 DEF PrepareFailsUnseen, ThreadTypes
  <1> QED BY <1>2, <1>3, <1>4, <1>5, <1>6 DEF Others

\* Every step keeps the types.
LEMMA TypesStep == ThreadTypes /\ [Next]_vars => ThreadTypes'
  <1> SUFFICES ASSUME ThreadTypes, [Next]_vars PROVE ThreadTypes'
    OBVIOUS
  <1>1. CASE Game
    BY <1>1, GameTypes
  <1>2. CASE Render
    BY <1>2, RenderKeeps, RendererKept, RenderMoves DEF ThreadTypes, RenderRecord, RenderTo
  <1>3. CASE Rhi
    BY <1>3, RhiTypes DEF ThreadTypes
  <1>4. CASE Others
    BY <1>4, OtherTypes DEF ThreadTypes
  <1>5. CASE UNCHANGED vars
    BY <1>5 DEF vars, sessionVars, ThreadTypes
  <1>6. CASE \E thread \in Threads : Window(thread)
    BY <1>6, WindowKeeps DEF sessionVars, ThreadTypes
  <1> QED BY <1>1, <1>2, <1>3, <1>4, <1>5, <1>6 DEF Next

-------------------------------------------------------------------------------
\* The plugin session.

\* What the RHI thread does in Present between the two ends of a session's call.
InCall == {"start", "quiesce", "accepting", "quiesced", "guards", "live", "uniforms", "retired", "disable",
           "outer", "destroy"}

\* The calls into the plugin exclude each other and the readers, and need the module.
CallInv ==
    /\ session.transitioning <=> present \in InCall
    /\ session.transitioning => readers = 0 /\ session.loaded
    /\ ~session.loaded => readers = 0

\* Every step keeps it.
LEMMA CallStep == ThreadTypes /\ CallInv /\ [Next]_vars => CallInv'
  <1> SUFFICES ASSUME ThreadTypes, CallInv, [Next]_vars PROVE CallInv'
    OBVIOUS
  <1>1. CASE UNCHANGED <<session, readers, present>>
    BY <1>1 DEF CallInv
  <1>2. CASE Rhi
    <2>1. readers' = readers
      BY <1>2, RhiTypes
    <2>2. CASE Execute \/ PresentReturns
      <3>1. session' = session /\ present \notin InCall /\ present' \notin InCall
        BY <2>2 DEF Execute, PresentReturns, PresentStep, InCall, sessionVars
      <3> QED BY <2>1, <3>1 DEF CallInv
    <2>3. CASE StartBegin \/ QuiesceBegin \/ StopBegin
      <3>1. Transition /\ ~Busy /\ session.loaded /\ present' \in InCall
        BY <2>3 DEF StartBegin, QuiesceBegin, StopBegin, MayStart, MayQuiesce, MayStop, PresentStep, InCall
      <3> QED BY <2>1, <3>1 DEF CallInv, Transition, Busy, ThreadTypes, SessionRecord
    <2>4. CASE StartHook \/ QuiesceEnd
      <3>1. present \in InCall /\ present' \notin InCall /\ session'.loaded = session.loaded /\ ~session'.transitioning
        <4>1. CASE StartHook
          BY <4>1 DEF StartHook, Started, PresentStep, InCall, ThreadTypes, SessionRecord
        <4>2. CASE QuiesceEnd
          BY <4>2 DEF QuiesceEnd, Quiesced, PresentStep, InCall, ThreadTypes, SessionRecord
        <4> QED BY <2>4, <4>1, <4>2
      <3> QED BY <2>1, <3>1 DEF CallInv
    <2>5. CASE \E from \in InCall, to \in InCall : PresentStep(from, to) /\ session' = session
      BY <2>1, <2>5 DEF CallInv, PresentStep
    <2>6. CASE \E from \in InCall : PresentStep(from, "list") /\ (StopRefused \/ Stopped)
      <3>1. present \in InCall /\ present' \notin InCall /\ ~session'.transitioning
        BY <2>6 DEF StopRefused, Stopped, NoSession, PresentStep, InCall, ThreadTypes, SessionRecord
      <3>2. (session'.loaded = session.loaded) \/ readers' = 0
        BY <2>1, <2>6, <3>1 DEF CallInv, StopRefused, ThreadTypes, SessionRecord
      <3> QED BY <2>1, <3>1, <3>2 DEF CallInv
    <2>7. CASE \/ QuiesceActive \/ QuiesceScopes \/ ReadGuards \/ ReadLive \/ ReadUniforms \/ ReadRetired
               \/ DisableHooks \/ ReadOuter \/ Destroy
      <3>1. \/ \E from \in InCall, to \in InCall : PresentStep(from, to) /\ session' = session
            \/ \E from \in InCall : PresentStep(from, "list") /\ (StopRefused \/ Stopped)
        BY <2>7 DEF QuiesceActive, QuiesceScopes, ReadGuards, ReadLive, ReadUniforms, ReadRetired, DisableHooks,
                    ReadOuter, Destroy, StopRead, StopReads, StopBusy, InCall
      <3> QED BY <2>5, <2>6, <3>1
    <2> QED BY <1>2, <2>2, <2>3, <2>4, <2>7 DEF Rhi, Stop
  <1>3. CASE Others
    <2>1. present' = present
      BY <1>3, OtherTypes
    <2>2. CASE Prepare \/ PrepareFails
      <3>1. session' \in {Prepared, Retained} /\ readers' = readers /\ ~session.loaded
        BY <2>2 DEF Prepare, PrepareFails, Unprepared
      <3> QED BY <2>1, <3>1 DEF CallInv, Prepared, Retained, NoSession
    <2>3. CASE PrepareFailsUnseen \/ RequestShutdown \/ StatusBegin \/ StatusEnd
      BY <2>1, <2>3 DEF PrepareFailsUnseen, RequestShutdown, StatusBegin, StatusEnd, ReadBegin, ReadEnd, MayRead,
                        sessionVars, CallInv, ThreadTypes
    <2> QED BY <1>3, <2>2, <2>3 DEF Others
  <1>4. CASE Game \/ Render
    BY <1>1, <1>4, RenderKeeps DEF Game, TickBegin, ConstructBegin, ConstructEnd, GameUnchanged, sessionVars
  <1>5. CASE \E thread \in Threads : Window(thread)
    BY <1>1, <1>5, WindowKeeps DEF sessionVars
  <1> QED BY <1>1, <1>2, <1>3, <1>4, <1>5 DEF Next, vars, sessionVars

\* start, quiesce and stop are alone in the plugin: no status call is inside it while they are.
THEOREM CallsAreAlone == Spec => []HookCallsAlone
  <1>1. Init => CallInv
    BY DEF Init, SessionInit, NoSession, CallInv, InCall
  <1>2. CallInv => HookCallsAlone
    BY DEF CallInv, HookCallsAlone
  <1> QED BY <1>1, <1>2, InitTypes, TypesStep, CallStep, PTL DEF Spec

-------------------------------------------------------------------------------
\* The command list.

IsMarker(c) == c.op \in {"begin", "end"}
Queues(l, c) == \E i \in 1..Len(l) : l[i] = c

\* Every marker of the list l has its ticket among o, and none is behind its ticket's end.
ListInv(l, o) ==
    /\ l \in Seq(Command)
    /\ \A i \in 1..Len(l) : IsMarker(l[i]) => l[i].of \in o
    /\ \A i, j \in 1..Len(l) : i < j /\ l[i].op = "end" /\ IsMarker(l[j]) => l[j].of # l[i].of

\* What the markers and the other commands are.
LEMMA Commands ==
  /\ \A t \in Ticket : /\ Begin(t) \in Command /\ IsMarker(Begin(t)) /\ Begin(t).of = t /\ Begin(t).op # "end"
                       /\ End(t) \in Command /\ IsMarker(End(t)) /\ End(t).of = t
                       /\ \A u \in Ticket : End(t) # Begin(u) /\ (u # t => End(t) # End(u))
  /\ \A r \in Renderers : /\ Draw(r) \in Command /\ ~IsMarker(Draw(r))
                          /\ Present(r) \in Command /\ ~IsMarker(Present(r))
                          /\ \A t \in Ticket : End(t) # Draw(r) /\ End(t) # Present(r)
  /\ \A c \in Command : c.op = "end" => c.of \in Ticket /\ c = End(c.of)
  BY DEF Command, IsMarker, Begin, End, Draw, Present

\* What a command at the end of the list changes.
LEMMA Appended ==
  ASSUME NEW l \in Seq(Command), NEW c \in Command
  PROVE  /\ Append(l, c) \in Seq(Command) /\ Len(Append(l, c)) = Len(l) + 1
         /\ \A i \in 1..Len(l) : Append(l, c)[i] = l[i]
         /\ Append(l, c)[Len(l) + 1] = c
         /\ \A d : Queues(Append(l, c), d) => Queues(l, d) \/ d = c
  BY DEF Queues

\* A command that is no marker.
LEMMA AppendOther ==
  ASSUME NEW l, NEW o, ListInv(l, o), NEW c \in Command, ~IsMarker(c)
  PROVE  ListInv(Append(l, c), o)
  <1>1. l \in Seq(Command)
    BY DEF ListInv
  <1> QED BY <1>1, Appended DEF ListInv

\* The begin marker of a new ticket.
LEMMA AppendBegin ==
  ASSUME NEW l, NEW o, ListInv(l, o), NEW t \in Ticket, t \notin o
  PROVE  ListInv(Append(l, Begin(t)), o \union {t})
  <1>1. l \in Seq(Command) /\ Begin(t) \in Command /\ Begin(t).of = t /\ Begin(t).op # "end"
    BY Commands DEF ListInv
  <1>2. \A i \in 1..Len(l) : l[i].op = "end" => l[i].of # t
    BY DEF ListInv, IsMarker
  <1> QED BY <1>1, <1>2, Appended DEF ListInv

\* The end marker of a ticket that has none.
LEMMA AppendEnd ==
  ASSUME NEW l, NEW o, ListInv(l, o), NEW t \in Ticket, t \in o, ~Queues(l, End(t))
  PROVE  ListInv(Append(l, End(t)), o)
  <1>1. l \in Seq(Command) /\ End(t) \in Command /\ End(t).of = t
    BY Commands DEF ListInv
  <1>2. \A i \in 1..Len(l) : l[i].op = "end" => l[i].of # t
    <2>1. SUFFICES ASSUME NEW i \in 1..Len(l), l[i].op = "end", l[i].of = t PROVE FALSE
      OBVIOUS
    <2>2. l[i] \in Command
      BY <1>1
    <2>3. l[i] = End(t)
      BY <2>1, <2>2, Commands
    <2> QED BY <2>3 DEF Queues
  <1> QED BY <1>1, <1>2, Appended DEF ListInv

\* The execution of the first command: an end takes its ticket with it.
LEMMA Executed ==
  ASSUME NEW l, NEW o, ListInv(l, o), l # <<>>
  PROVE  /\ Head(l) \in Command
         /\ IsMarker(Head(l)) => Head(l).of \in o
         /\ Head(l).op = "end" => Queues(l, End(Head(l).of)) /\ ListInv(Tail(l), o \ {Head(l).of})
         /\ ListInv(Tail(l), o)
         /\ \A c : Queues(Tail(l), c) => Queues(l, c)
  <1>1. /\ l \in Seq(Command) /\ Len(l) > 0 /\ Head(l) = l[1] /\ Head(l) \in Command
        /\ Tail(l) \in Seq(Command) /\ Len(Tail(l)) = Len(l) - 1
        /\ \A i \in 1..Len(Tail(l)) : Tail(l)[i] = l[i + 1]
    BY DEF ListInv
  <1>2. ListInv(Tail(l), o)
    BY <1>1 DEF ListInv
  <1>3. IsMarker(Head(l)) => Head(l).of \in o
    BY <1>1 DEF ListInv
  <1>4. \A c : Queues(Tail(l), c) => Queues(l, c)
    BY <1>1 DEF Queues
  <1>5. ASSUME Head(l).op = "end" PROVE Queues(l, End(Head(l).of)) /\ ListInv(Tail(l), o \ {Head(l).of})
    <2>1. Queues(l, End(Head(l).of))
      BY <1>1, <1>5, Commands DEF Queues
    <2>2. \A i \in 1..Len(Tail(l)) : IsMarker(Tail(l)[i]) => Tail(l)[i].of # Head(l).of
      BY <1>1, <1>5 DEF ListInv
    <2> QED BY <1>2, <2>1, <2>2 DEF ListInv
  <1> QED BY <1>1, <1>2, <1>3, <1>4, <1>5

\* One command behind another.
LEMMA Joined ==
  ASSUME NEW l \in Seq(Command)
  PROVE  l \o <<>> = l /\ \A c \in Command : l \o <<c>> = Append(l, c)
  OBVIOUS

-------------------------------------------------------------------------------
\* Tickets and leases.

Fresh(r, k) == <<r, k>> \notin open \union retired

\* A ticket that the render thread has still to end.
Held(t) == t \in open /\ ~Queues(list, End(t))

HeldInv ==
    /\ render.frame => render.at # "idle" /\ Held(<<render.cur, "frame">>)
    /\ render.submission => render.at \in {"context", "node", "family"} /\ Held(<<render.cur, "submission">>)

\* The kinds that the renderer on the render thread has not used yet.
FreshInv ==
    /\ render.at = "submit" => Fresh(render.cur, "submission")
    /\ render.at \in {"submit", "context", "node"} => Fresh(render.cur, "sr")
    /\ render.at \in {"submit", "context", "node", "family", "retire", "retiring"} => Fresh(render.cur, "uniforms")

\* Renderers in the pipe are new and different.
PipeInv ==
    /\ \A i \in 1..Len(pipe) : pipe[i] # render.cur /\ \A k \in Kind : Fresh(pipe[i], k)
    /\ \A i, j \in 1..Len(pipe) : pipe[i] = pipe[j] => i = j

TicketInv ==
    /\ open \subseteq Ticket /\ retired \subseteq Leases /\ retired \intersect open = {}
    /\ ListInv(list, open) /\ HeldInv /\ FreshInv /\ PipeInv


\* A ticket that does not exist has no end marker.
LEMMA NoEndOfClosed ==
  ASSUME NEW l, NEW o, ListInv(l, o), NEW t \in Ticket, t \notin o
  PROVE  ~Queues(l, End(t))
  BY Commands DEF ListInv, Queues

\* What Enclose leaves in the list.
LEMMA EnclosedList ==
  ASSUME list \in Seq(Command), NEW t \in Ticket, NEW closes \in BOOLEAN, NEW r \in Renderers,
         NEW behind \in {<<>>, <<Draw(r)>>}, Enclose(t, closes, behind)
  PROVE  LET begun == Append(list, Begin(t))
             ended == IF closes THEN Append(begun, End(t)) ELSE begun
         IN  list' = IF behind = <<>> THEN ended ELSE Append(ended, Draw(r))
  <1> DEFINE begun == Append(list, Begin(t))
             ended == IF closes THEN Append(begun, End(t)) ELSE begun
             drawn == IF behind = <<>> THEN ended ELSE Append(ended, Draw(r))
  <1>1. Begin(t) \in Command /\ End(t) \in Command /\ Draw(r) \in Command
    BY Commands
  <1>2. list' = list \o <<Begin(t)>> \o ((IF closes THEN <<End(t)>> ELSE <<>>) \o behind)
    BY DEF Enclose, Open
  <1>3. list \o <<Begin(t)>> = begun /\ begun \in Seq(Command)
    BY <1>1
  <1>4. list' = begun \o ((IF closes THEN <<End(t)>> ELSE <<>>) \o behind)
    BY <1>2, <1>3
  <1> HIDE DEF begun
  <1>5. \A a, b \in Command : begun \o (<<a>> \o <<b>>) = Append(Append(begun, a), b)
    BY <1>3
  <1>6. \A a \in Command : begun \o (<<a>> \o <<>>) = Append(begun, a) /\ begun \o (<<>> \o <<a>>) = Append(begun, a)
    BY <1>3
  <1>7. begun \o (<<>> \o <<>>) = begun
    BY <1>3
  <1>8. <<Draw(r)>> # <<>>
    OBVIOUS
  <1>9. list' = drawn
    BY <1>1, <1>4, <1>5, <1>6, <1>7, <1>8
  <1> QED BY <1>9 DEF begun

\* A ticket that is opened and perhaps closed at once.
LEMMA Enclosed ==
  ASSUME ListInv(list, open), NEW t \in Ticket, t \notin open, NEW closes \in BOOLEAN, NEW r \in Renderers,
         NEW behind \in {<<>>, <<Draw(r)>>}, Enclose(t, closes, behind)
  PROVE  /\ open' = open \union {t} /\ ListInv(list', open')
         /\ \A u \in Ticket : u # t /\ Queues(list', End(u)) => Queues(list, End(u))
  <1> DEFINE begun == Append(list, Begin(t))
             ended == IF closes THEN Append(begun, End(t)) ELSE begun
             drawn == IF behind = <<>> THEN ended ELSE Append(ended, Draw(r))
  <1>1. list \in Seq(Command) /\ Begin(t) \in Command /\ End(t) \in Command /\ Draw(r) \in Command
    BY Commands DEF ListInv
  <1>2. list' = drawn /\ open' = open \union {t}
    BY <1>1, EnclosedList DEF Enclose, Open
  <1>3. ListInv(begun, open \union {t})
        /\ \A u \in Ticket : Queues(begun, End(u)) => Queues(list, End(u))
    BY <1>1, AppendBegin, Appended, Commands
  <1>4. ~Queues(begun, End(t))
    BY <1>3, NoEndOfClosed
  <1>5. ListInv(ended, open \union {t})
        /\ \A u \in Ticket : u # t /\ Queues(ended, End(u)) => Queues(list, End(u))
    <2> HIDE DEF begun
    <2>1. begun \in Seq(Command)
      BY <1>3 DEF ListInv
    <2>2. ListInv(Append(begun, End(t)), open \union {t})
      BY <1>3, <1>4, AppendEnd
    <2>3. \A u \in Ticket : u # t /\ Queues(Append(begun, End(t)), End(u)) => Queues(list, End(u))
      BY <1>1, <1>3, <2>1, Appended, Commands
    <2> QED BY <1>3, <2>2, <2>3
  <1>6. ListInv(drawn, open \union {t})
        /\ \A u \in Ticket : u # t /\ Queues(drawn, End(u)) => Queues(list, End(u))
    <2> HIDE DEF ended
    <2>1. ended \in Seq(Command)
      BY <1>5 DEF ListInv
    <2>2. ListInv(Append(ended, Draw(r)), open \union {t})
      BY <1>5, AppendOther, Commands
    <2>3. \A u \in Ticket : u # t /\ Queues(Append(ended, Draw(r)), End(u)) => Queues(list, End(u))
      BY <1>1, <1>5, <2>1, Appended, Commands
    <2> QED BY <1>5, <2>2, <2>3
  <1> HIDE DEF drawn
  <1> QED BY <1>2, <1>6

\* A ticket whose end marker is still to come.
LEMMA Opened ==
  ASSUME ListInv(list, open), NEW t \in Ticket, t \notin open, Open(t, <<>>)
  PROVE  /\ open' = open \union {t} /\ ListInv(list', open')
         /\ \A u \in Ticket : Queues(list', End(u)) => Queues(list, End(u))
  <1>1. list \in Seq(Command) /\ Begin(t) \in Command
    BY Commands DEF ListInv
  <1>2. list' = Append(list, Begin(t))
    <2>1. list \o <<Begin(t)>> = Append(list, Begin(t)) /\ Append(list, Begin(t)) \in Seq(Command)
      BY <1>1
    <2> QED BY <2>1 DEF Open
  <1>3. ListInv(Append(list, Begin(t)), open \union {t})
    BY AppendBegin
  <1>5. open' = open \union {t}
    BY DEF Open
  <1>4. \A u \in Ticket : Queues(list', End(u)) => Queues(list, End(u))
    BY <1>1, <1>2, Appended, Commands
  <1> QED BY <1>2, <1>3, <1>4, <1>5

\* A renderer enters the pipe.
LEMMA TicketConstructEnd ==
  ASSUME ThreadTypes, TicketInv, ConstructEnd
  PROVE  TicketInv'
  <1>1. UNCHANGED <<open, list, retired, render>>
    BY DEF ConstructEnd, GameUnchanged, scopeVars
  <1>2. PICK r \in Renderers : Unused(r) /\ pipe' = Append(pipe, r)
    BY DEF ConstructEnd
  <1>3. /\ r # render.cur /\ \A k \in Kind : Fresh(r, k)
        /\ \A i \in 1..Len(pipe) : pipe[i] # r
    BY <1>2 DEF Unused, ThreadTypes, Fresh
  <1>4. PipeInv'
    BY <1>1, <1>2, <1>3 DEF TicketInv, PipeInv, ThreadTypes, Fresh
  <1> QED BY <1>1, <1>4 DEF TicketInv, HeldInv, FreshInv, Held, Fresh, Queues, ListInv

\* A renderer's frame begins.
LEMMA TicketFrameBegin ==
  ASSUME ThreadTypes, TicketInv, FrameBegin
  PROVE  TicketInv'
  <1> DEFINE t == <<Head(pipe), "frame">>
  <1>1. /\ render.at = "idle" /\ Head(pipe) \in Renderers /\ Head(pipe) = pipe[1] /\ Len(pipe) > 0
        /\ pipe' = Tail(pipe) /\ retired' = retired
        /\ Len(pipe') = Len(pipe) - 1 /\ \A i \in 1..Len(pipe') : pipe'[i] = pipe[i + 1]
    BY DEF FrameBegin, RenderTo, ThreadTypes
  <1>2. t \in Ticket /\ \A k \in Kind : Fresh(Head(pipe), k)
    BY <1>1 DEF TicketInv, PipeInv, Ticket, Kind
  <1>3. t \notin open
    BY <1>2 DEF Fresh, Kind
  <1>4. PICK opens \in BOOLEAN :
            /\ IF opens THEN Open(t, <<>>) ELSE UNCHANGED <<open, list>>
            /\ render' = [render EXCEPT !.at = "submit", !.cur = Head(pipe), !.frame = render.frame \/ opens]
    BY Zenon DEF FrameBegin
  <1>5. ~render.frame /\ ~render.submission
    BY <1>1 DEF TicketInv, HeldInv
  <1>6. render'.at = "submit" /\ render'.cur = Head(pipe) /\ ~render'.submission /\ (render'.frame => opens)
    BY <1>4, <1>5 DEF ThreadTypes, RenderRecord
  <1>7. /\ open' = (IF opens THEN open \union {t} ELSE open) /\ ListInv(list', open')
        /\ \A u \in Ticket : Queues(list', End(u)) => Queues(list, End(u))
    <2>1. CASE opens
      BY <1>2, <1>3, <1>4, <2>1, Opened DEF TicketInv
    <2>2. CASE ~opens
      BY <1>4, <2>2 DEF TicketInv, Queues, ListInv
    <2> QED BY <2>1, <2>2
  <1>8. HeldInv'
    <2>1. ~Queues(list, End(t))
      BY <1>2, <1>3, NoEndOfClosed DEF TicketInv
    <2> QED BY <1>2, <1>6, <1>7, <2>1 DEF HeldInv, Held
  <1>9. FreshInv'
    BY <1>1, <1>2, <1>6, <1>7 DEF FreshInv, Fresh, Kind
  <1>10. PipeInv'
    <2>1. \A i \in 1..Len(pipe') : pipe'[i] # Head(pipe) /\ \A k \in Kind : Fresh(pipe'[i], k)
      BY <1>1 DEF TicketInv, PipeInv
    <2>2. \A i, j \in 1..Len(pipe') : pipe'[i] = pipe'[j] => i = j
      BY <1>1 DEF TicketInv, PipeInv
    <2> QED BY <1>1, <1>6, <1>7, <2>1, <2>2 DEF PipeInv, Fresh
  <1>11. open' \subseteq Ticket /\ retired' \intersect open' = {} /\ retired' \subseteq Leases
    <2>1. t \notin retired
      BY <1>2 DEF Fresh, Kind
    <2> QED BY <1>1, <1>2, <1>7, <2>1 DEF TicketInv
  <1> QED BY <1>7, <1>8, <1>9, <1>10, <1>11 DEF TicketInv

\* Its submission begins.
LEMMA TicketSubmissionBegin ==
  ASSUME ThreadTypes, TicketInv, SubmissionBegin
  PROVE  TicketInv'
  <1> DEFINE t == <<render.cur, "submission">>
             f == <<render.cur, "frame">>
  <1>1. render.at = "submit" /\ render.cur \in Renderers /\ pipe' = pipe /\ retired' = retired
    BY DEF SubmissionBegin, RenderTo, ThreadTypes
  <1>2. t \in Ticket /\ f \in Ticket /\ t # f /\ t \notin open /\ t \notin retired
    BY <1>1 DEF TicketInv, FreshInv, Fresh, Ticket, Kind
  <1>3. PICK opens \in BOOLEAN :
            /\ IF opens THEN Open(t, <<>>) ELSE UNCHANGED <<open, list>>
            /\ render' = [render EXCEPT !.at = "context", !.submission = opens, !.outer = Hooked]
    BY Zenon DEF SubmissionBegin
  <1>4. render'.at = "context" /\ render'.cur = render.cur /\ render'.submission = opens /\ render'.frame = render.frame
    BY <1>3 DEF ThreadTypes, RenderRecord
  <1>5. /\ open' = (IF opens THEN open \union {t} ELSE open) /\ ListInv(list', open')
        /\ \A u \in Ticket : Queues(list', End(u)) => Queues(list, End(u))
    <2>1. CASE opens
      BY <1>2, <1>3, <2>1, Opened DEF TicketInv
    <2>2. CASE ~opens
      BY <1>3, <2>2 DEF TicketInv, Queues, ListInv
    <2> QED BY <2>1, <2>2
  <1>6. HeldInv'
    <2>1. ~Queues(list, End(t))
      BY <1>2, NoEndOfClosed DEF TicketInv
    <2>2. render.frame => Held(f)
      BY DEF TicketInv, HeldInv
    <2> QED BY <1>2, <1>4, <1>5, <2>1, <2>2 DEF HeldInv, Held
  <1>7. FreshInv'
    BY <1>1, <1>4, <1>5 DEF TicketInv, FreshInv, Fresh
  <1>8. PipeInv'
    BY <1>1, <1>4, <1>5 DEF TicketInv, PipeInv, Fresh
  <1> QED BY <1>1, <1>2, <1>5, <1>6, <1>7, <1>8 DEF TicketInv


\* What its pass queues; a lease without a scope is released at once.
LEMMA TicketNodeProcess ==
  ASSUME ThreadTypes, TicketInv, NodeProcess
  PROVE  TicketInv'
  <1> DEFINE t == <<render.cur, "sr">>
             f == <<render.cur, "frame">>
             b == <<render.cur, "submission">>
  <1>1. render.at = "node" /\ render.cur \in Renderers /\ pipe' = pipe
    BY DEF NodeProcess, RenderTo, ThreadTypes
  <1>2. /\ t \in Ticket /\ t \in Leases /\ f \in Ticket /\ b \in Ticket /\ t # f /\ t # b
        /\ t \notin open /\ t \notin retired
    BY <1>1 DEF TicketInv, FreshInv, Fresh, Ticket, Kind, Leases
  <1>3. PICK opens, closes \in BOOLEAN :
            IF opens THEN Enclose(t, closes, <<Draw(render.cur)>>) /\ UNCHANGED retired
            ELSE /\ retired' = retired \union {t}
                 /\ list' = Append(list, Draw(render.cur)) /\ UNCHANGED open
    BY Zenon DEF NodeProcess, MayOpen
  <1>4. render'.at = "family" /\ render'.cur = render.cur /\ render'.submission = render.submission
        /\ render'.frame = render.frame
    BY DEF NodeProcess, ThreadTypes, RenderRecord
  <1>5. /\ open' \subseteq open \union {t} /\ open \subseteq open' /\ retired' \subseteq retired \union {t}
        /\ retired' \intersect open' = {} /\ ListInv(list', open')
        /\ \A u \in Ticket : u # t /\ Queues(list', End(u)) => Queues(list, End(u))
    <2>1. CASE opens
      <3>1. /\ open' = open \union {t} /\ ListInv(list', open')
            /\ \A u \in Ticket : u # t /\ Queues(list', End(u)) => Queues(list, End(u))
        BY <1>1, <1>2, <1>3, <2>1, Enclosed DEF TicketInv
      <3>2. retired' = retired
        BY <1>3, <2>1
      <3> QED BY <1>2, <3>1, <3>2 DEF TicketInv
    <2>2. CASE ~opens
      <3>1. retired' = retired \union {t} /\ list' = Append(list, Draw(render.cur)) /\ open' = open
        BY <1>3, <2>2
      <3>2. ListInv(list', open)
        BY <1>1, <3>1, AppendOther, Commands DEF TicketInv
      <3>3. \A u \in Ticket : Queues(list', End(u)) => Queues(list, End(u))
        BY <1>1, <3>1, Appended, Commands DEF TicketInv, ListInv
      <3> QED BY <1>2, <3>1, <3>2, <3>3 DEF TicketInv
    <2> QED BY <2>1, <2>2
  <1>6. HeldInv'
    <2>1. (render.frame => Held(f)) /\ (render.submission => Held(b))
      BY DEF TicketInv, HeldInv
    <2> QED BY <1>2, <1>4, <1>5, <2>1 DEF HeldInv, Held
  <1>7. FreshInv'
    BY <1>1, <1>4, <1>5 DEF TicketInv, FreshInv, Fresh
  <1>8. PipeInv'
    <2>1. \A i \in 1..Len(pipe) : pipe[i] # render.cur
      BY DEF TicketInv, PipeInv
    <2> QED BY <1>1, <1>4, <1>5, <2>1 DEF TicketInv, PipeInv, Fresh
  <1>9. open' \subseteq Ticket /\ retired' \subseteq Leases
    BY <1>2, <1>5 DEF TicketInv
  <1> QED BY <1>5, <1>6, <1>7, <1>8, <1>9 DEF TicketInv

\* The ends of its submission and of its frame.
LEMMA TicketEnds ==
  ASSUME ThreadTypes, TicketInv, SubmissionEnd \/ FrameEnd
  PROVE  TicketInv'
  <1> DEFINE f == <<render.cur, "frame">>
             b == <<render.cur, "submission">>
  <1>1. /\ pipe' = pipe /\ retired' = retired /\ open' = open /\ render.cur \in Renderers
        /\ f \in Ticket /\ b \in Ticket /\ f # b
    BY DEF SubmissionEnd, FrameEnd, RenderTo, ThreadTypes, Ticket, Kind
  <1>2. list \in Seq(Command) /\ Present(render.cur) \in Command /\ ~IsMarker(Present(render.cur))
        /\ \A u \in Ticket : End(u) # Present(render.cur)
    BY <1>1, Commands DEF TicketInv, ListInv
  <1>3. CASE SubmissionEnd
    <2>1. render'.at = "retire" /\ render'.cur = render.cur /\ ~render'.submission /\ render'.frame = render.frame
      BY <1>3 DEF SubmissionEnd, ThreadTypes, RenderRecord
    <2>2. (list' = list) \/ (render.submission /\ list' = Append(list, End(b)))
      BY <1>3 DEF SubmissionEnd
    <2>3. ListInv(list', open)
      BY <1>1, <2>2, AppendEnd DEF TicketInv, HeldInv, Held
    <2>4. \A u \in Ticket : u # b /\ Queues(list', End(u)) => Queues(list, End(u))
      <3>1. End(b) \in Command /\ \A u \in Ticket : u # b => End(u) # End(b)
        BY <1>1, Commands
      <3>2. CASE list' = Append(list, End(b))
        BY <1>2, <3>1, <3>2, Appended
      <3> QED BY <2>2, <3>2
    <2>5. HeldInv'
      <3>1. render.frame => Held(f)
        BY DEF TicketInv, HeldInv
      <3> QED BY <1>1, <2>1, <2>4, <3>1 DEF HeldInv, Held
    <2>6. FreshInv'
      BY <1>1, <1>3, <2>1 DEF TicketInv, FreshInv, Fresh, SubmissionEnd, RenderTo
    <2>7. PipeInv'
      BY <1>1, <2>1 DEF TicketInv, PipeInv, Fresh
    <2> QED BY <1>1, <2>3, <2>5, <2>6, <2>7 DEF TicketInv
  <1>4. CASE FrameEnd
    <2>1. render'.at = "idle" /\ render'.cur = NoRenderer /\ render'.submission = render.submission /\ ~render'.frame
          /\ render.at = "end"
      BY <1>4 DEF FrameEnd, ThreadTypes, RenderRecord, RenderTo
    <2>2. PICK ended \in BOOLEAN :
              /\ ended => render.frame
              /\ list' = list \o (IF ended THEN <<End(f)>> ELSE <<>>) \o <<Present(render.cur)>>
      BY <1>4, Zenon DEF FrameEnd
    <2>3. End(f) \in Command
      BY <1>1, Commands
    <2>4. PICK mid \in Seq(Command) : /\ mid = IF ended THEN Append(list, End(f)) ELSE list
                                     /\ list' = Append(mid, Present(render.cur))
      <3>1. list \o (IF ended THEN <<End(f)>> ELSE <<>>) = IF ended THEN Append(list, End(f)) ELSE list
        BY <1>2, <2>3
      <3>2. Append(list, End(f)) \in Seq(Command)
        BY <1>2, <2>3
      <3>3. \A m \in Seq(Command) : m \o <<Present(render.cur)>> = Append(m, Present(render.cur))
        BY <1>2
      <3> QED BY <1>2, <2>2, <3>1, <3>2, <3>3
    <2>5. ListInv(mid, open)
      BY <1>1, <2>2, <2>4, AppendEnd DEF TicketInv, HeldInv, Held
    <2>6. ListInv(list', open)
      BY <1>2, <2>4, <2>5, AppendOther
    <2>7. HeldInv'
      BY <2>1 DEF TicketInv, HeldInv
    <2>8. FreshInv'
      BY <2>1 DEF FreshInv
    <2>9. PipeInv'
      <3>1. \A i \in 1..Len(pipe) : pipe[i] # NoRenderer
        BY NoRendererAssumption DEF ThreadTypes
      <3> QED BY <1>1, <2>1, <3>1 DEF TicketInv, PipeInv, Fresh
    <2> QED BY <1>1, <2>6, <2>7, <2>8, <2>9 DEF TicketInv
  <1> QED BY <1>3, <1>4

\* The retirement's two halves.
LEMMA TicketRetires ==
  ASSUME ThreadTypes, TicketInv, RetireBegin \/ RetireEnd
  PROVE  TicketInv'
  <1> DEFINE f == <<render.cur, "frame">>
             t == <<render.cur, "uniforms">>
  <1>1. /\ pipe' = pipe /\ render.cur \in Renderers /\ f \in Ticket /\ t \in Ticket /\ f # t
        /\ render'.cur = render.cur /\ render'.frame = render.frame /\ render'.submission = render.submission
        /\ render.at \in {"retire", "retiring"} /\ (render.at = "retire" => render'.at = "retiring")
        /\ (render.at = "retiring" => render'.at = "end")
    BY DEF RetireBegin, RetireEnd, RenderTo, ThreadTypes, RenderRecord, Ticket, Kind
  <1>2. /\ open' \subseteq open \union {t} /\ open \subseteq open' /\ retired' \subseteq retired
        /\ (open' = open \/ render.at = "retiring")
        /\ ListInv(list', open') /\ \A u \in Ticket : u # t /\ Queues(list', End(u)) => Queues(list, End(u))
    <2>1. CASE UNCHANGED <<open, list>> /\ retired' \subseteq retired
      BY <2>1 DEF TicketInv
    <2>2. ASSUME RetireEnd, ~UNCHANGED <<open, list>>
          PROVE  /\ retired' = {} /\ render.at = "retiring"
                 /\ \E closes \in BOOLEAN : Enclose(t, closes, <<>>)
      BY <2>2, Zenon DEF RetireEnd, RetireUniforms, UniformsThrough, RenderTo, MayOpen
    <2>3. CASE RetireEnd /\ ~UNCHANGED <<open, list>>
      <3>1. retired' = {} /\ render.at = "retiring"
        BY <2>2, <2>3
      <3>2. PICK closes \in BOOLEAN : Enclose(t, closes, <<>>)
        BY <2>2, <2>3
      <3>3. t \notin open
        BY <3>1 DEF TicketInv, FreshInv, Fresh
      <3>4. open' = open \union {t} /\ ListInv(list', open')
            /\ \A u \in Ticket : u # t /\ Queues(list', End(u)) => Queues(list, End(u))
        BY <1>1, <3>2, <3>3, Enclosed DEF TicketInv
      <3> QED BY <3>1, <3>4
    <2>4. RetireBegin => UNCHANGED <<open, list>> /\ retired' \subseteq retired
      BY DEF RetireBegin
    <2>5. RetireEnd => retired' \subseteq retired
      BY DEF RetireEnd, RetireUniforms, UniformsThrough
    <2> QED BY <2>1, <2>3, <2>4, <2>5
  <1>3. HeldInv'
    <2>1. (render.frame => Held(f)) /\ ~render.submission
      BY <1>1 DEF TicketInv, HeldInv
    <2> QED BY <1>1, <1>2, <2>1 DEF HeldInv, Held
  <1>4. FreshInv'
    BY <1>1, <1>2 DEF TicketInv, FreshInv, Fresh
  <1>5. PipeInv'
    <2>1. \A i \in 1..Len(pipe) : pipe[i] # render.cur
      BY DEF TicketInv, PipeInv
    <2> QED BY <1>1, <1>2, <2>1 DEF TicketInv, PipeInv, Fresh
  <1>6. open' \subseteq Ticket /\ retired' \subseteq Leases /\ retired' \intersect open' = {}
    <2>1. t \notin retired \/ open' = open
      BY <1>1, <1>2 DEF TicketInv, FreshInv, Fresh
    <2> QED BY <1>1, <1>2, <2>1 DEF TicketInv
  <1> QED BY <1>2, <1>3, <1>4, <1>5, <1>6 DEF TicketInv

\* Steps of the render thread that queue nothing.
LEMMA TicketOtherRender ==
  ASSUME ThreadTypes, TicketInv, RetireOther \/ ContextBegin \/ NodeSkipped
  PROVE  TicketInv'
  <1>1. /\ UNCHANGED <<open, list, pipe>> /\ retired' \subseteq retired
        /\ render'.cur = render.cur /\ render'.frame = render.frame /\ render'.submission = render.submission
        /\ \/ render'.at = render.at
           \/ render.at = "context" /\ render'.at = "node"
           \/ render.at = "node" /\ render'.at = "family"
    <2>1. CASE RetireOther
      BY <2>1 DEF RetireOther
    <2>2. CASE ContextBegin
      <3>1. PICK plan \in BOOLEAN :
                render' = [render EXCEPT !.at = "node", !.entry = Hooked, !.plan = plan]
        BY <2>2, Zenon DEF ContextBegin
      <3>2. UNCHANGED <<open, list, pipe, retired>> /\ render.at = "context"
        BY <2>2, Zenon DEF ContextBegin, RenderTo
      <3> QED BY <3>1, <3>2 DEF ThreadTypes, RenderRecord
    <2>3. CASE NodeSkipped
      BY <2>3 DEF NodeSkipped, ThreadTypes, RenderRecord, RenderTo
    <2> QED BY <2>1, <2>2, <2>3
  <1>2. HeldInv'
    BY <1>1 DEF TicketInv, HeldInv, Held
  <1>3. FreshInv' /\ PipeInv'
    BY <1>1 DEF TicketInv, FreshInv, PipeInv, Fresh
  <1> QED BY <1>1, <1>2, <1>3 DEF TicketInv

\* The RHI thread executes a command.
LEMMA TicketExecute ==
  ASSUME ThreadTypes, TicketInv, Execute
  PROVE  TicketInv'
  <1> DEFINE c == Head(list)
  <1>1. list # <<>> /\ list' = Tail(list) /\ UNCHANGED <<render, pipe>>
    BY DEF Execute, RhiUnchanged
  <1>2. /\ c \in Command /\ (IsMarker(c) => c.of \in open)
        /\ (c.op = "end" => Queues(list, End(c.of)) /\ ListInv(list', open \ {c.of}))
        /\ ListInv(list', open) /\ \A d : Queues(list', d) => Queues(list, d)
    BY <1>1, Executed DEF TicketInv
  <1>3. CASE c.op = "end"
    <2>1. open' = open \ {c.of} /\ retired' = retired \union LeaseOf(c.of) /\ c.of \in open
      BY <1>2, <1>3 DEF Execute, Leave, IsMarker
    <2>2. retired' \subseteq Leases /\ retired' \intersect open' = {} /\ open' \subseteq Ticket
          /\ retired' \subseteq retired \union {c.of}
      BY <2>1 DEF TicketInv, LeaseOf
    <2>3. \A u : Held(u) => u # c.of
      BY <1>2, <1>3 DEF Held
    <2>4. HeldInv'
      BY <1>1, <1>2, <2>1, <2>3 DEF TicketInv, HeldInv, Held
    <2>5. FreshInv' /\ PipeInv'
      <3>1. \A r, k : Fresh(r, k) => Fresh(r, k)'
        BY <2>1, <2>2 DEF Fresh
      <3> QED BY <1>1, <3>1 DEF TicketInv, FreshInv, PipeInv, Fresh
    <2> QED BY <1>2, <1>3, <2>1, <2>2, <2>4, <2>5 DEF TicketInv
  <1>4. CASE c.op # "end"
    <2>1. UNCHANGED <<open, retired>>
      BY <1>2, <1>4 DEF Execute, Enter
    <2>2. HeldInv' /\ FreshInv' /\ PipeInv'
      BY <1>1, <1>2, <2>1 DEF TicketInv, HeldInv, Held, FreshInv, PipeInv, Fresh
    <2> QED BY <1>2, <2>1, <2>2 DEF TicketInv
  <1> QED BY <1>3, <1>4

\* Every step keeps the tickets' invariant.
LEMMA TicketStep == ThreadTypes /\ TicketInv /\ [Next]_vars => TicketInv'
  <1> SUFFICES ASSUME ThreadTypes, TicketInv, [Next]_vars PROVE TicketInv'
    OBVIOUS
  <1>1. CASE UNCHANGED <<open, list, retired, render, pipe>>
    BY <1>1 DEF TicketInv, HeldInv, Held, FreshInv, PipeInv, Fresh
  <1>2. CASE Game
    <2>1. CASE ConstructEnd
      BY <2>1, TicketConstructEnd
    <2>2. CASE TickBegin \/ ConstructBegin
      BY <1>1, <2>2 DEF TickBegin, ConstructBegin, GameUnchanged, scopeVars
    <2> QED BY <1>2, <2>1, <2>2 DEF Game
  <1>3. CASE Render
    BY <1>3, TicketFrameBegin, TicketSubmissionBegin, TicketNodeProcess, TicketEnds, TicketRetires, TicketOtherRender
       DEF Render
  <1>4. CASE Rhi
    <2>1. CASE Execute
      BY <2>1, TicketExecute
    <2>2. CASE ~Execute
      <3>1. UNCHANGED <<open, list, retired, render, pipe>>
        BY <1>4, <2>2 DEF Rhi, PresentReturns, StartBegin, StartHook, QuiesceBegin, QuiesceActive, QuiesceScopes,
           QuiesceEnd, Stop, StopBegin, StopRead, StopReads, StopBusy, ReadGuards, ReadLive, ReadUniforms,
           ReadRetired, DisableHooks, ReadOuter, Destroy, PresentStep, RhiUnchanged
      <3> QED BY <1>1, <3>1
    <2> QED BY <2>1, <2>2
  <1>5. CASE Others
    BY <1>1, <1>5, OtherTypes
  <1>6. CASE UNCHANGED vars
    BY <1>1, <1>6 DEF vars, scopeVars
  <1>7. CASE \E thread \in Threads : Window(thread)
    BY <1>1, <1>7, WindowKeeps DEF scopeVars
  <1> QED BY <1>2, <1>3, <1>4, <1>5, <1>6, <1>7 DEF Next

\* No ticket exists at first.
LEMMA TicketStart == Init => TicketInv
  BY DEF Init, ScopesInit, TicketInv, ListInv, HeldInv, FreshInv, PipeInv

\* A lease's references are handed back only when no marker of its scope is queued, and every
\* queued marker belongs to a ticket that still exists.
THEOREM LeasesOutlive == Spec => []LeaseOutlivesScope
  <1>1. TicketInv => LeaseOutlivesScope
    <2>1. SUFFICES ASSUME TicketInv PROVE Marked \subseteq open /\ retired \intersect open = {}
      BY DEF LeaseOutlivesScope
    <2>2. list \in Seq(Command) /\ \A i \in 1..Len(list) : IsMarker(list[i]) => list[i].of \in open
      BY <2>1 DEF TicketInv, ListInv
    <2>3. Marked \subseteq open
      BY <2>2 DEF Marked, Queued, IsMarker
    <2> QED BY <2>1, <2>3 DEF TicketInv
  <1> QED BY <1>1, TicketStart, InitTypes, TypesStep, TicketStep, PTL DEF Spec


-------------------------------------------------------------------------------
\* The stop's stages, and what each of its reads has left behind.

Stopping == {"guards", "live", "uniforms", "retired", "disable", "outer", "destroy"}

\* No thread is about to register a renderer or to generate a uniform.
NoWork == game.at # "bind" /\ ~render.plan

\* Nothing needs the hooks.
Drained == bound = {} /\ uniforms = {} /\ retired = {} /\ open = {}

\* Work is guarded, and a quiesced plugin is neither active nor accepting.
QuietInv ==
    /\ game.at = "bind" => game.entry
    /\ render.plan => render.entry
    /\ present \in {"accepting", "quiesced"} => ~renderer.active
    /\ present = "quiesced" => ~accepting
    /\ present = "start" => ~session.quiesced
    /\ present \in Stopping => session.quiesced
    /\ session.quiesced => ~renderer.active /\ ~accepting

StopInv ==
    /\ present \in Stopping \ {"guards"} => NoWork
    /\ present \in {"uniforms", "retired", "disable", "outer", "destroy"} => bound = {}
    /\ present \in {"retired", "disable", "outer", "destroy"} => uniforms = {}
    /\ present \in {"disable", "outer", "destroy"} => Drained
    /\ present \in {"outer", "destroy"} => ~renderer.hooked
    /\ present = "destroy" => Inside \subseteq unseen
    /\ ~renderer.hooked => NoWork /\ Drained /\ ~renderer.active
    /\ ~renderer.hooked /\ session.loaded => session.quiesced
    /\ ~session.loaded => ~renderer.hooked /\ Inside \subseteq unseen

LifeInv == QuietInv /\ StopInv

\* Once the hooks are off no thread comes into one.
LEMMA InsideLess ==
  ASSUME ThreadTypes, Game \/ Render, ~renderer.hooked
  PROVE  Inside' \subseteq Inside /\ unseen' = unseen
  <1> USE DEF CountsIn, CountsOut, Passes, Lingers, Threads, Inside, Holds, InHook, ThreadTypes
  <1>1. CASE TickBegin \/ ConstructBegin
    <2>1. /\ UNCHANGED <<render, leaving>> /\ entering' = entering \ {"game"}
          /\ game'.outer => game.outer \/ "game" \in entering
          /\ game'.entry => game.entry \/ "game" \in entering
      BY <1>1 DEF TickBegin, ConstructBegin, GameUnchanged, GameRecord
    <2> QED BY <1>1, <2>1, WindowsMove
  <1>2. CASE ConstructEnd
    <2>1. /\ UNCHANGED <<render, entering>> /\ ~game'.outer /\ ~game'.entry
          /\ leaving' = leaving \/ ((game.outer \/ game.entry) /\ leaving' = leaving \union {"game"})
      BY <1>2 DEF ConstructEnd, GameUnchanged, GameRecord
    <2> QED BY <1>2, <2>1, WindowsMove DEF Game
  <1>3. CASE Render
    <2>1. game' = game
      BY <1>3, RenderKeeps
    <2>2. /\ entering' \subseteq entering
          /\ leaving' = leaving \/ ("render" \in Inside /\ leaving' = leaving \union {"render"})
          /\ Holds("render")' => "render" \in Inside
      <3> USE DEF RenderRecord
      <3>1. CASE FrameBegin
        <4>1. render'.outer = render.outer /\ render'.entry = render.entry
          <5>1. PICK frame \in BOOLEAN :
                    render' = [render EXCEPT !.at = "submit", !.cur = Head(pipe), !.frame = frame]
            BY <3>1, Zenon DEF FrameBegin
          <5> QED BY <5>1
        <4> QED BY <3>1, <4>1 DEF FrameBegin
      <3>2. CASE SubmissionBegin
        <4>1. PICK submission, outer \in BOOLEAN :
                  /\ outer => "render" \in entering
                  /\ render' = [render EXCEPT !.at = "context", !.submission = submission, !.outer = outer]
          BY <3>2, HookOrNot, Zenon DEF SubmissionBegin, Hooked
        <4> QED BY <3>2, <4>1 DEF SubmissionBegin
      <3>3. CASE ContextBegin
        <4>1. PICK plan, entry \in BOOLEAN :
                  /\ entry => "render" \in entering
                  /\ render' = [render EXCEPT !.at = "node", !.entry = entry, !.plan = plan]
          BY <3>3, HookOrNot, Zenon DEF ContextBegin, Hooked
        <4> QED BY <3>3, <4>1 DEF ContextBegin
      <3>4. CASE NodeProcess
        BY <3>4 DEF NodeProcess
      <3>5. CASE NodeSkipped
        BY <3>5 DEF NodeSkipped
      <3>6. CASE SubmissionEnd
        BY <3>6 DEF SubmissionEnd
      <3>7. CASE RetireBegin
        <4>1. PICK outer \in BOOLEAN :
                  /\ outer => "render" \in entering
                  /\ render' = [render EXCEPT !.at = "retiring", !.outer = outer]
          BY <3>7, HookOrNot, Zenon DEF RetireBegin, Hooked
        <4> QED BY <3>7, <4>1 DEF RetireBegin
      <3>8. CASE RetireEnd
        BY <3>8 DEF RetireEnd
      <3>9. CASE FrameEnd
        BY <3>9 DEF FrameEnd
      <3>10. CASE RetireOther
        BY <3>10 DEF RetireOther
      <3> QED BY <1>3, <3>1, <3>2, <3>3, <3>4, <3>5, <3>6, <3>7, <3>8, <3>9, <3>10 DEF Render
    <2> QED BY <1>3, <2>1, <2>2, WindowsMove
  <1> QED BY <1>1, <1>2, <1>3 DEF Game

\* The game thread's steps.
LEMMA LifeGame == ThreadTypes /\ LifeInv /\ Game => LifeInv'
  <1> SUFFICES ASSUME ThreadTypes, LifeInv, Game PROVE LifeInv'
    OBVIOUS
  <1>1. UNCHANGED <<accepting, open, retired, session, renderer, uniforms, render, present>>
    BY DEF Game, TickBegin, ConstructBegin, ConstructEnd, GameUnchanged, scopeVars, sessionVars
  <1>2. QuietInv'
    <2>1. game'.at = "bind" => game'.entry
      BY DEF Game, TickBegin, ConstructBegin, ConstructEnd, Binds, ThreadTypes, GameRecord, LifeInv, QuietInv
    <2> QED BY <1>1, <2>1 DEF LifeInv, QuietInv
  <1>3. ~renderer.active => (game.at # "bind" => game'.at # "bind" /\ bound' = bound)
    BY DEF Game, TickBegin, ConstructBegin, ConstructEnd, Binds, ThreadTypes, GameRecord
  <1>4. ~renderer.hooked => Inside' \subseteq Inside /\ unseen' = unseen
    BY InsideLess
  <1>5. present \in Stopping => ~renderer.active
    BY DEF LifeInv, QuietInv
  <1> QED BY <1>1, <1>2, <1>3, <1>4, <1>5 DEF LifeInv, StopInv, NoWork, Drained, Stopping

\* What the render thread may still do, from where it stands.
LEMMA RenderLeaves ==
  ASSUME ThreadTypes, TicketInv, Render
  PROVE  /\ render'.plan => (render'.entry \/ (render'.plan = render.plan /\ render'.entry = render.entry))
         /\ ~renderer.active => (render'.plan => render.plan)
         /\ (~accepting \/ (~renderer.active /\ ~render.plan /\ uniforms = {})) => open' = open
         /\ ~render.plan => uniforms' \subseteq uniforms /\ retired' \subseteq retired
  <1> USE DEF ThreadTypes, RenderTo
  <1>1. CASE FrameBegin
    <2>1. PICK opens \in BOOLEAN :
              /\ opens => renderer.active /\ accepting
              /\ ~opens => open' = open
              /\ render' = [render EXCEPT !.at = "submit", !.cur = Head(pipe), !.frame = render.frame \/ opens]
      BY <1>1, Zenon DEF FrameBegin, MayOpen
    <2>2. render'.plan = render.plan /\ render'.entry = render.entry
      BY <2>1 DEF RenderRecord
    <2> QED BY <1>1, <2>1, <2>2 DEF FrameBegin
  <1>2. CASE SubmissionBegin
    <2>1. PICK opens \in BOOLEAN :
              /\ opens => renderer.active /\ accepting
              /\ ~opens => open' = open
              /\ render' = [render EXCEPT !.at = "context", !.submission = opens, !.outer = Hooked]
      BY <1>2, Zenon DEF SubmissionBegin, MayOpen
    <2>2. render'.plan = render.plan /\ render'.entry = render.entry
      BY <2>1 DEF RenderRecord
    <2> QED BY <1>2, <2>1, <2>2 DEF SubmissionBegin
  <1>3. CASE ContextBegin
    <2>1. PICK plan \in BOOLEAN :
              /\ plan => renderer.active /\ Hooked
              /\ render' = [render EXCEPT !.at = "node", !.entry = Hooked, !.plan = plan]
      BY <1>3, Zenon DEF ContextBegin
    <2>2. render'.plan = plan /\ render'.entry = Hooked
      BY <2>1 DEF RenderRecord
    <2> QED BY <1>3, <2>1, <2>2 DEF ContextBegin
  <1>4. CASE NodeProcess
    <2>1. ~render'.plan /\ ~render'.entry /\ render.plan
      BY <1>4 DEF NodeProcess, RenderRecord
    <2>2. ~accepting => open' = open
      BY <1>4 DEF NodeProcess, MayOpen
    <2> QED BY <2>1, <2>2
  <1>5. CASE NodeSkipped
    BY <1>5 DEF NodeSkipped, RenderRecord
  <1>6. CASE SubmissionEnd
    BY <1>6 DEF SubmissionEnd, RenderRecord
  <1>7. CASE RetireBegin
    <2>1. render'.plan = render.plan /\ render'.entry = render.entry
      BY <1>7 DEF RetireBegin, RenderRecord
    <2> QED BY <1>7, <2>1 DEF RetireBegin
  <1>8. CASE RetireEnd
    <2>1. render'.plan = render.plan /\ render'.entry = render.entry
      BY <1>8 DEF RetireEnd, RenderRecord
    <2>2. (uniforms = {} \/ ~accepting => open' = open) /\ uniforms' \subseteq uniforms /\ retired' \subseteq retired
      BY <1>8 DEF RetireEnd, RetireUniforms, UniformsThrough, MayOpen
    <2> QED BY <2>1, <2>2
  <1>9. CASE FrameEnd
    BY <1>9 DEF FrameEnd, RenderRecord
  <1>10. CASE RetireOther
    BY <1>10 DEF RetireOther
  <1> QED BY <1>1, <1>2, <1>3, <1>4, <1>5, <1>6, <1>7, <1>8, <1>9, <1>10 DEF Render

\* The render thread's steps.
LEMMA LifeRender == ThreadTypes /\ TicketInv /\ LifeInv /\ Render => LifeInv'
  <1> SUFFICES ASSUME ThreadTypes, TicketInv, LifeInv, Render PROVE LifeInv'
    OBVIOUS
  <1>1. UNCHANGED <<accepting, session, game, present>>
    BY RenderKeeps
  <1>2. renderer'.hooked = renderer.hooked /\ (renderer'.active => renderer.active) /\ bound' \subseteq bound
    BY RendererKept, RenderMoves
  <1>3. QuietInv'
    BY <1>1, <1>2, RenderLeaves DEF LifeInv, QuietInv
  <1>4. present \in Stopping => ~renderer.active /\ ~accepting
    BY DEF LifeInv, QuietInv
  <1>5. (~renderer.hooked => NoWork /\ Drained /\ ~renderer.active) => (~renderer.hooked => NoWork' /\ Drained')
    BY <1>1, <1>2, RenderLeaves DEF NoWork, Drained
  <1>6. /\ present \in Stopping \ {"guards"} => NoWork'
        /\ present \in {"uniforms", "retired", "disable", "outer", "destroy"} => bound' = {}
        /\ present \in {"retired", "disable", "outer", "destroy"} => uniforms' = {}
        /\ present \in {"disable", "outer", "destroy"} => Drained'
    BY <1>1, <1>2, <1>4, RenderLeaves DEF LifeInv, StopInv, NoWork, Drained, Stopping
  <1>7. ~renderer.hooked => Inside' \subseteq Inside /\ unseen' = unseen
    BY InsideLess
  <1> QED BY <1>1, <1>2, <1>3, <1>5, <1>6, <1>7 DEF LifeInv, StopInv


\* The shutdown's reads.
LEMMA LifeStop ==
  ASSUME ThreadTypes, LifeInv, Stop
  PROVE  LifeInv'
  <1> USE DEF PresentStep, RhiUnchanged, Stopping
  <1>1. UNCHANGED <<game, render, bound, uniforms, retired, open, accepting>>
    BY DEF Stop, StopBegin, StopRead, StopReads, StopBusy, ReadGuards, ReadLive, ReadUniforms, ReadRetired,
           DisableHooks, ReadOuter, Destroy
  <1>2. /\ (session'.loaded = session.loaded /\ session'.quiesced = session.quiesced)
           \/ (~session'.loaded /\ ~session'.quiesced /\ present = "destroy")
        /\ renderer'.active = renderer.active
        /\ (renderer'.hooked = renderer.hooked \/ (present = "disable" /\ ~renderer'.hooked))
    <2>1. (session' = session) \/ Transition \/ StopRefused \/ (Stopped /\ present = "destroy")
      BY DEF Stop, StopBegin, StopRead, StopReads, StopBusy, ReadGuards, ReadLive, ReadUniforms, ReadRetired,
             DisableHooks, ReadOuter, Destroy
    <2>2. \/ renderer' = renderer
          \/ present = "disable" /\ renderer' = [renderer EXCEPT !.hooked = FALSE]
          \/ renderer' = [renderer EXCEPT !.alive = FALSE]
      BY DEF Stop, StopBegin, StopRead, StopReads, StopBusy, ReadGuards, ReadLive, ReadUniforms, ReadRetired,
             DisableHooks, ReadOuter, Destroy
    <2>3. (session'.loaded = session.loaded /\ session'.quiesced = session.quiesced)
          \/ (~session'.loaded /\ ~session'.quiesced /\ present = "destroy")
      BY <2>1 DEF Transition, StopRefused, Stopped, NoSession, ThreadTypes, SessionRecord
    <2>4. /\ renderer'.active = renderer.active
          /\ (renderer'.hooked = renderer.hooked \/ (present = "disable" /\ ~renderer'.hooked))
      BY <2>2 DEF ThreadTypes, RendererRecord
    <2> QED BY <2>3, <2>4
  <1>3. /\ present \in Stopping => session.quiesced /\ ~renderer.active /\ ~accepting
        /\ present = "destroy" => ~renderer.hooked /\ Inside \subseteq unseen /\ NoWork /\ Drained
        /\ present = "disable" => NoWork /\ Drained
        /\ ~Guards(FALSE) => NoWork
    BY DEF LifeInv, QuietInv, StopInv, NoWork, Guards
  <1>4. \/ present' = "list"
        \/ present = "present" /\ present' = "guards" /\ session.quiesced
        \/ present = "guards" /\ present' = "live" /\ ~Guards(FALSE)
        \/ present = "live" /\ present' = "uniforms" /\ bound = {}
        \/ present = "uniforms" /\ present' = "retired" /\ uniforms = {}
        \/ present = "retired" /\ present' = "disable" /\ retired = {} /\ open = {}
        \/ present = "disable" /\ present' = "outer" /\ ~renderer'.hooked
        \/ present = "outer" /\ present' = "destroy" /\ ~Guards(TRUE)
    <2>1. ReadRetired => \/ present' = "list"
                         \/ present = "retired" /\ present' = "disable" /\ retired = {} /\ open = {}
      BY DEF ReadRetired, StopRead, StopReads, StopBusy, Idle
    <2>2. ReadGuards \/ ReadLive \/ ReadUniforms \/ ReadOuter =>
              \/ present' = "list"
              \/ present = "guards" /\ present' = "live" /\ ~Guards(FALSE)
              \/ present = "live" /\ present' = "uniforms" /\ bound = {}
              \/ present = "uniforms" /\ present' = "retired" /\ uniforms = {}
              \/ present = "outer" /\ present' = "destroy" /\ ~Guards(TRUE)
      BY DEF ReadGuards, ReadLive, ReadUniforms, ReadOuter, StopRead, StopReads, StopBusy
    <2>3. DisableHooks => present = "disable" /\ present' = "outer" /\ ~renderer'.hooked
      BY DEF DisableHooks, ThreadTypes, RendererRecord
    <2>4. StopBegin => present = "present" /\ present' = "guards" /\ session.quiesced
      BY DEF StopBegin, MayStop
    <2>5. Destroy => present' = "list"
      BY DEF Destroy
    <2> QED BY <2>1, <2>2, <2>3, <2>4, <2>5 DEF Stop
  <1>5. unseen' = (IF present' = "destroy" THEN entering \union leaving ELSE unseen)
        /\ UNCHANGED <<entering, leaving>>
    BY <1>4 DEF Stop, StopBegin, StopRead, StopReads, StopBusy, ReadGuards, ReadLive, ReadUniforms, ReadRetired,
           DisableHooks, ReadOuter, Destroy, windowVars
  <1>6. Inside' = Inside /\ (~Guards(TRUE) => Inside \subseteq entering \union leaving)
    BY <1>1, <1>5 DEF Inside, Holds, Guards, Threads
  <1>7. present' # "destroy" => unseen' = unseen
    BY <1>5
  <1>8. QuietInv'
    <2>1. session'.quiesced => session.quiesced
      BY <1>2
    <2>2. present' \in Stopping => session'.quiesced
      BY <1>2, <1>3, <1>4
    <2> QED BY <1>1, <1>2, <1>4, <2>1, <2>2 DEF LifeInv, QuietInv
  <1>9. StopInv'
    <2> USE DEF LifeInv, StopInv, NoWork, Drained
    <2>1. /\ present' \in Stopping \ {"guards"} => NoWork'
          /\ present' \in {"uniforms", "retired", "disable", "outer", "destroy"} => bound' = {}
          /\ present' \in {"retired", "disable", "outer", "destroy"} => uniforms' = {}
      BY <1>1, <1>3, <1>4
    <2>2. present' \in {"disable", "outer", "destroy"} => Drained'
      BY <1>1, <1>4
    <2>3. present' = "destroy" => Inside' \subseteq unseen'
      BY <1>4, <1>5, <1>6
    <2>4. present' \in {"outer", "destroy"} => ~renderer'.hooked
      BY <1>2, <1>4
    <2>5. ~renderer'.hooked => NoWork' /\ Drained' /\ ~renderer'.active
      BY <1>1, <1>2, <1>3
    <2>6. ~renderer'.hooked /\ session'.loaded => session'.quiesced
      BY <1>2, <1>3
    <2>7. ~session'.loaded => ~renderer'.hooked /\ Inside' \subseteq unseen'
      BY <1>1, <1>2, <1>3, <1>4, <1>6, <1>7, <2>3
    <2> QED BY <2>1, <2>2, <2>3, <2>4, <2>5, <2>6, <2>7
  <1> QED BY <1>8, <1>9 DEF LifeInv

\* The RHI thread's other steps.
LEMMA LifeRhi == ThreadTypes /\ CallInv /\ TicketInv /\ LifeInv /\ Rhi => LifeInv'
  <1> SUFFICES ASSUME ThreadTypes, CallInv, TicketInv, LifeInv, Rhi PROVE LifeInv'
    OBVIOUS
  <1> USE DEF PresentStep, RhiUnchanged, Stopping
  <1>1. CASE Stop
    BY <1>1, LifeStop
  <1>2. (\/ Execute \/ PresentReturns \/ StartBegin \/ StartHook
         \/ QuiesceBegin \/ QuiesceActive \/ QuiesceScopes \/ QuiesceEnd) => Inside' = Inside /\ unseen' = unseen
    BY DEF Execute, PresentReturns, StartBegin, StartHook, QuiesceBegin, QuiesceActive, QuiesceScopes, QuiesceEnd,
           Inside, Holds, windowVars
  <1>3. CASE Execute
    <2>1. UNCHANGED <<game, render, session, renderer, bound, uniforms, accepting>> /\ present' \in {"list", "present"}
      BY <1>3 DEF Execute, Enter, Leave, sessionVars
    <2>2. open = {} => open' = {} /\ retired' = retired
      <3>1. Head(list) \in Command /\ (IsMarker(Head(list)) => Head(list).of \in open)
        BY <1>3, Executed DEF Execute, TicketInv
      <3> QED BY <1>3, <3>1 DEF Execute, IsMarker
    <2> QED BY <1>2, <1>3, <2>1, <2>2 DEF LifeInv, QuietInv, StopInv, NoWork, Drained
  <1>4. CASE PresentReturns
    BY <1>2, <1>4 DEF PresentReturns, LifeInv, QuietInv, StopInv, NoWork, Drained
  <1>5. CASE StartBegin \/ QuiesceBegin
    <2>1. /\ session'.loaded = session.loaded /\ session'.quiesced = session.quiesced
          /\ (present' = "start" /\ ~session.quiesced) \/ present' = "quiesce"
      BY <1>5 DEF StartBegin, QuiesceBegin, Transition, MayStart, ThreadTypes, SessionRecord
    <2>2. UNCHANGED <<game, render, renderer, bound, uniforms, accepting, open, retired>>
      BY <1>5 DEF StartBegin, QuiesceBegin
    <2> QED BY <1>2, <1>5, <2>1, <2>2 DEF LifeInv, QuietInv, StopInv, NoWork, Drained
  <1>6. CASE StartHook
    <2>1. /\ session'.loaded = session.loaded /\ session'.quiesced = session.quiesced
          /\ present = "start" /\ present' = "list" /\ renderer'.hooked = renderer.hooked
      BY <1>6 DEF StartHook, Started, ThreadTypes, SessionRecord, RendererRecord
    <2>2. ~session.quiesced /\ session.loaded /\ renderer.hooked
      BY <2>1 DEF CallInv, InCall, LifeInv, QuietInv, StopInv
    <2>3. UNCHANGED <<game, render, bound, uniforms, accepting, open, retired>>
      BY <1>6 DEF StartHook
    <2> QED BY <1>2, <1>6, <2>1, <2>2, <2>3 DEF LifeInv, QuietInv, StopInv, NoWork, Drained
  <1>7. CASE QuiesceActive
    <2>1. /\ ~renderer'.active /\ renderer'.hooked = renderer.hooked /\ present' = "accepting"
          /\ UNCHANGED <<game, render, session, bound, uniforms, accepting, open, retired>>
      BY <1>7 DEF QuiesceActive, ThreadTypes, RendererRecord
    <2> QED BY <1>2, <1>7, <2>1 DEF LifeInv, QuietInv, StopInv, NoWork, Drained
  <1>8. CASE QuiesceScopes
    BY <1>2, <1>8 DEF QuiesceScopes, LifeInv, QuietInv, StopInv, NoWork, Drained
  <1>9. CASE QuiesceEnd
    <2>1. /\ session'.loaded = session.loaded /\ session'.quiesced /\ present = "quiesced" /\ present' = "present"
          /\ UNCHANGED <<game, render, renderer, bound, uniforms, accepting, open, retired>>
      BY <1>9 DEF QuiesceEnd, Quiesced, ThreadTypes, SessionRecord
    <2> QED BY <1>2, <1>9, <2>1 DEF LifeInv, QuietInv, StopInv, NoWork, Drained
  <1> QED BY <1>1, <1>3, <1>4, <1>5, <1>6, <1>7, <1>8, <1>9 DEF Rhi

\* The other threads' steps.
LEMMA LifeOthers == ThreadTypes /\ CallInv /\ LifeInv /\ Others => LifeInv'
  <1> SUFFICES ASSUME ThreadTypes, CallInv, LifeInv, Others PROVE LifeInv'
    OBVIOUS
  <1>1. UNCHANGED <<open, retired, bound, uniforms, render, present>>
    BY OtherTypes
  <1>2. CASE Prepare
    <2>1. /\ UNCHANGED <<game, accepting>> /\ ~session.loaded /\ session'.loaded /\ ~session'.quiesced
          /\ renderer'.hooked /\ ~renderer'.active
      BY <1>2 DEF Prepare, Unprepared, Prepared, NoSession
    <2>2. present \in {"list", "present"}
      BY <2>1 DEF CallInv, InCall, ThreadTypes, PresentAt
    <2> QED BY <1>1, <2>1, <2>2 DEF LifeInv, QuietInv, StopInv, Stopping
  <1>3. CASE PrepareFails
    <2>1. /\ ~session.loaded /\ session'.loaded /\ session'.quiesced /\ ~accepting'
          /\ ~renderer'.hooked /\ ~renderer'.active /\ game'.at = game.at /\ game'.entry = game.entry
      BY <1>3 DEF PrepareFails, Unprepared, Retained, NoSession, ThreadTypes, GameRecord
    <2>2. present \in {"list", "present"}
      BY <2>1 DEF CallInv, InCall, ThreadTypes, PresentAt
    <2> QED BY <1>1, <2>1, <2>2 DEF LifeInv, QuietInv, StopInv, Stopping, NoWork, Drained
  <1>4. CASE RequestShutdown \/ StatusBegin \/ StatusEnd
    <2>1. UNCHANGED <<game, session, renderer, accepting>>
      BY <1>4 DEF RequestShutdown, StatusBegin, StatusEnd, ReadBegin, ReadEnd, sessionVars
    <2>2. Inside' = Inside /\ unseen' = unseen
      BY <1>4 DEF RequestShutdown, StatusBegin, StatusEnd, OthersUnchanged, Inside, Holds
    <2> QED BY <1>1, <2>1, <2>2 DEF LifeInv, QuietInv, StopInv, NoWork, Drained
  <1>5. CASE PrepareFailsUnseen
    <2>1. /\ ~session.loaded /\ unseen = {} /\ entering' = {"game"} /\ unseen' = {"game"}
          /\ UNCHANGED <<game, render, leaving, session, renderer, accepting>>
      BY <1>5 DEF PrepareFailsUnseen, Unprepared, OthersUnchanged, sessionVars
    <2>2. Inside' \subseteq unseen'
      BY <2>1 DEF LifeInv, StopInv, Inside, Holds, Threads
    <2> QED BY <1>1, <2>1, <2>2 DEF LifeInv, QuietInv, StopInv, NoWork, Drained
  <1> QED BY <1>2, <1>3, <1>4, <1>5 DEF Others

\* Before the plugin is prepared nothing runs.
LEMMA LifeStart == Init => LifeInv
  BY DEF Init, ScopesInit, SessionInit, NoSession, LifeInv, QuietInv, StopInv, NoWork, Drained,
         Inside, Holds, Stopping

\* Every step keeps it.
LEMMA LifeStep == ThreadTypes /\ CallInv /\ TicketInv /\ LifeInv /\ [Next]_vars => LifeInv'
  <1>1. UNCHANGED vars /\ LifeInv => LifeInv'
    BY DEF vars, scopeVars, sessionVars, windowVars, LifeInv, QuietInv, StopInv, NoWork, Drained, Inside, Holds
  <1>2. ASSUME LifeInv, NEW thread \in Threads, Window(thread) PROVE LifeInv'
    <2>1. UNCHANGED <<scopeVars, sessionVars, renderer, bound, uniforms, game, render, unseen, present>>
      BY <1>2, WindowKeeps
    <2>2. ~renderer.hooked => Inside' \subseteq Inside
      BY <1>2, <2>1 DEF Window, Enters, Returns, Inside, Holds
    <2> QED BY <1>2, <2>1, <2>2 DEF scopeVars, sessionVars, LifeInv, QuietInv, StopInv, NoWork, Drained
  <1> QED BY <1>1, <1>2, LifeGame, LifeRender, LifeRhi, LifeOthers DEF Next

\* No call runs before the plugin is prepared.
LEMMA CallStart == Init => CallInv
  BY DEF Init, SessionInit, NoSession, CallInv, InCall

\* Hooks are turned off only when nothing needs them any more, and nothing that needs them can
\* appear afterwards.
THEOREM HooksGoLast == Spec => []HooksOffIsDrained
  <1>1. LifeInv => HooksOffIsDrained
    BY DEF LifeInv, StopInv, Drained, HooksOffIsDrained
  <1> QED BY <1>1, LifeStart, TicketStart, CallStart, InitTypes, TypesStep, CallStep, TicketStep, LifeStep, PTL DEF Spec

\* The module is unloaded only with no marker of its own in the command list, no status call
\* inside it, and no thread inside a hook but one that its guard did not count when the guards
\* were read.
THEOREM UnloadIsSafe == Spec => []UnloadSafe
  <1>1. TicketInv /\ CallInv /\ LifeInv => UnloadSafe
    <2>1. SUFFICES ASSUME TicketInv, CallInv, LifeInv, ~session.loaded
                   PROVE  Marked = {} /\ Inside \subseteq unseen /\ readers = 0
      BY DEF UnloadSafe
    <2>2. open = {} /\ Inside \subseteq unseen /\ readers = 0
      BY <2>1 DEF LifeInv, StopInv, Drained, CallInv
    <2>3. Marked = {}
      BY <2>1, <2>2 DEF TicketInv, ListInv, Marked, Queued, IsMarker
    <2> QED BY <2>2, <2>3
  <1> QED BY <1>1, LifeStart, TicketStart, CallStart, InitTypes, TypesStep, CallStep, TicketStep, LifeStep, PTL DEF Spec


-------------------------------------------------------------------------------
\* The uniforms that queued commands use.

\* A uniform's end marker is behind every command that uses the uniform.
UsesFirst(l) ==
    \A i, j \in 1..Len(l) : \A r \in Renderers : l[j] = Draw(r) /\ l[i] = End(<<r, "uniforms">>) => j < i

UniformInv ==
    /\ UsesFirst(list)
    /\ \A r \in Renderers : Queues(list, Draw(r)) => r \in uniforms \/ <<r, "uniforms">> \in open

\* Draws of different renderers, and draws and markers, are different.
LEMMA Draws ==
  ASSUME NEW r \in Renderers
  PROVE  /\ <<r, "uniforms">> \in Ticket
         /\ \A q \in Renderers : Draw(q) = Draw(r) => q = r
         /\ \A t \in Ticket : Draw(r) # Begin(t) /\ Draw(r) # End(t)
         /\ \A q \in Renderers : Draw(r) # Present(q)
  BY DEF Draw, Begin, End, Present, Ticket, Kind

\* A command at the end of the list keeps the order, unless it uses what has ended.
LEMMA UsesAppended ==
  ASSUME NEW l \in Seq(Command), UsesFirst(l), NEW c \in Command,
         \A r \in Renderers : c = Draw(r) => ~Queues(l, End(<<r, "uniforms">>))
  PROVE  UsesFirst(Append(l, c))
  <1>1. \A r \in Renderers : Draw(r) # End(<<r, "uniforms">>)
    BY Draws
  <1> QED BY <1>1, Appended DEF UsesFirst, Queues

\* Executing the first command keeps it, and nothing uses what that command ends.
LEMMA UsesExecuted ==
  ASSUME NEW l \in Seq(Command), l # <<>>, UsesFirst(l)
  PROVE  /\ UsesFirst(Tail(l))
         /\ \A r \in Renderers : Head(l) = End(<<r, "uniforms">>) => ~Queues(Tail(l), Draw(r))
  <1>1. /\ Len(l) > 0 /\ Head(l) = l[1] /\ Len(Tail(l)) = Len(l) - 1
        /\ \A i \in 1..Len(Tail(l)) : Tail(l)[i] = l[i + 1]
    OBVIOUS
  <1> QED BY <1>1 DEF UsesFirst, Queues

\* A ticket that is opened, with or without a use behind it.
LEMMA UsesEnclosed ==
  ASSUME ListInv(list, open), UsesFirst(list), NEW t \in Ticket, NEW closes \in BOOLEAN, NEW r \in Renderers,
         NEW behind \in {<<>>, <<Draw(r)>>}, Enclose(t, closes, behind),
         behind # <<>> => t # <<r, "uniforms">> /\ ~Queues(list, End(<<r, "uniforms">>))
  PROVE  /\ UsesFirst(list')
         /\ \A q \in Renderers : Queues(list', Draw(q)) => Queues(list, Draw(q)) \/ (behind # <<>> /\ q = r)
  <1> DEFINE begun == Append(list, Begin(t))
             ended == IF closes THEN Append(begun, End(t)) ELSE begun
             drawn == IF behind = <<>> THEN ended ELSE Append(ended, Draw(r))
  <1>1. list \in Seq(Command) /\ Begin(t) \in Command /\ End(t) \in Command /\ Draw(r) \in Command
    BY Commands DEF ListInv
  <1>2. list' = drawn
    BY <1>1, EnclosedList
  <1>3. /\ begun \in Seq(Command) /\ UsesFirst(begun)
        /\ \A q \in Renderers : Queues(begun, Draw(q)) => Queues(list, Draw(q))
        /\ behind # <<>> => ~Queues(begun, End(<<r, "uniforms">>))
    <2>1. UsesFirst(begun)
      BY <1>1, Draws, UsesAppended
    <2>2. \A q \in Renderers : Draw(q) # Begin(t)
      BY Draws
    <2>3. End(<<r, "uniforms">>) # Begin(t)
      BY Draws, Commands
    <2> QED BY <1>1, <2>1, <2>2, <2>3, Appended
  <1> HIDE DEF begun
  <1>4. /\ ended \in Seq(Command) /\ UsesFirst(ended)
        /\ \A q \in Renderers : Queues(ended, Draw(q)) => Queues(list, Draw(q))
        /\ behind # <<>> => ~Queues(ended, End(<<r, "uniforms">>))
    <2>1. UsesFirst(Append(begun, End(t)))
      BY <1>1, <1>3, Draws, UsesAppended
    <2>2. \A q \in Renderers : Draw(q) # End(t)
      BY Draws
    <2>3. behind # <<>> => End(<<r, "uniforms">>) # End(t)
      BY Draws, Commands
    <2> QED BY <1>1, <1>3, <2>1, <2>2, <2>3, Appended
  <1> HIDE DEF ended
  <1>5. /\ UsesFirst(drawn)
        /\ \A q \in Renderers : Queues(drawn, Draw(q)) => Queues(list, Draw(q)) \/ (behind # <<>> /\ q = r)
    <2>1. CASE behind = <<>>
      BY <1>4, <2>1
    <2>2. CASE behind # <<>>
      <3>1. UsesFirst(Append(ended, Draw(r)))
        BY <1>1, <1>4, <2>2, Draws, UsesAppended
      <3>2. \A q \in Renderers : Queues(Append(ended, Draw(r)), Draw(q)) => Queues(list, Draw(q)) \/ q = r
        BY <1>1, <1>4, Draws, Appended
      <3> QED BY <2>2, <3>1, <3>2
    <2> QED BY <2>1, <2>2
  <1> HIDE DEF drawn
  <1> QED BY <1>2, <1>5

\* What the render thread queues keeps the uniforms' invariant.
LEMMA UniformRender == ThreadTypes /\ TicketInv /\ UniformInv /\ Render => UniformInv'
  <1> SUFFICES ASSUME ThreadTypes, TicketInv, UniformInv, Render PROVE UniformInv'
    OBVIOUS
  <1>1. ListInv(list, open) /\ list \in Seq(Command)
    BY DEF TicketInv, ListInv
  <1>2. ASSUME UsesFirst(list'), open \subseteq open', uniforms \subseteq uniforms',
               \A q \in Renderers : Queues(list', Draw(q)) => Queues(list, Draw(q))
        PROVE  UniformInv'
    BY <1>2 DEF UniformInv
  <1>3. CASE FrameBegin \/ SubmissionBegin
    <2>1. UNCHANGED uniforms
      BY <1>3, Zenon DEF FrameBegin, SubmissionBegin
    <2>2. PICK t \in Ticket, opens \in BOOLEAN : IF opens THEN Open(t, <<>>) ELSE UNCHANGED <<open, list>>
      <3>1. CASE FrameBegin
        <4>1. <<Head(pipe), "frame">> \in Ticket
          BY <3>1 DEF FrameBegin, ThreadTypes, Ticket, Kind
        <4> QED BY <3>1, <4>1, Zenon DEF FrameBegin
      <3>2. CASE SubmissionBegin
        <4>1. <<render.cur, "submission">> \in Ticket
          BY <3>2 DEF SubmissionBegin, RenderTo, ThreadTypes, Ticket, Kind
        <4> QED BY <3>2, <4>1, Zenon DEF SubmissionBegin
      <3> QED BY <1>3, <3>1, <3>2
    <2>3. CASE opens
      <3>1. open \subseteq open' /\ list' = list \o <<Begin(t)>> \o <<>>
        BY <2>2, <2>3 DEF Open
      <3>2. Begin(t) \in Command /\ \A q \in Renderers : Draw(q) # Begin(t)
        BY Commands, Draws
      <3>3. list \o <<Begin(t)>> = Append(list, Begin(t)) /\ Append(list, Begin(t)) \in Seq(Command)
        BY <1>1, <3>2
      <3>4. list' = Append(list, Begin(t))
        BY <3>1, <3>3
      <3>5. UsesFirst(Append(list, Begin(t))) /\ \A q \in Renderers : Queues(Append(list, Begin(t)), Draw(q)) => Queues(list, Draw(q))
        BY <1>1, <3>2, UsesAppended, Appended DEF UniformInv
      <3> QED BY <1>2, <2>1, <3>1, <3>4, <3>5
    <2>4. CASE ~opens
      BY <2>1, <2>2, <2>4 DEF UniformInv, UsesFirst, Queues
    <2> QED BY <2>3, <2>4
  <1>4. CASE NodeProcess
    <2> DEFINE t == <<render.cur, "sr">>
               u == <<render.cur, "uniforms">>
    <2>1. render.cur \in Renderers /\ t \in Ticket /\ u \in Ticket /\ t # u /\ render.at = "node"
      BY <1>4 DEF NodeProcess, RenderTo, ThreadTypes, Ticket, Kind
    <2>2. t \notin open /\ u \notin open
      BY <2>1 DEF TicketInv, FreshInv, Fresh
    <2>3. ~Queues(list, End(u))
      BY <1>1, <2>1, <2>2, NoEndOfClosed
    <2>4. uniforms' = uniforms \union {render.cur}
      BY <1>4 DEF NodeProcess
    <2>5. PICK opens, closes \in BOOLEAN :
              IF opens THEN Enclose(t, closes, <<Draw(render.cur)>>)
              ELSE list' = Append(list, Draw(render.cur)) /\ UNCHANGED open
      BY <1>4, Zenon DEF NodeProcess, MayOpen
    <2>6. /\ UsesFirst(list') /\ open \subseteq open'
          /\ \A q \in Renderers : Queues(list', Draw(q)) => Queues(list, Draw(q)) \/ q = render.cur
      <3>1. CASE opens
        <4>1. Enclose(t, closes, <<Draw(render.cur)>>)
          BY <2>5, <3>1
        <4>2. UsesFirst(list') /\ \A q \in Renderers : Queues(list', Draw(q)) => Queues(list, Draw(q)) \/ q = render.cur
          BY <1>1, <2>1, <2>3, <4>1, UsesEnclosed DEF UniformInv
        <4> QED BY <4>1, <4>2 DEF Enclose, Open
      <3>2. CASE ~opens
        <4>1. Draw(render.cur) \in Command
          BY <2>1, Commands
        <4>2. UsesFirst(Append(list, Draw(render.cur)))
          BY <1>1, <2>1, <2>3, <4>1, Draws, UsesAppended DEF UniformInv
        <4>3. \A q \in Renderers : Queues(Append(list, Draw(render.cur)), Draw(q)) => Queues(list, Draw(q)) \/ q = render.cur
          BY <1>1, <2>1, <4>1, Draws, Appended
        <4> QED BY <2>5, <3>2, <4>2, <4>3
      <3> QED BY <3>1, <3>2
    <2> QED BY <2>4, <2>6 DEF UniformInv
  <1>5. CASE SubmissionEnd
    <2> DEFINE b == <<render.cur, "submission">>
    <2>1. open' = open /\ uniforms' = uniforms /\ b \in Ticket /\ ((list' = list) \/ (list' = Append(list, End(b))))
      BY <1>5 DEF SubmissionEnd, RenderTo, ThreadTypes, Ticket, Kind
    <2>2. End(b) \in Command /\ \A q \in Renderers : Draw(q) # End(b)
      BY <2>1, Commands, Draws
    <2>3. UsesFirst(Append(list, End(b))) /\ \A q \in Renderers : Queues(Append(list, End(b)), Draw(q)) => Queues(list, Draw(q))
      BY <1>1, <2>2, UsesAppended, Appended DEF UniformInv
    <2> QED BY <1>2, <2>1, <2>3 DEF UniformInv
  <1>6. CASE FrameEnd
    <2> DEFINE f == <<render.cur, "frame">>
               p == Present(render.cur)
    <2>1. open' = open /\ uniforms' = uniforms /\ render.cur \in Renderers /\ f \in Ticket
      BY <1>6 DEF FrameEnd, RenderTo, ThreadTypes, Ticket, Kind
    <2>2. PICK ended \in BOOLEAN : list' = list \o (IF ended THEN <<End(f)>> ELSE <<>>) \o <<p>>
      BY <1>6, Zenon DEF FrameEnd
    <2>3. /\ End(f) \in Command /\ p \in Command
          /\ \A q \in Renderers : Draw(q) # End(f) /\ Draw(q) # p
      BY <2>1, Commands, Draws
    <2>4. PICK mid \in Seq(Command) : /\ mid = IF ended THEN Append(list, End(f)) ELSE list
                                     /\ list' = Append(mid, p)
      <3>1. list \o (IF ended THEN <<End(f)>> ELSE <<>>) = IF ended THEN Append(list, End(f)) ELSE list
        BY <1>1, <2>3
      <3>2. Append(list, End(f)) \in Seq(Command)
        BY <1>1, <2>3
      <3>3. \A m \in Seq(Command) : m \o <<p>> = Append(m, p)
        BY <2>3
      <3> QED BY <1>1, <2>2, <3>1, <3>2, <3>3
    <2>5. UsesFirst(mid) /\ \A q \in Renderers : Queues(mid, Draw(q)) => Queues(list, Draw(q))
      BY <1>1, <2>3, <2>4, UsesAppended, Appended DEF UniformInv
    <2>6. UsesFirst(Append(mid, p)) /\ \A q \in Renderers : Queues(Append(mid, p), Draw(q)) => Queues(list, Draw(q))
      BY <2>3, <2>5, UsesAppended, Appended
    <2> QED BY <1>2, <2>1, <2>4, <2>6
  <1>7. CASE RetireEnd
    <2> DEFINE u == <<render.cur, "uniforms">>
    <2>1. render.cur \in Renderers /\ u \in Ticket
      BY <1>7 DEF RetireEnd, RenderTo, ThreadTypes, Ticket, Kind
    <2>2. CASE UNCHANGED <<open, list, uniforms>>
      BY <2>2 DEF UniformInv, UsesFirst, Queues
    <2>3. CASE ~UNCHANGED <<open, list, uniforms>>
      <3>1. PICK closes \in BOOLEAN : /\ Enclose(u, closes, <<>>)
                                      /\ uniforms' = IF closes THEN uniforms \ {render.cur} ELSE uniforms
        BY <1>7, <2>3, Zenon DEF RetireEnd, RetireUniforms, UniformsThrough, MayOpen
      <3>2. UsesFirst(list') /\ \A q \in Renderers : Queues(list', Draw(q)) => Queues(list, Draw(q))
        BY <1>1, <2>1, <3>1, UsesEnclosed DEF UniformInv
      <3>3. open' = open \union {u}
        BY <3>1 DEF Enclose, Open
      <3> QED BY <3>1, <3>2, <3>3 DEF UniformInv
    <2> QED BY <2>2, <2>3
  <1>8. CASE RetireOther \/ ContextBegin \/ NodeSkipped \/ RetireBegin
    <2>1. UNCHANGED <<open, list, uniforms>>
      BY <1>8, Zenon DEF RetireOther, ContextBegin, NodeSkipped, RetireBegin
    <2> QED BY <2>1 DEF UniformInv, UsesFirst, Queues
  <1> QED BY <1>3, <1>4, <1>5, <1>6, <1>7, <1>8 DEF Render

\* Every step keeps it: a ticket leaves with its end marker, which no use is behind.
LEMMA UniformStep == ThreadTypes /\ TicketInv /\ UniformInv /\ [Next]_vars => UniformInv'
  <1> SUFFICES ASSUME ThreadTypes, TicketInv, UniformInv, [Next]_vars PROVE UniformInv'
    OBVIOUS
  <1>1. CASE UNCHANGED <<open, list, uniforms>>
    BY <1>1 DEF UniformInv, UsesFirst, Queues
  <1>2. CASE Execute
    <2>1. list \in Seq(Command) /\ list # <<>> /\ list' = Tail(list) /\ uniforms' = uniforms
      BY <1>2 DEF Execute, TicketInv, ListInv
    <2>2. Head(list) \in Command /\ \A c : Queues(list', c) => Queues(list, c)
      BY <2>1, Executed DEF TicketInv
    <2>3. UsesFirst(list') /\ \A r \in Renderers : Head(list) = End(<<r, "uniforms">>) => ~Queues(list', Draw(r))
      BY <2>1, UsesExecuted DEF UniformInv
    <2>4. (open' = open) \/ (Head(list).op = "end" /\ open' = open \ {Head(list).of} /\ Head(list) = End(Head(list).of))
      BY <1>2, <2>2, Commands DEF Execute, Enter, Leave
    <2> QED BY <2>1, <2>2, <2>3, <2>4 DEF UniformInv
  <1>3. CASE Rhi /\ ~Execute
    <2>1. UNCHANGED <<open, list, uniforms>>
      BY <1>3 DEF Rhi, PresentReturns, StartBegin, StartHook, QuiesceBegin, QuiesceActive, QuiesceScopes,
         QuiesceEnd, Stop, StopBegin, StopRead, StopReads, StopBusy, ReadGuards, ReadLive, ReadUniforms,
         ReadRetired, DisableHooks, ReadOuter, Destroy, PresentStep, RhiUnchanged
    <2> QED BY <1>1, <2>1
  <1>4. CASE Game
    BY <1>1, <1>4 DEF Game, TickBegin, ConstructBegin, ConstructEnd, GameUnchanged, scopeVars
  <1>5. CASE Others
    BY <1>1, <1>5, OtherTypes
  <1>6. CASE UNCHANGED vars
    BY <1>1, <1>6 DEF vars, scopeVars
  <1>7. CASE \E thread \in Threads : Window(thread)
    BY <1>1, <1>7, WindowKeeps DEF scopeVars
  <1> QED BY <1>2, <1>3, <1>4, <1>5, <1>6, <1>7, UniformRender DEF Next

\* A generated uniform keeps a reference for as long as a command that uses it is queued.
THEOREM UniformsOutlive == Spec => []UniformOutlivesDraws
  <1>1. Init => UniformInv
    BY DEF Init, ScopesInit, UniformInv, UsesFirst, Queues
  <1>2. TicketInv /\ UniformInv => UniformOutlivesDraws
    BY DEF TicketInv, ListInv, UniformInv, UniformOutlivesDraws, Queued, Queues
  <1> QED BY <1>1, <1>2, TicketStart, InitTypes, TypesStep, TicketStep, UniformStep, PTL DEF Spec


-------------------------------------------------------------------------------
\* Types of the scopes.

ScopeTypes == accepting \in BOOLEAN /\ stack \in Seq(Ticket)

\* Every step keeps them: only tickets are entered.
LEMMA ScopeTypesStep == TicketInv /\ ScopeTypes /\ [Next]_vars => ScopeTypes'
  <1> SUFFICES ASSUME TicketInv, ScopeTypes, [Next]_vars PROVE ScopeTypes'
    OBVIOUS
  <1>1. CASE UNCHANGED <<accepting, stack>>
    BY <1>1 DEF ScopeTypes
  <1>2. CASE Execute
    <2>1. /\ Head(list) \in Command /\ (IsMarker(Head(list)) => Head(list).of \in Ticket)
      BY <1>2, Executed DEF Execute, TicketInv
    <2>2. accepting' = accepting
      BY <1>2, <2>1 DEF Execute, Enter, Leave
    <2>3. \/ stack' = stack
          \/ IsMarker(Head(list)) /\ stack' = Append(stack, Head(list).of)
          \/ stack # <<>> /\ stack' = SubSeq(stack, 1, Len(stack) - 1)
      BY <1>2, <2>1 DEF Execute, Enter, Leave, Left, IsMarker
    <2>4. stack' \in Seq(Ticket)
      BY <2>1, <2>3, SMTT(30) DEF ScopeTypes
    <2> QED BY <2>2, <2>4 DEF ScopeTypes
  <1>3. CASE Rhi /\ ~Execute
    BY <1>3 DEF Rhi, PresentReturns, StartBegin, StartHook, QuiesceBegin, QuiesceActive, QuiesceScopes,
         QuiesceEnd, Stop, StopBegin, StopRead, StopReads, StopBusy, ReadGuards, ReadLive, ReadUniforms,
         ReadRetired, DisableHooks, ReadOuter, Destroy, PresentStep, ScopeTypes
  <1>4. CASE Game \/ Render
    BY <1>1, <1>4, RenderKeeps DEF Game, TickBegin, ConstructBegin, ConstructEnd, GameUnchanged, scopeVars
  <1>5. CASE Others
    BY <1>5 DEF Others, Prepare, PrepareFails, PrepareFailsUnseen, RequestShutdown, StatusBegin, StatusEnd,
                   OthersUnchanged, ScopeTypes
  <1>6. CASE UNCHANGED vars
    BY <1>1, <1>6 DEF vars, scopeVars
  <1>7. CASE \E thread \in Threads : Window(thread)
    BY <1>1, <1>7, WindowKeeps DEF scopeVars
  <1> QED BY <1>2, <1>3, <1>4, <1>5, <1>6, <1>7 DEF Next

\* The sets of threads at either end of a detour.
WindowTypes == entering \subseteq Threads /\ leaving \subseteq Threads /\ unseen \subseteq Threads

\* Every step keeps them.
LEMMA WindowTypesStep == WindowTypes /\ [Next]_vars => WindowTypes'
  <1> SUFFICES ASSUME WindowTypes, [Next]_vars PROVE WindowTypes'
    OBVIOUS
  <1> USE DEF WindowTypes
  <1>1. CASE \E thread \in Threads : Window(thread)
    BY <1>1 DEF Window, Enters, Returns, WindowUnchanged
  <1>2. CASE Game \/ Render
    BY <1>2, WindowsMove
  <1>3. CASE Execute
    BY <1>3 DEF Execute, RhiUnchanged, windowVars
  <1>4. CASE Rhi /\ ~Execute
    BY <1>4 DEF Rhi, PresentReturns, StartBegin, StartHook, QuiesceBegin, QuiesceActive, QuiesceScopes,
           QuiesceEnd, Stop, StopBegin, StopRead, StopReads, StopBusy, ReadGuards, ReadLive, ReadUniforms,
           ReadRetired, DisableHooks, ReadOuter, Destroy, PresentStep, RhiUnchanged, windowVars
  <1>5. CASE Others
    BY <1>5 DEF Others, Prepare, PrepareFails, PrepareFailsUnseen, RequestShutdown, StatusBegin, StatusEnd,
           OthersUnchanged, Threads
  <1>6. CASE UNCHANGED vars
    BY <1>6 DEF vars, windowVars
  <1> QED BY <1>1, <1>2, <1>3, <1>4, <1>5, <1>6 DEF Next

\* Every variable has its type.
THEOREM RendererTypes == Spec => []RendererInv
  <1>1. Init => ScopeTypes /\ WindowTypes
    BY DEF Init, ScopesInit, ScopeTypes, WindowTypes
  <1>2. ThreadTypes /\ TicketInv /\ ScopeTypes /\ WindowTypes => RendererInv
    BY DEF ThreadTypes, TicketInv, ListInv, ScopeTypes, WindowTypes, RendererInv, RendererRecord, RenderRecord
  <1> QED BY <1>1, <1>2, TicketStart, InitTypes, TypesStep, TicketStep, ScopeTypesStep, WindowTypesStep, PTL DEF Spec

-------------------------------------------------------------------------------
\* The scopes that the RHI thread is inside of.

\* The command c is queued before the command d.
Precedes(l, c, d) == \E i, j \in 1..Len(l) : i < j /\ l[i] = c /\ l[j] = d

\* The scope t begins before the scope u, in the stack s and then the list l.
Before(s, l, t, u) ==
    \/ Precedes(s, t, u)
    \/ Queues(s, t) /\ Queues(l, Begin(u))
    \/ Precedes(l, Begin(t), Begin(u))

\* The scopes in s are those of o that have begun; each begins once, and one that begins before
\* another has its end behind the other's end, or before the other begins.
Nested(s, l, o) ==
    /\ s \in Seq(Ticket)
    /\ \A t \in Ticket : Queues(s, t) <=> (t \in o /\ ~Queues(l, Begin(t)))
    /\ \A t \in Ticket : ~Before(s, l, t, t)
    /\ \A t, u \in Ticket : Before(s, l, t, u) /\ Queues(l, End(t)) =>
          Precedes(l, End(u), End(t)) \/ Precedes(l, End(t), Begin(u))

\* The scopes that the render thread has still to end.
ToEnd == {t \in {<<render.cur, "frame">>} : render.frame}
         \union {t \in {<<render.cur, "submission">>} : render.submission}

\* As long as no marker was refused, what is open ends, and a submission within its frame.
NestInv ==
    /\ refusals \in Nat
    /\ refusals = 0 =>
        /\ Nested(stack, list, open)
        /\ \A t \in open : Queues(list, End(t)) \/ t \in ToEnd
        /\ render.frame /\ render.submission =>
              ~Before(stack, list, <<render.cur, "submission">>, <<render.cur, "frame">>)

\* What an element at the end of a sequence precedes, and what precedes it.
LEMMA OrderAppended ==
  ASSUME NEW S, NEW l \in Seq(S), NEW c \in S
  PROVE  /\ \A d : Queues(Append(l, c), d) <=> Queues(l, d) \/ d = c
         /\ \A a, b : Precedes(Append(l, c), a, b) <=> Precedes(l, a, b) \/ (b = c /\ Queues(l, a))
  <1>1. /\ Append(l, c) \in Seq(S) /\ Len(Append(l, c)) = Len(l) + 1 /\ Len(l) \in Nat
        /\ \A i \in 1..Len(l) : Append(l, c)[i] = l[i]
        /\ Append(l, c)[Len(l) + 1] = c
    OBVIOUS
  <1> DEFINE m == Append(l, c)
  <1> HIDE DEF m
  <1>2. /\ Len(m) = Len(l) + 1 /\ \A i \in 1..Len(l) : m[i] = l[i] /\ i \in 1..Len(m)
        /\ m[Len(l) + 1] = c /\ Len(l) + 1 \in 1..Len(m)
        /\ \A i \in 1..Len(m) : i \in 1..Len(l) \/ i = Len(l) + 1
    BY <1>1 DEF m
  <1>3. \A d : Queues(m, d) <=> Queues(l, d) \/ d = c
    BY <1>2 DEF Queues
  <1>4. ASSUME NEW a, NEW b
        PROVE  Precedes(m, a, b) <=> Precedes(l, a, b) \/ (b = c /\ Queues(l, a))
    <2>1. ASSUME Precedes(m, a, b) PROVE Precedes(l, a, b) \/ (b = c /\ Queues(l, a))
      <3>1. PICK i, j \in 1..Len(m) : i < j /\ m[i] = a /\ m[j] = b
        BY <2>1 DEF Precedes
      <3>2. i \in 1..Len(l) /\ l[i] = a
        BY <1>1, <1>2, <3>1
      <3>3. CASE j \in 1..Len(l)
        BY <1>2, <3>1, <3>2, <3>3 DEF Precedes
      <3>4. CASE j = Len(l) + 1
        BY <1>2, <3>1, <3>2, <3>4 DEF Queues
      <3> QED BY <1>2, <3>3, <3>4
    <2>2. ASSUME Precedes(l, a, b) PROVE Precedes(m, a, b)
      BY <1>2, <2>2 DEF Precedes
    <2>3. ASSUME b = c, Queues(l, a) PROVE Precedes(m, a, b)
      <3>1. PICK i \in 1..Len(l) : l[i] = a
        BY <2>3 DEF Queues
      <3>2. i \in 1..Len(m) /\ i < Len(l) + 1 /\ m[i] = a
        BY <1>1, <1>2, <3>1
      <3> QED BY <1>2, <2>3, <3>2 DEF Precedes
    <2> QED BY <2>1, <2>2, <2>3
  <1> QED BY <1>3, <1>4 DEF m

\* The same for the first element of a sequence.
LEMMA OrderTail ==
  ASSUME NEW S, NEW l \in Seq(S), l # <<>>
  PROVE  /\ Tail(l) \in Seq(S)
         /\ \A d : Queues(l, d) <=> Queues(Tail(l), d) \/ d = Head(l)
         /\ \A a, b : Precedes(l, a, b) <=> Precedes(Tail(l), a, b) \/ (a = Head(l) /\ Queues(Tail(l), b))
  <1> DEFINE m == Tail(l)
  <1>1. /\ m \in Seq(S) /\ Len(l) \in Nat /\ Len(l) > 0 /\ Head(l) = l[1] /\ Len(m) = Len(l) - 1
        /\ \A i \in 1..Len(m) : m[i] = l[i + 1]
    OBVIOUS
  <1> HIDE DEF m
  <1>2. /\ \A i \in 1..Len(m) : m[i] = l[i + 1] /\ i + 1 \in 1..Len(l)
        /\ \A i \in 1..Len(l) : i # 1 => i - 1 \in 1..Len(m) /\ m[i - 1] = l[i]
    BY <1>1
  <1>3. ASSUME NEW d PROVE Queues(l, d) <=> Queues(m, d) \/ d = Head(l)
    <2>1. Queues(l, d) => Queues(m, d) \/ d = Head(l)
      BY <1>1, <1>2 DEF Queues
    <2>2. Queues(m, d) => Queues(l, d)
      BY <1>2 DEF Queues
    <2>3. d = Head(l) => Queues(l, d)
      BY <1>1 DEF Queues
    <2> QED BY <2>1, <2>2, <2>3
  <1>4. ASSUME NEW a, NEW b
        PROVE  Precedes(l, a, b) <=> Precedes(m, a, b) \/ (a = Head(l) /\ Queues(m, b))
    <2>1. ASSUME Precedes(l, a, b) PROVE Precedes(m, a, b) \/ (a = Head(l) /\ Queues(m, b))
      <3>1. PICK i, j \in 1..Len(l) : i < j /\ l[i] = a /\ l[j] = b
        BY <2>1 DEF Precedes
      <3>2. j - 1 \in 1..Len(m) /\ m[j - 1] = b
        BY <1>1, <1>2, <3>1
      <3>3. CASE i = 1
        BY <1>1, <3>1, <3>2, <3>3 DEF Queues
      <3>4. CASE i # 1
        <4>1. i - 1 \in 1..Len(m) /\ m[i - 1] = a /\ i - 1 < j - 1
          BY <1>1, <1>2, <3>1, <3>4
        <4> QED BY <3>2, <4>1 DEF Precedes
      <3> QED BY <3>3, <3>4
    <2>2. ASSUME Precedes(m, a, b) PROVE Precedes(l, a, b)
      <3>1. PICK i, j \in 1..Len(m) : i < j /\ m[i] = a /\ m[j] = b
        BY <2>2 DEF Precedes
      <3>2. i + 1 \in 1..Len(l) /\ j + 1 \in 1..Len(l) /\ i + 1 < j + 1 /\ l[i + 1] = a /\ l[j + 1] = b
        BY <1>2, <3>1
      <3> QED BY <3>2 DEF Precedes
    <2>3. ASSUME a = Head(l), Queues(m, b) PROVE Precedes(l, a, b)
      <3>1. PICK j \in 1..Len(m) : m[j] = b
        BY <2>3 DEF Queues
      <3>2. 1 \in 1..Len(l) /\ j + 1 \in 1..Len(l) /\ 1 < j + 1 /\ l[1] = a /\ l[j + 1] = b
        BY <1>1, <1>2, <2>3, <3>1
      <3> QED BY <3>2 DEF Precedes
    <2> QED BY <2>1, <2>2, <2>3
  <1> QED BY <1>1, <1>3, <1>4 DEF m

\* The markers of a list, told by what they precede.
LEMMA MarkersOf ==
  ASSUME NEW l, NEW o, ListInv(l, o), NEW t \in Ticket
  PROVE  /\ Queues(l, Begin(t)) => t \in o
         /\ Queues(l, End(t)) => t \in o
         /\ ~Precedes(l, End(t), Begin(t)) /\ ~Precedes(l, End(t), End(t))
  <1>1. /\ IsMarker(Begin(t)) /\ Begin(t).of = t /\ IsMarker(End(t)) /\ End(t).of = t /\ End(t).op = "end"
    BY Commands DEF End
  <1>2. (Queues(l, Begin(t)) => t \in o) /\ (Queues(l, End(t)) => t \in o)
    BY <1>1 DEF ListInv, Queues
  <1>3. ~Precedes(l, End(t), Begin(t))
    BY <1>1 DEF ListInv, Precedes
  <1>4. ~Precedes(l, End(t), End(t))
    BY <1>1 DEF ListInv, Precedes
  <1> QED BY <1>2, <1>3, <1>4

\* A command that is no marker leaves the order of the scopes as it is.
LEMMA NestedOther ==
  ASSUME NEW s, NEW l \in Seq(Command), NEW o, Nested(s, l, o), NEW c \in Command, ~IsMarker(c)
  PROVE  /\ Nested(s, Append(l, c), o)
         /\ \A t, u \in Ticket : Before(s, Append(l, c), t, u) <=> Before(s, l, t, u)
  <1>1. \A t \in Ticket : c # Begin(t) /\ c # End(t)
    BY Commands
  <1>2. \A t \in Ticket : /\ Queues(Append(l, c), Begin(t)) <=> Queues(l, Begin(t))
                          /\ Queues(Append(l, c), End(t)) <=> Queues(l, End(t))
    BY <1>1, OrderAppended
  <1>3. \A t, u \in Ticket : /\ Precedes(Append(l, c), Begin(t), Begin(u)) <=> Precedes(l, Begin(t), Begin(u))
                             /\ Precedes(Append(l, c), End(t), Begin(u)) <=> Precedes(l, End(t), Begin(u))
                             /\ Precedes(Append(l, c), End(t), End(u)) <=> Precedes(l, End(t), End(u))
    BY <1>1, OrderAppended
  <1>4. \A t, u \in Ticket : Before(s, Append(l, c), t, u) <=> Before(s, l, t, u)
    BY <1>2, <1>3 DEF Before
  <1> QED BY <1>2, <1>3, <1>4 DEF Nested

\* A scope that begins does so behind all that have begun, and within those that have not ended.
LEMMA NestedBegin ==
  ASSUME NEW s, NEW l, NEW o, ListInv(l, o), Nested(s, l, o), NEW t \in Ticket, t \notin o
  PROVE  /\ Nested(s, Append(l, Begin(t)), o \union {t})
         /\ \A x, y \in Ticket : Before(s, Append(l, Begin(t)), x, y) => Before(s, l, x, y) \/ y = t
         /\ \A x \in Ticket : ~Before(s, Append(l, Begin(t)), t, x)
  <1> DEFINE m == Append(l, Begin(t))
  <1>1. l \in Seq(Command) /\ Begin(t) \in Command
        /\ \A x \in Ticket : End(x) # Begin(t) /\ (x # t => Begin(x) # Begin(t))
    BY Commands DEF ListInv
  <1>2. \A x \in Ticket : /\ Queues(m, Begin(x)) <=> Queues(l, Begin(x)) \/ x = t
                          /\ Queues(m, End(x)) <=> Queues(l, End(x))
    BY <1>1, OrderAppended
  <1>3. \A x, y \in Ticket :
           /\ Precedes(m, Begin(x), Begin(y)) <=> Precedes(l, Begin(x), Begin(y)) \/ (y = t /\ Queues(l, Begin(x)))
           /\ Precedes(m, End(x), Begin(y)) <=> Precedes(l, End(x), Begin(y)) \/ (y = t /\ Queues(l, End(x)))
           /\ Precedes(m, End(x), End(y)) <=> Precedes(l, End(x), End(y))
    BY <1>1, OrderAppended
  <1>4. ~Queues(l, Begin(t)) /\ ~Queues(s, t)
    BY MarkersOf DEF Nested
  <1>5. \A y : ~Precedes(l, Begin(t), y) /\ ~Precedes(s, t, y)
    BY <1>4 DEF Precedes, Queues
  <1> HIDE DEF m
  <1>6. \A x, y \in Ticket : Before(s, m, x, y) <=>
           Before(s, l, x, y) \/ (y = t /\ (Queues(s, x) \/ Queues(l, Begin(x))))
    BY <1>2, <1>3 DEF Before
  <1>7. \A x \in Ticket : ~Before(s, m, t, x)
    BY <1>4, <1>5, <1>6 DEF Before
  <1>8. \A x \in Ticket : Queues(s, x) <=> (x \in o \union {t} /\ ~Queues(m, Begin(x)))
    BY <1>2, <1>4 DEF Nested
  <1>9. \A x \in Ticket : ~Before(s, m, x, x)
    BY <1>6, <1>7 DEF Nested
  <1>10. \A x, y \in Ticket : Before(s, m, x, y) /\ Queues(m, End(x)) =>
            Precedes(m, End(y), End(x)) \/ Precedes(m, End(x), Begin(y))
    BY <1>2, <1>3, <1>6 DEF Nested
  <1>11. s \in Seq(Ticket)
    BY DEF Nested
  <1>12. Nested(s, m, o \union {t})
    BY <1>8, <1>9, <1>10, <1>11 DEF Nested
  <1> QED BY <1>6, <1>7, <1>12 DEF m

\* A scope may end behind the ends of all that began in it.
LEMMA NestedEnd ==
  ASSUME NEW s, NEW l, NEW o, ListInv(l, o), Nested(s, l, o), NEW t \in Ticket,
         \A u \in Ticket : Before(s, l, t, u) => Queues(l, End(u))
  PROVE  /\ Nested(s, Append(l, End(t)), o)
         /\ \A x, y \in Ticket : Before(s, Append(l, End(t)), x, y) <=> Before(s, l, x, y)
  <1> DEFINE m == Append(l, End(t))
  <1>1. l \in Seq(Command) /\ End(t) \in Command
        /\ \A x \in Ticket : Begin(x) # End(t) /\ (x # t => End(x) # End(t))
    BY Commands DEF ListInv
  <1>2. \A x \in Ticket : /\ Queues(m, Begin(x)) <=> Queues(l, Begin(x))
                          /\ Queues(m, End(x)) <=> Queues(l, End(x)) \/ x = t
    BY <1>1, OrderAppended
  <1>3. \A x, y \in Ticket :
           /\ Precedes(m, Begin(x), Begin(y)) <=> Precedes(l, Begin(x), Begin(y))
           /\ Precedes(m, End(x), Begin(y)) <=> Precedes(l, End(x), Begin(y))
           /\ Precedes(m, End(x), End(y)) <=> Precedes(l, End(x), End(y)) \/ (y = t /\ Queues(l, End(x)))
    BY <1>1, OrderAppended
  <1> HIDE DEF m
  <1>4. \A x, y \in Ticket : Before(s, m, x, y) <=> Before(s, l, x, y)
    BY <1>2, <1>3 DEF Before
  <1>5. \A x, y \in Ticket : Before(s, m, x, y) /\ Queues(m, End(x)) =>
            Precedes(m, End(y), End(x)) \/ Precedes(m, End(x), Begin(y))
    BY <1>2, <1>3, <1>4 DEF Nested
  <1>6. Nested(s, m, o)
    BY <1>2, <1>4, <1>5 DEF Nested
  <1> QED BY <1>4, <1>6 DEF m

\* A scope that opens and closes at once.
LEMMA NestedBoth ==
  ASSUME NEW s, NEW l, NEW o, ListInv(l, o), Nested(s, l, o), NEW t \in Ticket, t \notin o
  PROVE  /\ Nested(s, Append(Append(l, Begin(t)), End(t)), o \union {t})
         /\ \A x, y \in Ticket :
               Before(s, Append(Append(l, Begin(t)), End(t)), x, y) => Before(s, l, x, y) \/ y = t
  <1> DEFINE m == Append(l, Begin(t))
  <1>1. /\ ListInv(m, o \union {t}) /\ Nested(s, m, o \union {t})
        /\ \A x, y \in Ticket : Before(s, m, x, y) => Before(s, l, x, y) \/ y = t
        /\ \A x \in Ticket : ~Before(s, m, t, x)
    BY AppendBegin, NestedBegin
  <1> HIDE DEF m
  <1>2. /\ Nested(s, Append(m, End(t)), o \union {t})
        /\ \A x, y \in Ticket : Before(s, Append(m, End(t)), x, y) <=> Before(s, m, x, y)
    BY <1>1, NestedEnd
  <1> QED BY <1>1, <1>2 DEF m

\* What the last element of a sequence is behind.
LEMMA FrontAndLast ==
  ASSUME NEW S, NEW s \in Seq(S), s # <<>>
  PROVE  LET front == SubSeq(s, 1, Len(s) - 1)
         IN  /\ front \in Seq(S) /\ s[Len(s)] \in S /\ Append(front, s[Len(s)]) = s
  <1> DEFINE front == SubSeq(s, 1, Len(s) - 1)
  <1>1. Len(s) \in Nat /\ Len(s) > 0 /\ \A i \in 1..Len(s) : s[i] \in S
    OBVIOUS
  <1>2. front \in Seq(S) /\ Len(front) = Len(s) - 1 /\ \A i \in 1..Len(front) : front[i] = s[i]
    <2>1. \A i \in 1..(Len(s) - 1) : s[i] \in S
      BY <1>1
    <2>2. 1 \in Int /\ Len(s) - 1 \in Int /\ Len(s) - 1 - 1 + 1 = Len(s) - 1
      BY <1>1
    <2>3. /\ front \in Seq(S)
          /\ Len(front) = (IF 1 <= Len(s) - 1 THEN Len(s) - 1 - 1 + 1 ELSE 0)
          /\ \A i \in 1..(Len(s) - 1 - 1 + 1) : front[i] = s[1 + i - 1]
      BY <2>1, <2>2, SubSeqProperties
    <2> HIDE DEF front
    <2>4. Len(front) = Len(s) - 1
      <3>1. CASE 1 <= Len(s) - 1
        BY <2>2, <2>3, <3>1, Zenon
      <3>2. CASE ~(1 <= Len(s) - 1)
        <4>1. Len(front) = 0
          BY <2>3, <3>2, Zenon
        <4>2. Len(s) - 1 = 0
          <5>1. Len(s) \in Nat /\ Len(s) > 0
            BY <1>1
          <5>2. \A n \in Nat : n > 0 /\ ~(1 <= n - 1) => n - 1 = 0
            OBVIOUS
          <5> QED BY <3>2, <5>1, <5>2
        <4> QED BY <4>1, <4>2
      <3> QED BY <3>1, <3>2
    <2>5. ASSUME NEW i \in 1..Len(front) PROVE front[i] = s[i]
      <3>1. 1 + i - 1 = i /\ i \in 1..(Len(s) - 1 - 1 + 1)
        BY <1>1, <2>4
      <3> QED BY <2>3, <3>1
    <2> QED BY <2>3, <2>4, <2>5
  <1> DEFINE whole == Append(front, s[Len(s)])
  <1> HIDE DEF front
  <1>3. whole \in Seq(S) /\ Len(whole) = Len(s)
    BY <1>1, <1>2
  <1>4. ASSUME NEW i \in 1..Len(whole) PROVE whole[i] = s[i]
    BY <1>1, <1>2, <1>3
  <1>5. whole = s
    <2> HIDE DEF whole
    <2> QED BY <1>3, <1>4, SeqEqual
  <1> QED BY <1>1, <1>2, <1>5 DEF front

\* The execution of a begin marker: the scope is entered.
LEMMA NestedEnter ==
  ASSUME NEW s, NEW l, NEW o, ListInv(l, o), Nested(s, l, o), l # <<>>,
         NEW x \in Ticket, Head(l) = Begin(x)
  PROVE  /\ Nested(Append(s, x), Tail(l), o)
         /\ \A t, u \in Ticket : Before(Append(s, x), Tail(l), t, u) => Before(s, l, t, u)
  <1> DEFINE m == Tail(l)
             z == Append(s, x)
  <1>1. l \in Seq(Command) /\ s \in Seq(Ticket) /\ z \in Seq(Ticket)
        /\ \A t \in Ticket : End(t) # Begin(x) /\ (t # x => Begin(t) # Begin(x))
    BY Commands DEF ListInv, Nested
  <1>2. \A t \in Ticket : /\ Queues(l, Begin(t)) <=> Queues(m, Begin(t)) \/ t = x
                          /\ Queues(l, End(t)) <=> Queues(m, End(t))
    BY <1>1, OrderTail
  <1>3. \A t, u \in Ticket :
           /\ Precedes(l, Begin(t), Begin(u)) <=> Precedes(m, Begin(t), Begin(u)) \/ (t = x /\ Queues(m, Begin(u)))
           /\ Precedes(l, End(t), Begin(u)) <=> Precedes(m, End(t), Begin(u))
           /\ Precedes(l, End(t), End(u)) <=> Precedes(m, End(t), End(u))
    BY <1>1, OrderTail
  <1>4. /\ \A t : Queues(z, t) <=> Queues(s, t) \/ t = x
        /\ \A t, u : Precedes(z, t, u) <=> Precedes(s, t, u) \/ (u = x /\ Queues(s, t))
    BY <1>1, OrderAppended
  <1>5. x \in o
    BY <1>2, MarkersOf
  <1>6. ~Queues(m, Begin(x))
    BY <1>3 DEF Nested, Before
  <1> HIDE DEF m, z
  <1>7. \A t, u \in Ticket : Before(z, m, t, u) => Before(s, l, t, u)
    BY <1>2, <1>3, <1>4 DEF Before
  <1>8. \A t \in Ticket : Queues(z, t) <=> (t \in o /\ ~Queues(m, Begin(t)))
    BY <1>2, <1>4, <1>5, <1>6 DEF Nested
  <1>9. \A t \in Ticket : ~Before(z, m, t, t)
    BY <1>7 DEF Nested
  <1>10. \A t, u \in Ticket : Before(z, m, t, u) /\ Queues(m, End(t)) =>
            Precedes(m, End(u), End(t)) \/ Precedes(m, End(t), Begin(u))
    BY <1>2, <1>3, <1>7 DEF Nested
  <1>11. Nested(z, m, o)
    BY <1>1, <1>8, <1>9, <1>10 DEF Nested
  <1> QED BY <1>7, <1>11 DEF m, z

\* The execution of an end marker finds its own scope innermost, and that one is left.
LEMMA NestedLeave ==
  ASSUME NEW s, NEW l, NEW o, ListInv(l, o), Nested(s, l, o), l # <<>>,
         NEW x \in Ticket, Head(l) = End(x)
  PROVE  /\ s # <<>> /\ s[Len(s)] = x
         /\ Nested(SubSeq(s, 1, Len(s) - 1), Tail(l), o \ {x})
         /\ \A t, u \in Ticket : Before(SubSeq(s, 1, Len(s) - 1), Tail(l), t, u) => Before(s, l, t, u)
  <1> DEFINE m == Tail(l)
             z == SubSeq(s, 1, Len(s) - 1)
             y == s[Len(s)]
  <1>1. l \in Seq(Command) /\ s \in Seq(Ticket)
        /\ \A t \in Ticket : Begin(t) # End(x) /\ (t # x => End(t) # End(x))
    BY Commands DEF ListInv, Nested
  <1>2. \A t \in Ticket : /\ Queues(l, Begin(t)) <=> Queues(m, Begin(t))
                          /\ Queues(l, End(t)) <=> Queues(m, End(t)) \/ t = x
    BY <1>1, OrderTail
  <1>3. \A t, u \in Ticket :
           /\ Precedes(l, Begin(t), Begin(u)) <=> Precedes(m, Begin(t), Begin(u))
           /\ Precedes(l, End(t), Begin(u)) <=> Precedes(m, End(t), Begin(u)) \/ (t = x /\ Queues(m, Begin(u)))
           /\ Precedes(l, End(t), End(u)) <=> Precedes(m, End(t), End(u)) \/ (t = x /\ Queues(m, End(u)))
    BY <1>1, OrderTail
  <1>4. ~Queues(m, Begin(x)) /\ ~Queues(m, End(x)) /\ x \in o
    BY <1>2, <1>3, MarkersOf
  <1>5. Queues(s, x)
    BY <1>2, <1>4 DEF Nested
  <1>6. s # <<>>
    BY <1>5 DEF Queues
  <1>7. z \in Seq(Ticket) /\ y \in Ticket /\ Append(z, y) = s
    BY <1>1, <1>6, FrontAndLast
  <1> HIDE DEF m, z, y
  <1>8. /\ \A t : Queues(s, t) <=> Queues(z, t) \/ t = y
        /\ \A t, u : Precedes(s, t, u) <=> Precedes(z, t, u) \/ (u = y /\ Queues(z, t))
    BY <1>7, OrderAppended
  <1>9. y = x
    <2>1. SUFFICES ASSUME y # x PROVE FALSE
      OBVIOUS
    <2>2. Before(s, l, x, y)
      BY <1>5, <1>8, <2>1 DEF Before
    <2>3. Precedes(l, End(y), End(x)) \/ Precedes(l, End(x), Begin(y))
      BY <1>2, <1>7, <2>2 DEF Nested
    <2>4. ~Precedes(l, End(y), End(x))
      <3>1. ~Precedes(m, End(y), End(x))
        BY <1>4 DEF Precedes, Queues
      <3> QED BY <1>3, <1>4, <1>7, <3>1
    <2>5. ~Queues(m, Begin(y))
      BY <1>2, <1>7, <1>8 DEF Nested
    <2>6. ~Precedes(m, End(x), Begin(y))
      BY <2>5 DEF Precedes, Queues
    <2> QED BY <1>3, <1>7, <2>3, <2>4, <2>5, <2>6
  <1>10. ~Queues(z, x)
    BY <1>8, <1>9 DEF Nested, Before
  <1>11. \A t, u \in Ticket : Before(z, m, t, u) => Before(s, l, t, u) /\ u # x
    <2>1. ~Precedes(z, x, x) /\ \A t : ~Precedes(z, t, x) /\ ~Precedes(m, t, Begin(x))
      BY <1>4, <1>10 DEF Precedes, Queues
    <2> QED BY <1>2, <1>3, <1>4, <1>8, <2>1 DEF Before
  <1>12. \A t \in Ticket : Queues(z, t) <=> (t \in o \ {x} /\ ~Queues(m, Begin(t)))
    BY <1>2, <1>8, <1>9, <1>10 DEF Nested
  <1>13. \A t \in Ticket : ~Before(z, m, t, t)
    BY <1>11 DEF Nested
  <1>14. \A t, u \in Ticket : Before(z, m, t, u) /\ Queues(m, End(t)) =>
            Precedes(m, End(u), End(t)) \/ Precedes(m, End(t), Begin(u))
    <2>1. SUFFICES ASSUME NEW t \in Ticket, NEW u \in Ticket, Before(z, m, t, u), Queues(m, End(t))
                   PROVE  Precedes(m, End(u), End(t)) \/ Precedes(m, End(t), Begin(u))
      OBVIOUS
    <2>2. t # x /\ u # x
      BY <1>4, <1>11, <2>1
    <2>3. Precedes(l, End(u), End(t)) \/ Precedes(l, End(t), Begin(u))
      BY <1>2, <1>11, <2>1 DEF Nested
    <2> QED BY <1>3, <2>2, <2>3
  <1>15. Nested(z, m, o \ {x})
    BY <1>7, <1>12, <1>13, <1>14 DEF Nested
  <1> QED BY <1>6, <1>9, <1>11, <1>15 DEF m, z, y

\* The execution of any other command.
LEMMA NestedPass ==
  ASSUME NEW s, NEW l \in Seq(Command), NEW o, Nested(s, l, o), l # <<>>, ~IsMarker(Head(l))
  PROVE  /\ Nested(s, Tail(l), o)
         /\ \A t, u \in Ticket : Before(s, Tail(l), t, u) <=> Before(s, l, t, u)
  <1> DEFINE m == Tail(l)
  <1>1. \A t \in Ticket : Begin(t) # Head(l) /\ End(t) # Head(l)
    BY Commands
  <1>2. \A t \in Ticket : /\ Queues(l, Begin(t)) <=> Queues(m, Begin(t))
                          /\ Queues(l, End(t)) <=> Queues(m, End(t))
    BY <1>1, OrderTail
  <1>3. \A t, u \in Ticket : /\ Precedes(l, Begin(t), Begin(u)) <=> Precedes(m, Begin(t), Begin(u))
                             /\ Precedes(l, End(t), Begin(u)) <=> Precedes(m, End(t), Begin(u))
                             /\ Precedes(l, End(t), End(u)) <=> Precedes(m, End(t), End(u))
    BY <1>1, OrderTail
  <1> HIDE DEF m
  <1>4. \A t, u \in Ticket : Before(s, m, t, u) <=> Before(s, l, t, u)
    BY <1>2, <1>3 DEF Before
  <1>5. Nested(s, m, o)
    BY <1>2, <1>3, <1>4 DEF Nested
  <1> QED BY <1>4, <1>5 DEF m

\* Nothing changes for the scopes.
LEMMA NestKept ==
  ASSUME NestInv, UNCHANGED <<stack, list, open>>, refusals' \in Nat, refusals' = 0 => refusals = 0,
         render'.cur = render.cur, render'.frame = render.frame, render'.submission = render.submission
  PROVE  NestInv'
  BY DEF NestInv, ToEnd

\* A marker is refused: nothing is claimed any more.
LEMMA NestRefused ==
  ASSUME NestInv, NEW taken \in BOOLEAN, Counted(taken)
  PROVE  refusals' \in Nat /\ (refusals' = 0 => refusals = 0 /\ taken)
  BY DEF NestInv, Counted

\* A renderer's frame begins.
LEMMA NestFrameBegin ==
  ASSUME ThreadTypes, TicketInv, NestInv, FrameBegin
  PROVE  NestInv'
  <1> DEFINE t == <<Head(pipe), "frame">>
  <1>1. /\ render.at = "idle" /\ Head(pipe) \in Renderers /\ Head(pipe) = pipe[1] /\ Len(pipe) > 0
        /\ UNCHANGED stack
    BY DEF FrameBegin, RenderTo, ThreadTypes, RenderUnchanged
  <1>2. t \in Ticket /\ t \notin open
    <2>1. t \in Ticket /\ \A k \in Kind : Fresh(Head(pipe), k)
      BY <1>1 DEF TicketInv, PipeInv, Ticket, Kind
    <2> QED BY <2>1 DEF Fresh, Kind
  <1>3. ~render.frame /\ ~render.submission
    BY <1>1 DEF TicketInv, HeldInv
  <1>4. PICK taken \in BOOLEAN, opens \in BOOLEAN :
            /\ Counted(taken)
            /\ IF opens THEN Open(t, <<>>) ELSE UNCHANGED <<open, list>>
            /\ render' = [render EXCEPT !.at = "submit", !.cur = Head(pipe), !.frame = render.frame \/ opens]
    BY Zenon DEF FrameBegin
  <1>5. refusals' \in Nat /\ (refusals' = 0 => refusals = 0)
    BY <1>4, NestRefused
  <1>6. (render.frame \/ opens) = opens
    BY <1>3
  <1>7. render'.cur = Head(pipe) /\ ~render'.submission /\ render'.frame = opens
    BY <1>3, <1>4, <1>6 DEF ThreadTypes, RenderRecord
  <1>8. SUFFICES ASSUME refusals' = 0
                 PROVE  Nested(stack, list, open)' /\ \A u \in open' : (Queues(list, End(u)) \/ u \in ToEnd)'
    BY <1>5, <1>7 DEF NestInv
  <1>9. Nested(stack, list, open) /\ \A u \in open : Queues(list, End(u))
    BY <1>3, <1>5, <1>8 DEF NestInv, ToEnd
  <1>10. list \in Seq(Command) /\ Begin(t) \in Command
    BY <1>2, Commands DEF TicketInv, ListInv
  <1>11. CASE opens
    <2>1. open' = open \union {t} /\ list' = Append(list, Begin(t))
      <3>1. list \o <<Begin(t)>> \o <<>> = Append(list, Begin(t))
        BY <1>10
      <3> QED BY <1>4, <1>11, <3>1 DEF Open
    <2>2. Nested(stack, Append(list, Begin(t)), open \union {t})
      BY <1>2, <1>9, NestedBegin DEF TicketInv
    <2>3. Nested(stack, list, open)'
      BY <1>1, <2>1, <2>2
    <2>4. \A u \in open : Queues(list', End(u))
      BY <1>9, <1>10, <2>1, OrderAppended
    <2>5. t \in ToEnd'
      BY <1>7, <1>11 DEF ToEnd
    <2> QED BY <2>1, <2>3, <2>4, <2>5
  <1>12. CASE ~opens
    <2>1. open' = open /\ list' = list
      BY <1>4, <1>12
    <2> QED BY <1>1, <1>9, <2>1
  <1> QED BY <1>11, <1>12

\* Its submission begins, behind the frame.
LEMMA NestSubmissionBegin ==
  ASSUME ThreadTypes, TicketInv, NestInv, SubmissionBegin
  PROVE  NestInv'
  <1> DEFINE t == <<render.cur, "submission">>
             f == <<render.cur, "frame">>
  <1>1. render.at = "submit" /\ render.cur \in Renderers /\ UNCHANGED stack
    BY DEF SubmissionBegin, RenderTo, ThreadTypes, RenderUnchanged
  <1>2. t \in Ticket /\ f \in Ticket /\ t # f /\ t \notin open /\ ~render.submission
    BY <1>1 DEF TicketInv, HeldInv, FreshInv, Fresh, Ticket, Kind
  <1>3. PICK taken \in BOOLEAN, opens \in BOOLEAN :
            /\ Counted(taken)
            /\ IF opens THEN Open(t, <<>>) ELSE UNCHANGED <<open, list>>
            /\ render' = [render EXCEPT !.at = "context", !.submission = opens, !.outer = Hooked]
    BY Zenon DEF SubmissionBegin
  <1>4. refusals' \in Nat /\ (refusals' = 0 => refusals = 0)
    BY <1>3, NestRefused
  <1>5. render'.cur = render.cur /\ render'.submission = opens /\ render'.frame = render.frame
    BY <1>3 DEF ThreadTypes, RenderRecord
  <1>6. CASE ~opens
    <2>1. open' = open /\ list' = list
      BY <1>3, <1>6
    <2>2. render'.submission = render.submission
      BY <1>2, <1>5, <1>6 DEF ThreadTypes, RenderRecord
    <2> QED BY <1>1, <1>4, <1>5, <2>1, <2>2, NestKept
  <1>7. CASE opens
    <2>1. list \in Seq(Command) /\ Begin(t) \in Command
      BY <1>2, Commands DEF TicketInv, ListInv
    <2>2. open' = open \union {t} /\ list' = Append(list, Begin(t))
      <3>1. list \o <<Begin(t)>> \o <<>> = Append(list, Begin(t))
        BY <2>1
      <3> QED BY <1>3, <1>7, <3>1 DEF Open
    <2>3. SUFFICES ASSUME refusals' = 0
                   PROVE  /\ Nested(stack, list, open)' /\ \A u \in open' : (Queues(list, End(u)) \/ u \in ToEnd)'
                          /\ ~Before(stack, list', t, f)
      BY <1>1, <1>4, <1>5 DEF NestInv
    <2>4. Nested(stack, list, open) /\ \A u \in open : Queues(list, End(u)) \/ u \in ToEnd
      BY <1>4, <2>3 DEF NestInv
    <2>5. /\ Nested(stack, Append(list, Begin(t)), open \union {t})
          /\ \A x \in Ticket : ~Before(stack, Append(list, Begin(t)), t, x)
      BY <1>2, <2>4, NestedBegin DEF TicketInv
    <2>6. Nested(stack, list, open)'
      BY <1>1, <2>2, <2>5
    <2>7. \A u \in open : Queues(list, End(u)) => Queues(list', End(u))
      BY <2>1, <2>2, OrderAppended
    <2>8. t \in ToEnd' /\ \A u \in ToEnd : u \in ToEnd'
      BY <1>2, <1>5, <1>7 DEF ToEnd
    <2> QED BY <1>2, <2>2, <2>4, <2>5, <2>6, <2>7, <2>8
  <1> QED BY <1>6, <1>7

\* A scope for a lease alone, and perhaps a draw behind it.
LEMMA NestEnclosed ==
  ASSUME ListInv(list, open), Nested(stack, list, open), NEW t \in Ticket, t \notin open, NEW r \in Renderers,
         NEW behind \in {<<>>, <<Draw(r)>>}, Enclose(t, TRUE, behind)
  PROVE  /\ open' = open \union {t} /\ Nested(stack, list', open')
         /\ \A u \in Ticket : Queues(list', End(u)) <=> Queues(list, End(u)) \/ u = t
         /\ \A x, y \in Ticket : Before(stack, list', x, y) => Before(stack, list, x, y) \/ y = t
  <1> DEFINE begun == Append(list, Begin(t))
             ended == Append(begun, End(t))
  <1>1. /\ list \in Seq(Command) /\ Begin(t) \in Command /\ End(t) \in Command
        /\ Draw(r) \in Command /\ ~IsMarker(Draw(r))
        /\ \A u \in Ticket : End(u) # Begin(t) /\ End(u) # Draw(r) /\ (u # t => End(u) # End(t))
    BY Commands DEF ListInv
  <1>2. open' = open \union {t} /\ list' = IF behind = <<>> THEN ended ELSE Append(ended, Draw(r))
    BY <1>1, EnclosedList DEF Enclose, Open
  <1>3. begun \in Seq(Command) /\ ended \in Seq(Command)
    BY <1>1
  <1>4. \A u \in Ticket : Queues(ended, End(u)) <=> Queues(list, End(u)) \/ u = t
    <2>1. \A u \in Ticket : Queues(begun, End(u)) <=> Queues(list, End(u))
      BY <1>1, OrderAppended
    <2> HIDE DEF begun
    <2>2. \A u : Queues(ended, u) <=> Queues(begun, u) \/ u = End(t)
      BY <1>1, <1>3, OrderAppended
    <2> QED BY <1>1, <2>1, <2>2
  <1>5. /\ Nested(stack, ended, open \union {t})
        /\ \A x, y \in Ticket : Before(stack, ended, x, y) => Before(stack, list, x, y) \/ y = t
    BY NestedBoth
  <1> HIDE DEF begun, ended
  <1>6. CASE behind = <<>>
    BY <1>2, <1>4, <1>5, <1>6
  <1>7. CASE behind # <<>>
    <2>1. list' = Append(ended, Draw(r))
      BY <1>2, <1>7
    <2>2. /\ Nested(stack, list', open \union {t})
          /\ \A x, y \in Ticket : Before(stack, list', x, y) <=> Before(stack, ended, x, y)
      BY <1>1, <1>3, <1>5, <2>1, NestedOther
    <2>3. \A u \in Ticket : Queues(list', End(u)) <=> Queues(ended, End(u))
      BY <1>1, <1>3, <2>1, OrderAppended
    <2> QED BY <1>2, <1>4, <1>5, <2>2, <2>3
  <1> QED BY <1>6, <1>7

\* What a step may do to the list when it opens no scope that is still to be ended.
LEMMA NestQueued ==
  ASSUME ThreadTypes, NestInv, refusals' \in Nat, UNCHANGED stack, NEW t \in Ticket, t \notin open,
         render.cur \in Renderers, t # <<render.cur, "frame">>,
         render'.cur = render.cur, render'.frame = render.frame, render'.submission = render.submission,
         refusals' = 0 =>
            /\ refusals = 0 /\ Nested(stack, list', open')
            /\ open' = open \/ (open' = open \union {t} /\ Queues(list', End(t)))
            /\ \A u \in open : Queues(list, End(u)) => Queues(list', End(u))
            /\ \A x, y \in Ticket : Before(stack, list', x, y) => Before(stack, list, x, y) \/ y = t
  PROVE  NestInv'
  <1>1. SUFFICES ASSUME refusals' = 0
                 PROVE  /\ Nested(stack, list, open)' /\ \A u \in open' : (Queues(list, End(u)) \/ u \in ToEnd)'
                        /\ (render.frame /\ render.submission =>
                              ~Before(stack, list', <<render.cur, "submission">>, <<render.cur, "frame">>))
    BY DEF NestInv
  <1>2. Nested(stack, list, open)'
    BY <1>1
  <1>3. ToEnd' = ToEnd
    BY DEF ToEnd
  <1>4. \A u \in open' : (Queues(list, End(u)) \/ u \in ToEnd)'
    BY <1>1, <1>3 DEF NestInv
  <1>5. <<render.cur, "submission">> \in Ticket /\ <<render.cur, "frame">> \in Ticket
    BY DEF Ticket, Kind
  <1>6. render.frame /\ render.submission =>
           ~Before(stack, list', <<render.cur, "submission">>, <<render.cur, "frame">>)
    BY <1>1, <1>5 DEF NestInv
  <1> QED BY <1>2, <1>4, <1>6

\* What its pass queues lies within the submission.
LEMMA NestNodeProcess ==
  ASSUME ThreadTypes, TicketInv, NestInv, NodeProcess
  PROVE  NestInv'
  <1> DEFINE t == <<render.cur, "sr">>
  <1>1. render.at = "node" /\ render.cur \in Renderers /\ UNCHANGED stack
    BY DEF NodeProcess, RenderTo, ThreadTypes, RenderUnchanged
  <1>2. t \in Ticket /\ t # <<render.cur, "frame">> /\ t \notin open
    BY <1>1 DEF TicketInv, FreshInv, Fresh, Ticket, Kind
  <1>3. PICK taken, closes, opens \in BOOLEAN :
            /\ Counted(taken /\ closes)
            /\ IF opens THEN Enclose(t, closes, <<Draw(render.cur)>>)
               ELSE list' = Append(list, Draw(render.cur)) /\ open' = open
    BY Zenon DEF NodeProcess, MayOpen
  <1>4. render'.cur = render.cur /\ render'.submission = render.submission /\ render'.frame = render.frame
    BY DEF NodeProcess, ThreadTypes, RenderRecord
  <1>5. refusals' \in Nat /\ (refusals' = 0 => refusals = 0 /\ closes)
    <2>1. (taken /\ closes) \in BOOLEAN
      BY Zenon
    <2> QED BY <1>3, <2>1, NestRefused
  <1>6. ASSUME refusals' = 0
        PROVE  /\ refusals = 0 /\ Nested(stack, list', open')
               /\ open' = open \/ (open' = open \union {t} /\ Queues(list', End(t)))
               /\ \A u \in open : Queues(list, End(u)) => Queues(list', End(u))
               /\ \A x, y \in Ticket : Before(stack, list', x, y) => Before(stack, list, x, y) \/ y = t
    <2>1. ListInv(list, open) /\ Nested(stack, list, open) /\ open \subseteq Ticket
      BY <1>5, <1>6 DEF TicketInv, NestInv
    <2>2. CASE opens
      <3>1. Enclose(t, TRUE, <<Draw(render.cur)>>)
        <4>1. closes = TRUE
          BY <1>5, <1>6
        <4> QED BY <1>3, <2>2, <4>1
      <3>2. /\ open' = open \union {t} /\ Nested(stack, list', open')
            /\ \A u \in Ticket : Queues(list', End(u)) <=> Queues(list, End(u)) \/ u = t
            /\ \A x, y \in Ticket : Before(stack, list', x, y) => Before(stack, list, x, y) \/ y = t
        BY <1>1, <1>2, <2>1, <3>1, NestEnclosed
      <3> QED BY <1>2, <1>5, <1>6, <2>1, <3>2
    <2>3. CASE ~opens
      <3>1. list' = Append(list, Draw(render.cur)) /\ open' = open /\ list \in Seq(Command)
            /\ Draw(render.cur) \in Command /\ ~IsMarker(Draw(render.cur))
        BY <1>1, <1>3, <2>1, <2>3, Commands DEF ListInv
      <3>2. /\ Nested(stack, list', open)
            /\ \A x, y \in Ticket : Before(stack, list', x, y) <=> Before(stack, list, x, y)
        BY <2>1, <3>1, NestedOther
      <3>3. \A d : Queues(list, d) => Queues(list', d)
        BY <3>1, OrderAppended
      <3>4. refusals = 0 /\ Nested(stack, list', open')
        BY <1>5, <1>6, <3>1, <3>2
      <3> QED BY <3>1, <3>2, <3>3, <3>4
    <2> QED BY <2>2, <2>3
  <1> QED BY <1>1, <1>2, <1>4, <1>5, <1>6, NestQueued

\* The end of a submission is behind the ends of all that began in it: what is open and has no end
\* yet is the submission itself or the frame around it.
LEMMA NestSubmissionEnd ==
  ASSUME ThreadTypes, TicketInv, NestInv, SubmissionEnd
  PROVE  NestInv'
  <1> DEFINE t == <<render.cur, "submission">>
             f == <<render.cur, "frame">>
  <1>1. /\ render.cur \in Renderers /\ UNCHANGED <<stack, open>> /\ t \in Ticket /\ f \in Ticket /\ t # f
    BY DEF SubmissionEnd, RenderTo, ThreadTypes, RenderUnchanged, Ticket, Kind
  <1>2. PICK taken \in BOOLEAN :
            /\ Counted(taken)
            /\ list' = IF render.submission /\ taken THEN Append(list, End(t)) ELSE list
    BY DEF SubmissionEnd
  <1>3. refusals' \in Nat /\ (refusals' = 0 => refusals = 0 /\ taken)
    BY <1>2, NestRefused
  <1>4. render'.cur = render.cur /\ ~render'.submission /\ render'.frame = render.frame
    BY DEF SubmissionEnd, ThreadTypes, RenderRecord
  <1>5. SUFFICES ASSUME refusals' = 0
                 PROVE  Nested(stack, list, open)' /\ \A u \in open' : (Queues(list, End(u)) \/ u \in ToEnd)'
    BY <1>3, <1>4 DEF NestInv
  <1>6. /\ Nested(stack, list, open) /\ \A u \in open : Queues(list, End(u)) \/ u \in ToEnd
        /\ (render.frame /\ render.submission => ~Before(stack, list, t, f))
    BY <1>3, <1>5 DEF NestInv
  <1>7. ListInv(list, open) /\ list \in Seq(Command) /\ End(t) \in Command /\ open \subseteq Ticket
    BY <1>1, Commands DEF TicketInv, ListInv
  <1>8. CASE render.submission
    <2>1. list' = Append(list, End(t))
      BY <1>2, <1>3, <1>5, <1>8
    <2>2. ASSUME NEW u \in Ticket, Before(stack, list, t, u) PROVE Queues(list, End(u))
      <3>1. u \in open
        <4>1. Queues(stack, u) \/ Queues(list, Begin(u))
          BY <2>2 DEF Before, Precedes, Queues
        <4> QED BY <1>6, <1>7, <4>1, MarkersOf DEF Nested
      <3>2. u # t
        BY <1>6, <2>2 DEF Nested
      <3>3. u = f => ~render.frame
        BY <1>6, <1>8, <2>2
      <3> QED BY <1>6, <3>1, <3>2, <3>3 DEF ToEnd
    <2>3. Nested(stack, Append(list, End(t)), open)
      BY <1>1, <1>6, <1>7, <2>2, NestedEnd
    <2>4. Nested(stack, list, open)'
      BY <1>1, <2>1, <2>3
    <2>5. \A u \in open : Queues(list, End(u)) \/ u = t => Queues(list', End(u))
      BY <1>7, <2>1, OrderAppended
    <2>6. \A u \in ToEnd : u = t \/ u \in ToEnd'
      BY <1>4 DEF ToEnd
    <2> QED BY <1>1, <1>6, <2>4, <2>5, <2>6
  <1>9. CASE ~render.submission
    <2>1. list' = list
      BY <1>2, <1>9
    <2>2. \A u \in ToEnd : u \in ToEnd'
      BY <1>4, <1>9 DEF ToEnd
    <2> QED BY <1>1, <1>6, <2>1, <2>2
  <1> QED BY <1>8, <1>9

\* The same for the frame, in which no submission is left.
LEMMA NestFrameEnd ==
  ASSUME ThreadTypes, TicketInv, NestInv, FrameEnd
  PROVE  NestInv'
  <1> DEFINE t == <<render.cur, "frame">>
             p == Present(render.cur)
             ended == IF render.frame THEN Append(list, End(t)) ELSE list
  <1>1. /\ render.at = "end" /\ render.cur \in Renderers /\ UNCHANGED <<stack, open>> /\ t \in Ticket
    BY DEF FrameEnd, RenderTo, ThreadTypes, RenderUnchanged, Ticket, Kind
  <1>2. ~render.submission
    BY <1>1 DEF TicketInv, HeldInv
  <1>3. PICK taken \in BOOLEAN :
            /\ Counted(taken)
            /\ list' = list \o (IF render.frame /\ taken THEN <<End(t)>> ELSE <<>>) \o <<p>>
    BY DEF FrameEnd
  <1>4. refusals' \in Nat /\ (refusals' = 0 => refusals = 0 /\ taken)
    BY <1>3, NestRefused
  <1>5. ~render'.submission /\ ~render'.frame
    BY <1>2 DEF FrameEnd, ThreadTypes, RenderRecord
  <1>6. SUFFICES ASSUME refusals' = 0
                 PROVE  Nested(stack, list, open)' /\ \A u \in open' : Queues(list', End(u))
    BY <1>4, <1>5 DEF NestInv
  <1>7. Nested(stack, list, open) /\ \A u \in open : Queues(list, End(u)) \/ u \in ToEnd
    BY <1>4, <1>6 DEF NestInv
  <1>8. /\ ListInv(list, open) /\ list \in Seq(Command) /\ open \subseteq Ticket
        /\ End(t) \in Command /\ p \in Command /\ ~IsMarker(p)
    BY <1>1, Commands DEF TicketInv, ListInv
  <1>9. list' = Append(ended, p) /\ ended \in Seq(Command)
    <2>1. list' = IF render.frame THEN (list \o <<End(t)>>) \o <<p>> ELSE (list \o <<>>) \o <<p>>
      BY <1>3, <1>4, <1>6
    <2>2. ended \in Seq(Command)
      BY <1>8
    <2>3. list \o <<End(t)>> = Append(list, End(t)) /\ list \o <<>> = list
      BY <1>8
    <2>4. list' = ended \o <<p>>
      BY <2>1, <2>3
    <2>5. \A l \in Seq(Command), c \in Command : l \o <<c>> = Append(l, c)
      OBVIOUS
    <2> QED BY <1>8, <2>2, <2>4, <2>5
  <1>10. Nested(stack, ended, open) /\ \A u \in open : Queues(ended, End(u))
    <2>1. CASE render.frame
      <3>1. ASSUME NEW u \in Ticket, Before(stack, list, t, u) PROVE Queues(list, End(u))
        <4>1. u \in open
          <5>1. Queues(stack, u) \/ Queues(list, Begin(u))
            BY <3>1 DEF Before, Precedes, Queues
          <5> QED BY <1>7, <1>8, <5>1, MarkersOf DEF Nested
        <4>2. u # t
          BY <1>7, <3>1 DEF Nested
        <4> QED BY <1>2, <1>7, <4>1, <4>2 DEF ToEnd
      <3>2. Nested(stack, Append(list, End(t)), open)
        BY <1>1, <1>7, <1>8, <3>1, NestedEnd
      <3>3. \A u : Queues(Append(list, End(t)), End(u)) <=> Queues(list, End(u)) \/ End(u) = End(t)
        BY <1>8, OrderAppended
      <3>4. \A u \in ToEnd : u = t
        BY <1>2 DEF ToEnd
      <3> QED BY <1>7, <2>1, <3>2, <3>3, <3>4
    <2>2. CASE ~render.frame
      <3>1. ToEnd = {}
        BY <1>2, <2>2 DEF ToEnd
      <3> QED BY <1>7, <2>2, <3>1
    <2> QED BY <2>1, <2>2
  <1> HIDE DEF ended
  <1>11. Nested(stack, list', open)
    BY <1>8, <1>9, <1>10, NestedOther
  <1>12. \A u \in open : Queues(list', End(u))
    BY <1>8, <1>9, <1>10, OrderAppended
  <1> QED BY <1>1, <1>11, <1>12

\* The lease of its uniforms lies within the frame.
LEMMA NestRetireEnd ==
  ASSUME ThreadTypes, TicketInv, NestInv, RetireEnd
  PROVE  NestInv'
  <1> DEFINE t == <<render.cur, "uniforms">>
  <1>1. render.at = "retiring" /\ render.cur \in Renderers /\ UNCHANGED stack
    BY DEF RetireEnd, RenderTo, ThreadTypes, RenderUnchanged
  <1>2. t \in Ticket /\ t # <<render.cur, "frame">> /\ t \notin open
    BY <1>1 DEF TicketInv, FreshInv, Fresh, Ticket, Kind
  <1>3. render'.cur = render.cur /\ render'.submission = render.submission /\ render'.frame = render.frame
    BY DEF RetireEnd, ThreadTypes, RenderRecord
  <1>4. \/ UNCHANGED <<open, list, refusals>>
        \/ \E taken, closes, opens \in BOOLEAN :
              /\ Counted(taken /\ closes)
              /\ IF opens THEN Enclose(t, closes, <<>>) ELSE UNCHANGED <<open, list>>
    BY Zenon DEF RetireEnd, RetireUniforms, UniformsThrough, MayOpen
  <1>5. CASE UNCHANGED <<open, list, refusals>>
    BY <1>1, <1>3, <1>5, NestKept DEF NestInv
  <1>6. ASSUME NEW taken \in BOOLEAN, NEW closes \in BOOLEAN, NEW opens \in BOOLEAN, Counted(taken /\ closes),
               IF opens THEN Enclose(t, closes, <<>>) ELSE UNCHANGED <<open, list>>
        PROVE  NestInv'
    <2>1. refusals' \in Nat /\ (refusals' = 0 => refusals = 0 /\ closes)
      <3>1. (taken /\ closes) \in BOOLEAN
        BY Zenon
      <3> QED BY <1>6, <3>1, NestRefused
    <2>2. ASSUME refusals' = 0
          PROVE  /\ refusals = 0 /\ Nested(stack, list', open')
                 /\ open' = open \/ (open' = open \union {t} /\ Queues(list', End(t)))
                 /\ \A u \in open : Queues(list, End(u)) => Queues(list', End(u))
                 /\ \A x, y \in Ticket : Before(stack, list', x, y) => Before(stack, list, x, y) \/ y = t
      <3>1. ListInv(list, open) /\ Nested(stack, list, open) /\ open \subseteq Ticket
        BY <2>1, <2>2 DEF TicketInv, NestInv
      <3>2. CASE opens
        <4>1. closes = TRUE
          BY <2>1, <2>2
        <4>2. Enclose(t, TRUE, <<>>)
          BY <1>6, <3>2, <4>1
        <4>3. /\ open' = open \union {t} /\ Nested(stack, list', open')
              /\ \A u \in Ticket : Queues(list', End(u)) <=> Queues(list, End(u)) \/ u = t
              /\ \A x, y \in Ticket : Before(stack, list', x, y) => Before(stack, list, x, y) \/ y = t
          BY <1>1, <1>2, <3>1, <4>2, NestEnclosed
        <4> QED BY <1>2, <2>1, <2>2, <3>1, <4>3
      <3>3. CASE ~opens
        <4>1. list' = list /\ open' = open
          BY <1>6, <3>3
        <4>2. refusals = 0 /\ Nested(stack, list', open')
          BY <2>1, <2>2, <3>1, <4>1
        <4> QED BY <4>1, <4>2
      <3> QED BY <3>2, <3>3
    <2> QED BY <1>1, <1>2, <1>3, <2>1, <2>2, NestQueued
  <1> QED BY <1>4, <1>5, <1>6

\* The RHI thread executes a command.
LEMMA NestExecute ==
  ASSUME ThreadTypes, TicketInv, NestInv, Execute
  PROVE  NestInv'
  <1> DEFINE c == Head(list)
             t == <<render.cur, "submission">>
             f == <<render.cur, "frame">>
  <1>1. /\ list # <<>> /\ list' = Tail(list) /\ UNCHANGED <<render, refusals>>
        /\ CASE c.op = "begin" -> Enter(c.of) /\ UNCHANGED present
             [] c.op = "end" -> Leave(c.of) /\ UNCHANGED present
             [] c.op = "draw" -> UNCHANGED <<accepting, open, stack, retired, present>>
             [] OTHER -> present' = "present" /\ UNCHANGED <<accepting, open, stack, retired>>
    BY DEF Execute, RhiUnchanged
  <1>2. ListInv(list, open) /\ list \in Seq(Command) /\ c \in Command
    BY <1>1, Executed DEF TicketInv, ListInv
  <1>3. refusals' \in Nat /\ (refusals' = 0 => refusals = 0)
    BY <1>1 DEF NestInv
  <1>4. render.frame /\ render.submission => t \in Ticket /\ f \in Ticket
    <2>1. render.frame => render.at # "idle"
      BY DEF TicketInv, HeldInv
    <2> QED BY <2>1 DEF ThreadTypes, Ticket, Kind
  <1>5. SUFFICES ASSUME refusals = 0
                 PROVE  /\ Nested(stack, list, open)' /\ \A u \in open' : Queues(list', End(u)) \/ u \in ToEnd
                        /\ \A x, y \in Ticket : Before(stack', list', x, y) => Before(stack, list, x, y)
    <2>1. ToEnd' = ToEnd
      BY <1>1 DEF ToEnd
    <2>2. SUFFICES ASSUME refusals' = 0
                   PROVE  /\ Nested(stack, list, open)' /\ \A u \in open' : Queues(list', End(u)) \/ u \in ToEnd'
                          /\ (render.frame /\ render.submission => ~Before(stack', list', t, f))
      BY <1>1, <1>3 DEF NestInv
    <2> QED BY <1>3, <1>4, <1>5, <2>1, <2>2 DEF NestInv
  <1>6. Nested(stack, list, open) /\ \A u \in open : Queues(list, End(u)) \/ u \in ToEnd
    BY <1>5 DEF NestInv
  <1>7. \A d : Queues(list, d) <=> Queues(list', d) \/ d = c
    BY <1>1, <1>2, OrderTail
  <1>8. CASE c.op = "begin"
    <2>1. c.of \in Ticket /\ c = Begin(c.of)
      BY <1>2, <1>8 DEF Command, Begin
    <2>2. stack' = Append(stack, c.of) /\ open' = open
      BY <1>1, <1>8 DEF Enter
    <2>3. /\ Nested(stack', list', open)
          /\ \A x, y \in Ticket : Before(stack', list', x, y) => Before(stack, list, x, y)
      BY <1>1, <1>2, <1>6, <2>1, <2>2, NestedEnter
    <2>4. \A u \in Ticket : End(u) # c
      BY <2>1, Commands
    <2> QED BY <1>6, <1>7, <2>2, <2>3, <2>4 DEF TicketInv
  <1>9. CASE c.op = "end"
    <2>1. c.of \in Ticket /\ c = End(c.of)
      BY <1>2, <1>9, Commands
    <2>2. stack' = Left(c.of) /\ open' = open \ {c.of}
      BY <1>1, <1>9 DEF Leave
    <2>3. /\ stack # <<>> /\ stack[Len(stack)] = c.of
          /\ Nested(SubSeq(stack, 1, Len(stack) - 1), Tail(list), open \ {c.of})
          /\ \A x, y \in Ticket :
                Before(SubSeq(stack, 1, Len(stack) - 1), Tail(list), x, y) => Before(stack, list, x, y)
      BY <1>1, <1>2, <1>6, <2>1, NestedLeave
    <2>4. stack' = SubSeq(stack, 1, Len(stack) - 1)
      BY <2>2, <2>3 DEF Left
    <2>5. \A u \in Ticket : u # c.of => End(u) # c
      BY <2>1, Commands
    <2> QED BY <1>1, <1>6, <1>7, <2>2, <2>3, <2>4, <2>5 DEF TicketInv
  <1>10. CASE ~IsMarker(c)
    <2>1. stack' = stack /\ open' = open
      BY <1>1, <1>10 DEF IsMarker
    <2>2. /\ Nested(stack, list', open)
          /\ \A x, y \in Ticket : Before(stack, list', x, y) <=> Before(stack, list, x, y)
      BY <1>1, <1>2, <1>6, <1>10, NestedPass
    <2>3. \A u \in Ticket : End(u) # c
      BY <1>10, Commands
    <2> QED BY <1>6, <1>7, <2>1, <2>2, <2>3 DEF TicketInv
  <1> QED BY <1>8, <1>9, <1>10 DEF IsMarker

\* Every step keeps the scopes nested.
LEMMA NestStep == ThreadTypes /\ TicketInv /\ NestInv /\ [Next]_vars => NestInv'
  <1> SUFFICES ASSUME ThreadTypes, TicketInv, NestInv, [Next]_vars PROVE NestInv'
    OBVIOUS
  <1>1. CASE UNCHANGED <<stack, list, open, render, refusals>>
    BY <1>1, NestKept DEF NestInv
  <1>2. CASE Game
    BY <1>1, <1>2 DEF Game, TickBegin, ConstructBegin, ConstructEnd, GameUnchanged, Uncounted, scopeVars
  <1>3. CASE Render
    <2>1. CASE RetireOther \/ ContextBegin \/ NodeSkipped \/ RetireBegin
      <3>1. UNCHANGED <<stack, list, open, refusals>>
        BY <2>1, Zenon DEF RetireOther, ContextBegin, NodeSkipped, RetireBegin, RenderUnchanged
      <3>2. render'.cur = render.cur /\ render'.frame = render.frame /\ render'.submission = render.submission
        <4>1. CASE ContextBegin
          <5>1. PICK plan \in BOOLEAN :
                    render' = [render EXCEPT !.at = "node", !.entry = Hooked, !.plan = plan]
            BY <4>1, Zenon DEF ContextBegin
          <5> QED BY <5>1 DEF ThreadTypes, RenderRecord
        <4>2. CASE RetireOther
          BY <4>2 DEF RetireOther
        <4>3. CASE NodeSkipped
          BY <4>3 DEF NodeSkipped, ThreadTypes, RenderRecord
        <4>4. CASE RetireBegin
          BY <4>4 DEF RetireBegin, ThreadTypes, RenderRecord
        <4> QED BY <2>1, <4>1, <4>2, <4>3, <4>4
      <3> QED BY <3>1, <3>2, NestKept DEF NestInv
    <2> QED BY <1>3, <2>1, NestFrameBegin, NestSubmissionBegin, NestNodeProcess, NestSubmissionEnd,
            NestRetireEnd, NestFrameEnd DEF Render
  <1>4. CASE Rhi
    <2>1. CASE Execute
      BY <2>1, NestExecute
    <2>2. CASE ~Execute
      <3>1. UNCHANGED <<open, list, stack, render, refusals>>
        BY <1>4, <2>2 DEF Rhi, PresentReturns, StartBegin, StartHook, QuiesceBegin, QuiesceActive, QuiesceScopes,
           QuiesceEnd, Stop, StopBegin, StopRead, StopReads, StopBusy, ReadGuards, ReadLive, ReadUniforms,
           ReadRetired, DisableHooks, ReadOuter, Destroy, PresentStep, RhiUnchanged
      <3> QED BY <1>1, <3>1
    <2> QED BY <2>1, <2>2
  <1>5. CASE Others
    BY <1>1, <1>5 DEF Others, Prepare, PrepareFails, PrepareFailsUnseen, RequestShutdown, StatusBegin, StatusEnd,
                   OthersUnchanged
  <1>6. CASE UNCHANGED vars
    BY <1>1, <1>6 DEF vars, scopeVars
  <1>7. CASE \E thread \in Threads : Window(thread)
    BY <1>1, <1>7, WindowKeeps DEF scopeVars
  <1> QED BY <1>2, <1>3, <1>4, <1>5, <1>6, <1>7 DEF Next

\* No scope exists at first.
LEMMA NestStart == Init => NestInv
  BY DEF Init, ScopesInit, NestInv, Nested, Before, Precedes, Queues

\* While no marker is refused, the RHI thread is inside exactly the scopes that have begun and
\* not ended.
THEOREM ScopesNest == Spec => []InsideOpenScopes
  <1>1. ASSUME TicketInv, NestInv PROVE InsideOpenScopes
    <2>1. SUFFICES ASSUME refusals = 0
                   PROVE  {stack[i] : i \in DOMAIN stack} = {t \in open : Begin(t) \notin Queued}
      BY DEF InsideOpenScopes
    <2>2. Nested(stack, list, open)
      BY <1>1, <2>1 DEF NestInv
    <2>3. /\ \A t \in Ticket : Queues(stack, t) <=> (t \in open /\ ~Queues(list, Begin(t)))
          /\ stack \in Seq(Ticket) /\ DOMAIN stack = 1..Len(stack)
      BY <2>2 DEF Nested
    <2>4. list \in Seq(Command) /\ DOMAIN list = 1..Len(list) /\ open \subseteq Ticket
      BY <1>1 DEF TicketInv, ListInv
    <2>5. \A t : Queues(list, Begin(t)) <=> Begin(t) \in Queued
      BY <2>4 DEF Queues, Queued
    <2>6. \A t : Queues(stack, t) <=> t \in {stack[i] : i \in DOMAIN stack}
      BY <2>3 DEF Queues
    <2>7. \A t \in {stack[i] : i \in DOMAIN stack} : t \in Ticket
      BY <2>3
    <2> QED BY <2>3, <2>4, <2>5, <2>6, <2>7
  <1> QED BY <1>1, NestStart, NestStep, TicketStart, InitTypes, TypesStep, TicketStep, PTL DEF Spec

\* The end marker that is executed next finds its own scope innermost.
EndsInnermost ==
    refusals = 0 /\ list # <<>> /\ Head(list).op = "end" =>
        stack # <<>> /\ stack[Len(stack)] = Head(list).of

\* While no marker is refused, execute_scope leaves with each end marker the scope it is of: its
\* test of the stack's innermost scope never fails.
THEOREM EndsMatch == Spec => []EndsInnermost
  <1>1. ASSUME TicketInv, NestInv PROVE EndsInnermost
    <2>1. SUFFICES ASSUME refusals = 0, list # <<>>, Head(list).op = "end"
                   PROVE  stack # <<>> /\ stack[Len(stack)] = Head(list).of
      BY DEF EndsInnermost
    <2>2. ListInv(list, open) /\ Nested(stack, list, open)
      BY <1>1, <2>1 DEF TicketInv, NestInv
    <2>3. Head(list).of \in Ticket /\ Head(list) = End(Head(list).of)
      BY <2>1, <2>2, Executed, Commands
    <2> QED BY <2>1, <2>2, <2>3, NestedLeave
  <1> QED BY <1>1, NestStart, NestStep, TicketStart, InitTypes, TypesStep, TicketStep, PTL DEF Spec

=============================================================================
