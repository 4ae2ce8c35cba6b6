---------------------------- MODULE NativeRenderer -----------------------------
(***************************************************************************)
(* The life of AC7's native renderer: games/ac7/src/native_renderer.cpp    *)
(* with the scopes it queues, the plugin session that owns its module, and *)
(* the proxy that shuts it down (loader/proxy/src/dlss_bridge.c).          *)
(*                                                                         *)
(* Three engine threads run its hooks. The game thread ticks and builds    *)
(* scene renderers; the render thread records each renderer's frame into   *)
(* the RHI list and retires the renderer; the RHI thread executes the list *)
(* and reaches Present, where the proxy starts, quiesces and stops the     *)
(* plugin one call at a time. A fourth thread reads the plugin's status.   *)
(*                                                                         *)
(* `outer' and `entry' guards count threads inside hook bodies. A thread   *)
(* holds one where its counter below says so; it is inside the detour      *)
(* before it has counted itself and after it has counted itself out. A     *)
(* hook body that no other thread can see half done is one step.           *)
(***************************************************************************)
EXTENDS RenderScopes, PluginSession

CONSTANTS NoRenderer,     \* no renderer is recorded
          MaxRefusals,    \* bound: markers refused by the command list
          MaxReads,       \* bound: status calls at a time
          Pauses          \* bound: where the RHI thread is when a thread stops short of its guard

ASSUME BoundsAssumption == MaxRefusals \in Nat /\ MaxReads \in Nat
ASSUME NoRendererAssumption == NoRenderer \notin Renderers

VARIABLES
    renderer,    \* rsf_ac7_native_renderer: active, hooked (sites are detoured), alive
    bound,       \* live_renderers: the renderers whose identity is registered
    uniforms,    \* pending_uniforms: renderers with a generated uniform to retire
    game,        \* the game thread: where it is, its source frame, hooks it is inside of
    render,      \* the render thread: where it is, its renderer, open tickets, hooks
    pipe,        \* renderers built and not recorded yet
    entering,    \* threads inside a detour that have not counted themselves yet
    leaving,     \* threads inside a detour whose guards are gone already
    unseen,      \* history: threads in either when the guards were read for the last time
    present,     \* the RHI thread: where it is in the shutdown's Present
    shutdown,    \* rsf_bridge_request_shutdown was called
    refusals     \* the bound's counter

windowVars == <<entering, leaving>>
vars == <<scopeVars, sessionVars, renderer, bound, uniforms, game, render, pipe, windowVars, unseen,
          present, shutdown, refusals>>

Init ==
    /\ ScopesInit /\ SessionInit
    /\ renderer = [alive |-> FALSE, active |-> FALSE, hooked |-> FALSE]
    /\ bound = {} /\ uniforms = {}
    /\ game = [at |-> "idle", source |-> FALSE, outer |-> FALSE, entry |-> FALSE]
    /\ render = [at |-> "idle", cur |-> NoRenderer, frame |-> FALSE, submission |-> FALSE,
                 outer |-> FALSE, entry |-> FALSE, plan |-> FALSE]
    /\ pipe = <<>> /\ present = "list" /\ shutdown = FALSE
    /\ entering = {} /\ leaving = {} /\ unseen = {}
    /\ refusals = 0

Guards(outerToo) ==
    game.entry \/ render.entry \/ (outerToo /\ (game.outer \/ render.outer))

\* append: now and then a list is executing and takes no marker.
Takes(taken) == taken \/ refusals < MaxRefusals
Counted(taken) == refusals' = IF taken THEN refusals ELSE refusals + 1
Uncounted == UNCHANGED refusals

Deactivate(no) == renderer' = [renderer EXCEPT !.active = @ /\ ~no]

-----------------------------------------------------------------------------
(* Into a detour and out of it. The guards are local objects of the hook: entering the detour and *)
(* counting are two steps, and so are counting out and returning to the engine. Nothing holds a   *)
(* stop back between them.                                                                        *)

Threads == {"game", "render"}

\* The hook's body runs for this call: the engine found the site detoured, now or before.
InHook(thread) == renderer.hooked \/ thread \in entering

\* Whether the thread's next step calls a hooked function of the engine.
Calls(thread) ==
    IF thread = "game" THEN game.at \in {"idle", "tick"}
    ELSE \/ render.at \in {"submit", "context", "retire", "end"}
         \/ render.at = "idle" /\ (pipe # <<>> \/ retired # {})

\* A thread that has counted out may stay in the detour's last instructions.
Lingers(thread, held) ==
    \/ UNCHANGED leaving
    \/ held /\ present \in Pauses /\ leaving' = leaving \union {thread}

\* The body counts itself; it counts itself out; or both in one step.
CountsIn(thread) == thread \notin leaving /\ entering' = entering \ {thread} /\ UNCHANGED leaving
CountsOut(thread, held) == Lingers(thread, held) /\ UNCHANGED entering
Passes(thread) ==
    thread \notin leaving /\ entering' = entering \ {thread} /\ Lingers(thread, InHook(thread))

WindowUnchanged == UNCHANGED <<scopeVars, sessionVars, renderer, bound, uniforms, game, render, pipe,
                               unseen, present, shutdown, refusals>>
Enters(thread) ==
    /\ renderer.hooked /\ Calls(thread) /\ thread \notin entering \union leaving
    /\ present \in Pauses /\ entering' = entering \union {thread}
    /\ UNCHANGED leaving /\ WindowUnchanged
Returns(thread) ==
    thread \in leaving /\ leaving' = leaving \ {thread} /\ UNCHANGED entering /\ WindowUnchanged
Window(thread) == Enters(thread) \/ Returns(thread)

-----------------------------------------------------------------------------
(* The game thread: hooked_engine_tick around hooked_construct. *)

\* An address is reused only when its earlier renderer has left the pipeline.
Unused(r) ==
    /\ r # render.cur /\ r \notin {pipe[i] : i \in DOMAIN pipe} /\ r \notin bound \union uniforms
    /\ \A i \in DOMAIN list : list[i].of # r /\ \A k \in Kind : list[i].of # <<r, k>>
    /\ \A k \in Kind : <<r, k>> \notin open \union retired

GameUnchanged == UNCHANGED <<scopeVars, sessionVars, uniforms, render, unseen, present, shutdown>>

TickBegin ==
    /\ game.at = "idle" /\ CountsIn("game")
    /\ game' = [game EXCEPT !.at = "tick", !.outer = InHook("game"),
                            !.source = InHook("game") /\ renderer.active]
    /\ UNCHANGED <<renderer, bound, pipe>> /\ GameUnchanged /\ Uncounted

\* bind_renderer: only a tick that began active has a source frame.
Binds == InHook("game") /\ renderer.active /\ game.source

\* A bug: the hook is counted only with the long calls.
ConstructOutside ==
    /\ game.at = "tick" /\ (\E r \in Renderers : Unused(r)) /\ CountsIn("game")
    /\ game' = [game EXCEPT !.at = IF Binds THEN "bind" ELSE "built"]
    /\ UNCHANGED <<renderer, bound, pipe>> /\ GameUnchanged /\ Uncounted

\* The hook takes its guard before it reads whether the renderer is active.
ConstructBegin ==
    /\ game.at = "tick" /\ (\E r \in Renderers : Unused(r)) /\ CountsIn("game")
    /\ game' = [game EXCEPT !.at = IF Binds THEN "bind" ELSE "built",
                            !.entry = InHook("game")]
    /\ UNCHANGED <<renderer, bound, pipe>> /\ GameUnchanged /\ Uncounted

\* The tick ends with it: what a tick does after its last renderer is not modelled.
ConstructEnd ==
    /\ game.at \in {"bind", "built"}
    /\ \E r \in Renderers :
          /\ Unused(r) /\ pipe' = Append(pipe, r)
          /\ bound' = IF game.at = "bind" THEN bound \union {r} ELSE bound
    /\ CountsOut("game", game.outer \/ game.entry)
    /\ game' = [game EXCEPT !.at = "idle", !.outer = FALSE, !.entry = FALSE]
    /\ UNCHANGED renderer /\ GameUnchanged /\ Uncounted

Game == TickBegin \/ ConstructBegin \/ ConstructEnd

-----------------------------------------------------------------------------
(* The render thread: one renderer's frame, from BeginFrame to EndFrame. *)

RenderUnchanged == UNCHANGED <<accepting, stack, sessionVars, game, unseen, present, shutdown>>
RenderTo(at) == render.at = at
Hooked == InHook("render")

\* hooked_rhi_frame_begin: a frame that cannot be bracketed turns the renderer off.
FrameBegin ==
    /\ RenderTo("idle") /\ pipe # <<>> /\ pipe' = Tail(pipe) /\ Passes("render")
    /\ \E taken \in BOOLEAN :
          LET t == <<Head(pipe), "frame">>
              wanted == Hooked /\ renderer.active /\ Head(pipe) \in bound
              opens == wanted /\ ~render.frame /\ MayOpen(taken)
          IN /\ Takes(taken) /\ Counted(taken)
             /\ IF opens THEN Open(t, <<>>) ELSE UNCHANGED <<open, list>>
             /\ Deactivate(wanted /\ ~opens)
             /\ render' = [render EXCEPT !.at = "submit", !.cur = Head(pipe),
                                         !.frame = @ \/ opens]
    /\ UNCHANGED <<retired, bound, uniforms>> /\ RenderUnchanged

\* hooked_render_family, before the engine's own function: a refused scope is only logged.
SubmissionBegin ==
    /\ RenderTo("submit") /\ CountsIn("render")
    /\ \E taken \in BOOLEAN :
          LET opens == Hooked /\ renderer.active /\ render.cur \in bound /\ MayOpen(taken)
          IN /\ Takes(taken) /\ Counted(taken)
             /\ IF opens THEN Open(<<render.cur, "submission">>, <<>>) ELSE UNCHANGED <<open, list>>
             /\ render' = [render EXCEPT !.at = "context", !.submission = opens,
                                         !.outer = Hooked]
    /\ UNCHANGED <<retired, renderer, bound, uniforms, pipe>> /\ RenderUnchanged

\* hooked_context: the graph of a primary view is planned when the renderer is active now.
ContextBegin ==
    /\ RenderTo("context") /\ CountsIn("render")
    /\ \E primary \in BOOLEAN :
          render' = [render EXCEPT !.at = "node", !.entry = Hooked,
                                   !.plan = Hooked /\ renderer.active /\ primary]
    /\ UNCHANGED <<open, list, retired, renderer, bound, uniforms, pipe, refusals>>
    /\ RenderUnchanged

\* node_process: the SR node queues its scope and its lease (a lease it could not queue is
\* released at once) and then publishes a generated uniform that the pass's commands use.
NodeProcess ==
    /\ RenderTo("node") /\ render.plan
    /\ \E taken, closes \in BOOLEAN :
          LET t == <<render.cur, "sr">>
              opens == MayOpen(taken)
          IN /\ Takes(taken /\ closes) /\ Counted(taken /\ closes) /\ (taken \/ closes)
             /\ IF opens
                THEN Enclose(t, closes, <<Draw(render.cur)>>) /\ UNCHANGED retired
                ELSE /\ retired' = retired \union {t}
                     /\ list' = Append(list, Draw(render.cur)) /\ UNCHANGED open
             /\ Deactivate(opens /\ ~closes)
    /\ uniforms' = uniforms \union {render.cur}
    /\ render' = [render EXCEPT !.at = "family", !.entry = FALSE, !.plan = FALSE]
    /\ CountsOut("render", render.entry /\ ~render.outer)
    /\ UNCHANGED <<bound, pipe>> /\ RenderUnchanged

NodeSkipped ==
    /\ RenderTo("node") /\ ~render.plan
    /\ render' = [render EXCEPT !.at = "family", !.entry = FALSE]
    /\ CountsOut("render", render.entry /\ ~render.outer)
    /\ UNCHANGED <<open, list, retired, renderer, bound, uniforms, pipe, refusals>>
    /\ RenderUnchanged

\* hooked_render_family, after it: a scope that does not close turns the renderer off.
SubmissionEnd ==
    /\ RenderTo("family")
    /\ \E taken \in BOOLEAN :
          /\ Takes(taken) /\ Counted(taken) /\ (taken \/ render.submission)
          /\ list' = IF render.submission /\ taken
                     THEN Append(list, End(<<render.cur, "submission">>)) ELSE list
          /\ Deactivate(render.submission /\ ~taken)
    /\ render' = [render EXCEPT !.at = "retire", !.submission = FALSE, !.outer = FALSE]
    /\ CountsOut("render", render.outer)
    /\ UNCHANGED <<open, retired, bound, uniforms, pipe>> /\ RenderUnchanged

\* A bug: a renderer that is not active any more retires nothing.
RetireBeginActive ==
    /\ RenderTo("retire") /\ CountsIn("render")
    /\ IF Hooked /\ renderer.active THEN retired' = {} /\ bound' = bound \ {render.cur}
                                    ELSE UNCHANGED <<retired, bound>>
    /\ render' = [render EXCEPT !.at = "retiring", !.outer = Hooked]
    /\ UNCHANGED <<open, list, renderer, uniforms, pipe, refusals>> /\ RenderUnchanged

\* hooked_renderer_retire, before the engine waits for its recording tasks: leases are drained
\* by this thread, and the identity goes before the address can be reused.
RetireBegin ==
    /\ RenderTo("retire") /\ CountsIn("render")
    /\ IF Hooked THEN retired' = {} /\ bound' = bound \ {render.cur}
                 ELSE UNCHANGED <<retired, bound>>
    /\ render' = [render EXCEPT !.at = "retiring", !.outer = Hooked]
    /\ UNCHANGED <<open, list, renderer, uniforms, pipe, refusals>> /\ RenderUnchanged

\* retire_renderer_uniforms: the uniform's reference moves into a lease whose end marker is
\* behind every command that uses the uniform.
UniformsThrough(taken, closes) ==
    LET t == <<render.cur, "uniforms">>
        opens == MayOpen(taken)
    IN /\ (taken \/ closes) /\ retired' = {}
       /\ IF opens THEN Enclose(t, closes, <<>>) ELSE UNCHANGED <<open, list>>
       /\ Deactivate(~(opens /\ closes))
       /\ uniforms' = IF opens /\ closes THEN uniforms \ {render.cur} ELSE uniforms

\* A bug: the references are dropped with the renderer, whatever is still queued.
RetireUniformsNow(taken, closes) ==
    /\ taken /\ closes /\ retired' = {} /\ uniforms' = uniforms \ {render.cur}
    /\ UNCHANGED <<open, list, renderer>>

RetireUniforms(taken, closes) ==
    IF render.cur \in uniforms THEN UniformsThrough(taken, closes)
    ELSE /\ taken /\ closes /\ retired' = {} /\ UNCHANGED <<open, list, renderer, uniforms>>

\* hooked_renderer_retire, after the engine's own function.
RetireEnd ==
    /\ RenderTo("retiring")
    /\ IF render.outer
       THEN \E taken, closes \in BOOLEAN :
               /\ Takes(taken /\ closes) /\ Counted(taken /\ closes)
               /\ RetireUniforms(taken, closes)
       ELSE UNCHANGED <<open, list, retired, renderer, uniforms, refusals>>
    /\ render' = [render EXCEPT !.at = "end", !.outer = FALSE]
    /\ CountsOut("render", render.outer)
    /\ UNCHANGED <<bound, pipe>> /\ RenderUnchanged

\* hooked_rhi_frame_end, and the frame's Present behind it.
FrameEnd ==
    /\ RenderTo("end") /\ Passes("render")
    /\ \E taken \in BOOLEAN :
          LET t == <<render.cur, "frame">> IN
          /\ Takes(taken) /\ Counted(taken) /\ (taken \/ render.frame)
          /\ list' = list \o (IF render.frame /\ taken THEN <<End(t)>> ELSE <<>>)
                          \o <<Present(render.cur)>>
          /\ Deactivate(render.frame /\ ~taken)
    /\ render' = [render EXCEPT !.at = "idle", !.cur = NoRenderer, !.frame = FALSE]
    /\ UNCHANGED <<open, retired, bound, uniforms, pipe>> /\ RenderUnchanged

\* The same hook for a renderer without a name here: the engine has more than the pipeline.
RetireOther ==
    /\ RenderTo("idle") /\ Hooked /\ Passes("render") /\ retired # {} /\ retired' = {}
    /\ UNCHANGED <<open, list, renderer, bound, uniforms, render, pipe, refusals>>
    /\ RenderUnchanged

Render ==
    \/ RetireOther \/ FrameBegin \/ SubmissionBegin \/ ContextBegin \/ NodeProcess \/ NodeSkipped
    \/ SubmissionEnd \/ RetireBegin \/ RetireEnd \/ FrameEnd

-----------------------------------------------------------------------------
(* The RHI thread: the list's commands, and the proxy inside Present. *)

RhiUnchanged == UNCHANGED <<game, render, pipe, windowVars, refusals>>

Execute ==
    /\ present = "list" /\ list # <<>> /\ list' = Tail(list)
    /\ LET c == Head(list) IN
         CASE c.op = "begin" -> Enter(c.of) /\ UNCHANGED present
           [] c.op = "end" -> Leave(c.of) /\ UNCHANGED present
           [] c.op = "draw" -> UNCHANGED <<accepting, open, stack, retired, present>>
           [] OTHER -> present' = "present" /\ UNCHANGED <<accepting, open, stack, retired>>
    /\ UNCHANGED <<sessionVars, renderer, bound, uniforms, unseen, shutdown>> /\ RhiUnchanged

\* The guards are read for the last time on the way to `destroy'.
PresentStep(from, to) ==
    /\ present = from /\ present' = to
    /\ unseen' = IF to = "destroy" THEN entering \union leaving ELSE unseen
    /\ UNCHANGED <<open, list, stack, retired, readers, bound, uniforms>> /\ RhiUnchanged

\* Nothing to do, or nothing that may be done now.
PresentReturns ==
    /\ PresentStep("present", "list")
    /\ session.loaded => IF shutdown THEN ~MayQuiesce /\ ~MayStop
                                           ELSE ~MayStart
    /\ UNCHANGED <<accepting, session, renderer, shutdown>>

\* rsf_plugin_session_start and the plugin's start; the proxy tries again after a refusal.
StartBegin ==
    /\ PresentStep("present", "start") /\ session.loaded /\ MayStart
    /\ ~shutdown /\ Transition /\ UNCHANGED <<accepting, renderer, shutdown>>
StartHook ==
    /\ PresentStep("start", "list")
    /\ \E patched \in BOOLEAN : Started(patched) /\ renderer' = [renderer EXCEPT !.active = patched]
    /\ UNCHANGED <<accepting, shutdown>>

\* drain_shutdown: rsf_plugin_session_quiesce, then stop in the same Present.
QuiesceBegin ==
    /\ PresentStep("present", "quiesce") /\ shutdown /\ session.loaded /\ MayQuiesce
    /\ Transition /\ UNCHANGED <<accepting, renderer, shutdown>>
QuiesceActive ==
    /\ PresentStep("quiesce", "accepting") /\ renderer' = [renderer EXCEPT !.active = FALSE]
    /\ UNCHANGED <<accepting, session, shutdown>>
QuiesceScopes ==
    /\ PresentStep("accepting", "quiesced") /\ accepting' = FALSE
    /\ UNCHANGED <<session, renderer, shutdown>>
QuiesceEnd ==
    /\ PresentStep("quiesced", "present") /\ Quiesced /\ UNCHANGED <<accepting, renderer, shutdown>>

StopBegin ==
    /\ PresentStep("present", "guards") /\ shutdown /\ session.loaded /\ MayStop
    /\ Transition /\ UNCHANGED <<accepting, renderer, shutdown>>

\* rsf_ac7_native_renderer_stop reads its counts one after the other. Its own drain does
\* nothing: this is not the render thread.
StopReads(from, to, clear) ==
    /\ PresentStep(from, to) /\ clear /\ UNCHANGED <<accepting, session, renderer, shutdown>>
StopBusy(from, clear) ==
    /\ PresentStep(from, "list") /\ ~clear /\ StopRefused /\ UNCHANGED <<accepting, renderer, shutdown>>
StopRead(from, to, clear) == StopReads(from, to, clear) \/ StopBusy(from, clear)

ReadGuards == StopRead("guards", "live", ~Guards(FALSE))
ReadLive == StopRead("live", "uniforms", bound = {})
ReadUniforms == StopRead("uniforms", "retired", uniforms = {})

ReadRetired == StopRead("retired", "disable", retired = {} /\ Idle)

DisableHooks ==
    /\ PresentStep("disable", "outer") /\ renderer' = [renderer EXCEPT !.hooked = FALSE]
    /\ UNCHANGED <<accepting, session, shutdown>>
ReadOuterNot == StopRead("outer", "destroy", ~Guards(FALSE))   \* a bug: long calls are forgotten
ReadOuter == StopRead("outer", "destroy", ~Guards(TRUE))

\* rsf_ac7_render_scopes_destroy and the end of the renderer; the session unloads the module.
\* A thread that is still inside a detour then goes on here as in a hook that is not active.
Destroy ==
    /\ PresentStep("destroy", "list")
    /\ IF Idle /\ retired = {}
       THEN Stopped /\ renderer' = [renderer EXCEPT !.alive = FALSE]
       ELSE StopRefused /\ UNCHANGED renderer   \* never: HooksOffIsDrained
    /\ UNCHANGED <<accepting, shutdown>>

Stop == StopBegin \/ ReadGuards \/ ReadLive \/ ReadUniforms \/ ReadRetired \/ DisableHooks
        \/ ReadOuter \/ Destroy

Rhi == Execute \/ PresentReturns \/ StartBegin \/ StartHook \/ QuiesceBegin \/ QuiesceActive
       \/ QuiesceScopes \/ QuiesceEnd \/ Stop

-----------------------------------------------------------------------------
(* The shutdown's other threads. *)

OthersUnchanged ==
    UNCHANGED <<open, list, stack, retired, bound, uniforms, render, pipe, leaving, present, refusals>>

\* Nothing is said of another try after the module was freed under a thread of its own.
Unprepared == ~session.loaded /\ ~renderer.alive /\ accepting /\ ~shutdown /\ unseen = {}

\* rsf_plugin_session_prepare: the plugin installs its hooks.
Prepare ==
    /\ Unprepared /\ session' = Prepared
    /\ renderer' = [alive |-> TRUE, active |-> FALSE, hooked |-> TRUE]
    /\ UNCHANGED <<accepting, readers, game, entering, unseen, shutdown>> /\ OthersUnchanged

\* Installing fails with a tick already inside a hook: the hooks are off again, the plugin is
\* quiesced, its stop is BUSY until the tick returns, and the session is kept.
PrepareFails ==
    /\ Unprepared /\ game.at = "tick" /\ ~game.outer
    /\ game' = [game EXCEPT !.outer = TRUE]
    /\ session' = Retained
    /\ renderer' = [alive |-> TRUE, active |-> FALSE, hooked |-> FALSE]
    /\ accepting' = FALSE
    /\ UNCHANGED <<readers, entering, unseen, shutdown>> /\ OthersUnchanged

\* The same with the tick not counted yet: nobody is seen, and the module is freed.
PrepareFailsUnseen ==
    /\ Unprepared /\ game.at = "tick" /\ ~game.outer
    /\ entering' = {"game"} /\ unseen' = {"game"}
    /\ UNCHANGED <<accepting, sessionVars, renderer, game, shutdown>> /\ OthersUnchanged

RequestShutdown ==
    /\ ~shutdown /\ shutdown' = TRUE /\ session.loaded
    /\ UNCHANGED <<accepting, sessionVars, renderer, game, entering, unseen>> /\ OthersUnchanged

StatusBegin ==
    /\ readers < MaxReads /\ ReadBegin
    /\ UNCHANGED <<accepting, renderer, game, entering, unseen, shutdown>> /\ OthersUnchanged
StatusEnd ==
    /\ ReadEnd /\ UNCHANGED <<accepting, renderer, game, entering, unseen, shutdown>>
    /\ OthersUnchanged

Others ==
    Prepare \/ PrepareFails \/ PrepareFailsUnseen \/ RequestShutdown \/ StatusBegin \/ StatusEnd

Next == (\E thread \in Threads : Window(thread)) \/ Game \/ Render \/ Rhi \/ Others

\* The engine's threads keep running and a status call returns.
Fairness ==
    /\ WF_vars(Window("game") \/ Game) /\ WF_vars(Window("render") \/ Render)
    /\ WF_vars(Rhi) /\ WF_vars(StatusEnd)

Spec == Init /\ [][Next]_vars /\ Fairness

-----------------------------------------------------------------------------
(* Properties *)

\* Every variable has its type.
RendererInv ==
    /\ accepting \in BOOLEAN /\ open \subseteq Ticket /\ retired \subseteq Leases
    /\ list \in Seq(Command) /\ stack \in Seq(Ticket)
    /\ renderer \in [alive : BOOLEAN, active : BOOLEAN, hooked : BOOLEAN]
    /\ bound \subseteq Renderers /\ uniforms \subseteq Renderers
    /\ render.cur \in Renderers \union {NoRenderer} /\ pipe \in Seq(Renderers)
    /\ entering \subseteq Threads /\ leaving \subseteq Threads /\ unseen \subseteq Threads

Queued == {list[i] : i \in DOMAIN list}
Marked == {c.of : c \in {d \in Queued : d.op \in {"begin", "end"}}}

\* The threads inside a detour, counted or not.
Holds(thread) ==
    IF thread = "game" THEN game.outer \/ game.entry ELSE render.outer \/ render.entry
Inside == {thread \in Threads : thread \in entering \union leaving \/ Holds(thread)}

\* A module is unloaded only with no marker of its own in the command list, no status call
\* inside it, and no thread inside one of its hooks but one that the last reading of the
\* guards could not see, because it had entered and not counted yet or was on its way out.
UnloadSafe == ~session.loaded => Marked = {} /\ Inside \subseteq unseen /\ readers = 0

\* Hooks are turned off only when nothing needs them any more, and nothing that needs them can
\* appear afterwards: the hooks are what unregisters renderers and drains leases.
HooksOffIsDrained ==
    renderer.alive /\ ~renderer.hooked =>
        bound = {} /\ uniforms = {} /\ retired = {} /\ open = {}

\* A lease's references are handed back only when no marker of its scope is queued, and every
\* queued marker belongs to a ticket that still exists.
LeaseOutlivesScope == Marked \subseteq open /\ retired \intersect open = {}

\* A generated uniform keeps a reference for as long as a command that uses it is queued.
UniformOutlivesDraws ==
    \A r \in Renderers : Draw(r) \in Queued => r \in uniforms \/ <<r, "uniforms">> \in open

\* While no marker is refused, the RHI thread is inside exactly the scopes that have begun and
\* not ended, so every end finds its own scope innermost.
InsideOpenScopes ==
    refusals = 0 => {stack[i] : i \in DOMAIN stack} = {t \in open : Begin(t) \notin Queued}

\* No status call is inside the plugin while start, quiesce or stop is.
HookCallsAlone == session.transitioning => readers = 0

\* What keeps a stop waiting for good: a uniform whose renderer is gone, a scope without end.
Orphaned == \E r \in uniforms : r # render.cur
Unclosed == \E t \in open : t[1] # render.cur /\ End(t) \notin Queued

\* A requested shutdown unloads the module, unless a uniform outlived its renderer, a marker
\* could not be queued, or attempt after attempt meets a thread in the middle of a hook or a
\* status call.
ShutdownEnds ==
    []<>shutdown => \/ []<>(shutdown /\ ~session.loaded)
                    \/ <>[](Orphaned \/ Unclosed)
                    \/ []<>(present = "guards" /\ Guards(FALSE))
                    \/ []<>(present = "present" /\ readers > 0)

=============================================================================
