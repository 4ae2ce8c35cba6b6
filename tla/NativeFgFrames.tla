---------------------------- MODULE NativeFgFrames -----------------------------
(***************************************************************************)
(* runtime/orchestrator/src/native_fg.cpp: one source frame from its       *)
(* FRAME_BEGIN on the game thread to the end of its RHI frame, with the    *)
(* CPU record of native_cpu.cpp, the latency calls of the present bridge   *)
(* and the token ring of the Streamline host.                              *)
(*                                                                         *)
(* Two threads.  The game thread, which owns the window, reserves a token, *)
(* joins the previous frame's Present, sleeps, samples input, simulates.   *)
(* The RHI thread submits, presents and ends the frames in order, at most  *)
(* InFlight behind; between two Presents it may replace the provider, and  *)
(* the game thread's calls are then turned away and never repeated.        *)
(***************************************************************************)
EXTENDS Integers, FiniteSets

CONSTANTS Ring,        \* entries of cpu_frames (128)
          Tokens,      \* sl::MAX_FRAMES_IN_FLIGHT: tokens of the Streamline host
          Skip,        \* joins skipped after one that timed out (120)
          InFlight,    \* frames the engine lets the game thread be ahead of RHI
          MaxFrame,    \* bound: source frames 1 .. MaxFrame
          MaxSwitches  \* bound: provider switches

ASSUME RingAssumption == Ring \in Nat /\ Tokens \in Nat /\ InFlight \in 1 .. Ring /\ InFlight <= Tokens
ASSUME SkipAssumption == Skip \in Nat \ {0}
ASSUME FramesAssumption == MaxFrame \in Nat /\ MaxSwitches \in Nat

VARIABLES
    host, threaded,    \* a Streamline host exists; UE's overlapped order is kept
    game,              \* the game thread: where it is, its frame, what a call returned
    rhi,               \* the RHI thread: where it is, its frame, what it completes next
    cpu,               \* native_cpu.cpp's ring: stages a frame has passed, failed, ended
    frames,            \* cpu_frames
    presentedThrough, signalled, joinSkip,  \* presented_through; the auto-reset event; join_skip
    tokens, cursor,    \* the host's tokens with their markers, and the next to hand out
    generation, hostPaced,                  \* chain_generation, host_paced
    begun,             \* history: the session a frame's begin reached, 0 for none
    over,              \* history: frames whose Present returned, or that got none
    paces              \* history: pacing boundaries passed since a join timed out

fixed == <<host, threaded>>
ledger == <<cpu, frames>>
joins == <<presentedThrough, signalled, joinSkip>>
pool == <<tokens, cursor>>
session == <<generation, hostPaced>>
history == <<begun, over, paces>>
vars == <<fixed, game, rhi, ledger, joins, pool, session, history>>

FrameId == 1 .. MaxFrame
\* Simulation and Present each send a start and an end, taken together here.
Markers == {"simulation", "submitStart", "submitEnd", "present"}
\* stage_mask 1 or 3, 7, 15.
Stages == {"begun", "simulating", "simulated"}

\* CpuOwner.  render_started and submit_ended keep markers from being sent twice,
\* which the tokens refuse as well; render_complete is set before any Present; a
\* frame with a generation that did not fail is paced.
Owner == [id : Nat, ended : BOOLEAN, failed : BOOLEAN, submitted : BOOLEAN, gen : Nat]
NewOwner(id, failed) == [id |-> id, ended |-> FALSE, failed |-> failed, submitted |-> FALSE, gen |-> 0]
NewCpu == [stage |-> "begun", failed |-> FALSE, ended |-> FALSE]

Free == [id |-> 0, markers |-> {}]

Switching == rhi.at = "switching"

EntryOf(id) == frames[id % Ring]
Owns(id) == EntryOf(id).id = id
CpuOf(id) == cpu[id % Ring]

\* with_frame: nothing happens when the entry holds another frame.
WithFrame(id, entry) == frames' = [frames EXCEPT ![id % Ring] = IF Owns(id) THEN entry ELSE @]

-----------------------------------------------------------------------------
\* The Streamline host's tokens.  A marker is taken once; a token with all its
\* markers is free again.
Held(id) == \E k \in DOMAIN tokens : tokens[k].id = id

Marked(id, markers) ==
    [k \in DOMAIN tokens |->
        IF tokens[k].id # id THEN tokens[k]
        ELSE IF tokens[k].markers \union markers = Markers THEN Free
        ELSE [tokens[k] EXCEPT !.markers = @ \union markers]]

Released(ids) == [k \in DOMAIN tokens |-> IF tokens[k].id \in ids THEN Free ELSE tokens[k]]

\* frame_live: without a host nothing but presented_through tells.
Live(id) == IF host THEN Held(id) ELSE presentedThrough < id
Presented(id) ==
    IF host THEN \E k \in DOMAIN tokens : tokens[k].id = id /\ "present" \in tokens[k].markers
    ELSE presentedThrough >= id

-----------------------------------------------------------------------------
\* Without a host nothing here depends on the order.
Init ==
    /\ host \in BOOLEAN /\ threaded \in (IF host THEN BOOLEAN ELSE {FALSE})
    /\ game = [at |-> "between", id |-> 0, gen |-> 0, ok |-> FALSE]
    /\ rhi = [at |-> "open", id |-> 1, then |-> "open"]
    /\ cpu = [k \in 0 .. (Ring - 1) |-> NewCpu]
    /\ frames = [k \in 0 .. (Ring - 1) |-> NewOwner(0, FALSE)]
    /\ presentedThrough = 0 /\ signalled = FALSE /\ joinSkip = 0
    /\ tokens = [k \in 0 .. (Tokens - 1) |-> Free] /\ cursor = 0
    /\ generation = 1 /\ hostPaced \in (IF host THEN BOOLEAN ELSE {FALSE})
    /\ begun = [k \in 0 .. (Ring - 1) |-> 0] /\ over = {} /\ paces = Skip

-----------------------------------------------------------------------------
\* The game thread.  FRAME_BEGIN: the ring entry is taken whether or not the
\* frame that held it ever sent FRAME_END.
EnteredOver(free, id, acquired) ==
    frames' = [frames EXCEPT ![id % Ring] = IF free THEN NewOwner(id, ~acquired) ELSE @]
EnteredIfEnded(id, acquired) == EnteredOver(EntryOf(id).id = 0 \/ EntryOf(id).ended, id, acquired)
Entered(id, acquired) == EnteredOver(~Owns(id) \/ EntryOf(id).ended, id, acquired)

\* The token is refused during a switch and by a full ring.
FrameBegin ==
    /\ game.at = "between" /\ game.id < MaxFrame /\ game.id + 1 < rhi.id + InFlight
    /\ LET id == game.id + 1
           taken == host /\ ~Switching /\ tokens[cursor].id = 0
       IN /\ game' = [game EXCEPT !.at = "begun", !.id = id]
          /\ cpu' = [cpu EXCEPT ![id % Ring] = NewCpu]
          /\ begun' = [begun EXCEPT ![id % Ring] = 0]
          /\ Entered(id, ~Switching /\ (host => taken))
          /\ tokens' = IF taken THEN [tokens EXCEPT ![cursor] = [Free EXCEPT !.id = id]] ELSE tokens
          /\ cursor' = IF taken THEN (cursor + 1) % Tokens ELSE cursor
    /\ UNCHANGED <<fixed, rhi, joins, session, over, paces>>

\* The pacing boundary: join_previous_present decides not to wait.
Previous == IF Owns(game.id) THEN game.id - 1 ELSE 0
Joins == host /\ ~threaded
Finished == presentedThrough >= Previous

PassUnjoined ==
    /\ game.at = "begun"
    /\ \/ (~Joins \/ Finished) /\ UNCHANGED joinSkip
       \/ Joins /\ ~Finished /\ joinSkip > 0 /\ joinSkip' = joinSkip - 1
    /\ game' = [game EXCEPT !.at = "pacing"]
    /\ paces' = IF paces < Skip THEN paces + 1 ELSE paces
    /\ UNCHANGED <<fixed, rhi, ledger, presentedThrough, signalled, pool, session, begun, over>>

StartJoin ==
    /\ game.at = "begun" /\ Joins /\ ~Finished /\ joinSkip = 0
    /\ game' = [game EXCEPT !.at = "waiting"]
    /\ UNCHANGED <<fixed, rhi, ledger, joins, pool, session, history>>

\* Woken by the event, which resets: the loop looks at presented_through again.
WakeTo(joined) ==
    /\ game.at = "waiting" /\ signalled
    /\ signalled' = FALSE
    /\ game' = [game EXCEPT !.at = IF joined THEN "pacing" ELSE "waiting"]
    /\ UNCHANGED <<fixed, rhi, ledger, presentedThrough, joinSkip, pool, session, history>>
WakeTrusting == WakeTo(TRUE)
Wake == WakeTo(Finished)

TimeOutThen(skip) ==
    /\ game.at = "waiting" /\ ~Finished
    /\ game' = [game EXCEPT !.at = "pacing"]
    /\ joinSkip' = skip /\ paces' = 0
    /\ UNCHANGED <<fixed, rhi, ledger, presentedThrough, signalled, pool, session, begun, over>>
TimeOutOnce == TimeOutThen(Skip - 1)
TimeOut == TimeOutThen(Skip)

\* A message the presenting thread sends into the window is answered by the
\* join, and by the engine's own pump between two frames.
AnswerAt(pumps) ==
    /\ rhi.at = "sending" /\ game.at \in pumps
    /\ rhi' = [rhi EXCEPT !.at = "returning"]
    /\ UNCHANGED <<fixed, game, ledger, joins, pool, session, history>>
AnswerBetween == AnswerAt({"between"})
Answer == AnswerAt({"waiting", "between"})

\* rsf_d3d11_present_begin.  The host's sleep holds the shared provider lock;
\* another provider's begin_frame is one step.
CallBegin ==
    /\ game.at = "pacing"
    /\ \/ /\ Switching
          /\ game' = [game EXCEPT !.at = "slept", !.ok = FALSE, !.gen = 0]
          /\ UNCHANGED begun
       \/ /\ ~Switching /\ hostPaced
          /\ game' = [game EXCEPT !.at = IF Held(game.id) THEN "sleeping" ELSE "slept",
                                  !.ok = FALSE, !.gen = generation]
          /\ UNCHANGED begun
       \/ \E ok \in BOOLEAN :
          /\ ~Switching /\ ~hostPaced
          /\ game' = [game EXCEPT !.at = "slept", !.ok = ok, !.gen = generation]
          /\ begun' = IF ok THEN [begun EXCEPT ![game.id % Ring] = generation] ELSE begun
    /\ UNCHANGED <<fixed, rhi, ledger, joins, pool, session, over, paces>>

SleepReturns ==
    /\ game.at = "sleeping"
    /\ \E ok \in BOOLEAN :
         /\ game' = [game EXCEPT !.at = "slept", !.ok = ok]
         /\ begun' = IF ok THEN [begun EXCEPT ![game.id % Ring] = generation] ELSE begun
    /\ UNCHANGED <<fixed, rhi, ledger, joins, pool, session, over, paces>>

\* The frame keeps the generation its begin was given, not the one of now.
RecordWith(gen) ==
    /\ game.at = "slept"
    /\ WithFrame(game.id, [EntryOf(game.id) EXCEPT !.gen = gen, !.failed = @ \/ ~game.ok])
    /\ game' = [game EXCEPT !.at = "running", !.gen = 0, !.ok = FALSE]
    /\ UNCHANGED <<fixed, rhi, cpu, joins, pool, session, history>>
RecordBeginNow == RecordWith(generation)
RecordBegin == RecordWith(game.gen)

\* Simulation begin and end, in order.  A switch between reading the generation
\* and the marker's call loses it like a switch around the call.
Simulate ==
    /\ game.at = "running"
    /\ \/ /\ CpuOf(game.id).stage = "begun"
          /\ cpu' = [cpu EXCEPT ![game.id % Ring].stage = "simulating"]
          /\ UNCHANGED tokens
       \/ /\ CpuOf(game.id).stage = "simulating"
          /\ cpu' = [cpu EXCEPT ![game.id % Ring].stage = "simulated"]
          /\ tokens' = IF Switching THEN tokens ELSE Marked(game.id, {"simulation"})
    /\ UNCHANGED <<fixed, game, rhi, frames, joins, cursor, session, history>>

\* An abort from the game thread is lost during a switch.
GameAbort(id) == tokens' = IF Switching THEN tokens ELSE Released({id})

\* FRAME_END, which the engine also sends of idle frames.  native_cpu refuses
\* one between simulation begin and end: the frame fails and native_fg is not told.
FrameEndRefused ==
    /\ game.at = "running" /\ CpuOf(game.id).stage = "simulating"
    /\ cpu' = [cpu EXCEPT ![game.id % Ring].failed = TRUE, ![game.id % Ring].ended = TRUE]
    /\ game' = [game EXCEPT !.at = "between"]
    /\ UNCHANGED <<fixed, rhi, frames, joins, pool, session, history>>

Partial(id) == CpuOf(id).stage = "begun"

FrameEnd ==
    /\ game.at \in {"begun", "running"} /\ CpuOf(game.id).stage # "simulating"
    /\ cpu' = [cpu EXCEPT ![game.id % Ring].ended = TRUE]
    /\ IF Partial(game.id) THEN GameAbort(game.id) /\ over' = over \union {game.id}
       ELSE UNCHANGED <<tokens, over>>
    /\ game' = [game EXCEPT !.at = "ending"]
    /\ UNCHANGED <<fixed, rhi, frames, joins, cursor, session, begun, paces>>

RecordEnd ==
    /\ game.at = "ending"
    /\ WithFrame(game.id, [EntryOf(game.id) EXCEPT !.ended = TRUE, !.failed = @ \/ Partial(game.id)])
    /\ game' = [game EXCEPT !.at = IF Partial(game.id) THEN "raise" ELSE "between"]
    /\ UNCHANGED <<fixed, rhi, cpu, joins, pool, session, history>>

\* complete_frame, on either thread: raise presented_through, then signal.
Raised(id) == IF presentedThrough < id THEN id ELSE presentedThrough

GameRaise ==
    /\ game.at = "raise"
    /\ presentedThrough' = Raised(game.id)
    /\ game' = [game EXCEPT !.at = "signal"]
    /\ UNCHANGED <<fixed, rhi, ledger, signalled, joinSkip, pool, session, history>>

GameSignal ==
    /\ game.at = "signal"
    /\ signalled' = TRUE
    /\ game' = [game EXCEPT !.at = "between"]
    /\ UNCHANGED <<fixed, rhi, ledger, presentedThrough, joinSkip, pool, session, history>>

-----------------------------------------------------------------------------
\* The RHI thread.  A frame's commands are queued behind its pacing boundary:
\* the scene's after the world's update, the end of its RHI frame at the end.
Past(places) == rhi.id < game.id \/ (rhi.id = game.id /\ game.at \in places)
Closing == {"ending", "raise", "signal", "between"}
Queued == Past(Closing \union {"running"})
Simulated == CpuOf(rhi.id).stage # "begun" \/ CpuOf(rhi.id).ended
Ended == Past(Closing) \/ CpuOf(rhi.id).stage = "simulated"

\* A submission drops the older frames that ended without one, then claims its
\* own entry; only if it may are the dropped frames' tokens released.
Dropped == {k \in DOMAIN frames : frames[k].id \in 1 .. (rhi.id - 1) /\ frames[k].ended /\ ~frames[k].submitted}

Submission ==
    /\ rhi.at = "open" /\ Queued /\ Simulated
    /\ LET own == EntryOf(rhi.id)
           claimed == Owns(rhi.id) /\ ~own.failed /\ ~own.submitted
           dropped == {frames[k].id : k \in Dropped}
       IN /\ frames' = [k \in DOMAIN frames |->
                 IF k \in Dropped THEN [frames[k] EXCEPT !.failed = TRUE]
                 ELSE IF k = rhi.id % Ring /\ claimed THEN [own EXCEPT !.submitted = TRUE]
                 ELSE frames[k]]
          /\ tokens' = [k \in DOMAIN tokens |->
                 IF ~claimed THEN tokens[k]
                 ELSE IF tokens[k].id \in dropped THEN Free
                 ELSE Marked(rhi.id, {"submitStart"})[k]]
    /\ rhi' = [rhi EXCEPT !.at = "drawn"]
    /\ UNCHANGED <<fixed, game, cpu, joins, cursor, session, history>>

\* Interface without a scene is presented as well; some frames draw no window.
NoSubmission ==
    /\ rhi.at = "open" /\ Queued
    /\ rhi' = [rhi EXCEPT !.at = "drawn"]
    /\ UNCHANGED <<fixed, game, ledger, joins, pool, session, history>>

\* rsf_native_fg_prepare: whether generation runs for a frame whose images match.
Valid(id) ==
    /\ Owns(id)
    /\ EntryOf(id).submitted /\ ~EntryOf(id).failed
    /\ EntryOf(id).gen = generation
    /\ ~CpuOf(id).failed /\ CpuOf(id).stage # "begun"

\* latency_event, around the physical Present.
PresentBegin ==
    /\ rhi.at = "drawn"
    /\ LET start == IF Owns(rhi.id) /\ ~EntryOf(rhi.id).failed THEN {"submitStart"} ELSE {}
           end == IF threaded THEN {} ELSE {"submitEnd"}
       IN tokens' = Marked(rhi.id, start \union end)
    /\ rhi' = [rhi EXCEPT !.at = "presenting"]
    /\ UNCHANGED <<fixed, game, ledger, joins, cursor, session, history>>

Send ==
    /\ rhi.at = "presenting"
    /\ rhi' = [rhi EXCEPT !.at = "sending"]
    /\ UNCHANGED <<fixed, game, ledger, joins, pool, session, history>>

\* To complete the frame, and then go on.
Completing(then) == [rhi EXCEPT !.at = "raise", !.then = then]

PresentEnd ==
    /\ rhi.at \in {"presenting", "returning"}
    /\ tokens' = Marked(rhi.id, {"present"})
    /\ over' = over \union {rhi.id}
    /\ rhi' = Completing("presented")
    /\ UNCHANGED <<fixed, game, ledger, joins, cursor, session, begun, paces>>

\* switch_if_requested, at the end of Bridge::Present.  The exclusive lock is
\* not given while the game thread sleeps in the host.  A failed replacement
\* falls back and counts as a new generation too; a refused probe does not.
SwitchStart ==
    /\ rhi.at = "presented" /\ generation <= MaxSwitches /\ game.at # "sleeping"
    /\ rhi' = [rhi EXCEPT !.at = "switching"]
    /\ UNCHANGED <<fixed, game, ledger, joins, pool, session, history>>

SwitchEnd ==
    /\ rhi.at = "switching"
    /\ rhi' = [rhi EXCEPT !.at = "switched"]
    /\ \/ generation' = generation + 1 /\ hostPaced' \in (IF host THEN BOOLEAN ELSE {FALSE})
       \/ UNCHANGED session
    /\ UNCHANGED <<fixed, game, ledger, joins, pool, history>>

\* The end of the frame's window: one that was not presented is given up.
WindowEnd ==
    /\ rhi.at \in {"drawn", "presented", "switched"}
    /\ IF Live(rhi.id) /\ ~Presented(rhi.id)
       THEN /\ tokens' = Released({rhi.id})
            /\ WithFrame(rhi.id, [EntryOf(rhi.id) EXCEPT !.failed = TRUE])
            /\ over' = over \union {rhi.id}
            /\ rhi' = Completing("closing")
       ELSE rhi' = [rhi EXCEPT !.at = "closing"] /\ UNCHANGED <<tokens, frames, over>>
    /\ UNCHANGED <<fixed, game, cpu, joins, cursor, session, begun, paces>>

\* The end of the RHI frame: what is left of its token is given back.
RhiFrameEndIf(live) ==
    /\ rhi.at \in {"drawn", "closing"} /\ Ended
    /\ tokens' = IF live THEN Released({rhi.id}) ELSE Marked(rhi.id, {"submitEnd"})
    /\ over' = over \union {rhi.id}
    /\ rhi' = [Completing("open") EXCEPT !.id = @ + 1]
    /\ UNCHANGED <<fixed, game, ledger, joins, cursor, session, begun, paces>>
RhiFrameEndByCount == RhiFrameEndIf(presentedThrough < rhi.id)
RhiFrameEnd == RhiFrameEndIf(Live(rhi.id))

RhiRaise ==
    /\ rhi.at = "raise"
    /\ presentedThrough' = Raised(IF rhi.then = "open" THEN rhi.id - 1 ELSE rhi.id)
    /\ rhi' = [rhi EXCEPT !.at = "signal"]
    /\ UNCHANGED <<fixed, game, ledger, signalled, joinSkip, pool, session, history>>

RhiSignal ==
    /\ rhi.at = "signal"
    /\ signalled' = TRUE
    /\ rhi' = [rhi EXCEPT !.at = rhi.then, !.then = "open"]
    /\ UNCHANGED <<fixed, game, ledger, presentedThrough, joinSkip, pool, session, history>>

-----------------------------------------------------------------------------
\* Everything the game thread does but giving up a join.
GameRuns ==
    \/ FrameBegin \/ PassUnjoined \/ StartJoin \/ Wake \/ CallBegin \/ SleepReturns
    \/ RecordBegin \/ Simulate \/ FrameEndRefused \/ FrameEnd \/ RecordEnd
    \/ GameRaise \/ GameSignal

RhiRuns ==
    \/ Submission \/ NoSubmission \/ PresentBegin \/ Send \/ PresentEnd
    \/ SwitchStart \/ SwitchEnd \/ WindowEnd \/ RhiFrameEnd \/ RhiRaise \/ RhiSignal

Next == GameRuns \/ Answer \/ TimeOut \/ RhiRuns

\* Threads run and sent messages are answered; nothing is assumed of the time-out.
Fairness == WF_vars(GameRuns) /\ WF_vars(Answer) /\ WF_vars(RhiRuns)
Spec == Init /\ [][Next]_vars /\ Fairness

-----------------------------------------------------------------------------
GameAt == {"between", "begun", "waiting", "pacing", "sleeping", "slept", "running",
           "ending", "raise", "signal"}
RhiAt == {"open", "drawn", "presenting", "sending", "returning", "raise", "signal",
          "presented", "switching", "switched", "closing"}

TypeOK ==
    /\ host \in BOOLEAN /\ threaded \in BOOLEAN
    /\ game \in [at : GameAt, id : Nat, gen : Nat, ok : BOOLEAN]
    /\ rhi \in [at : RhiAt, id : Nat \ {0}, then : RhiAt]
    /\ cpu \in [0 .. (Ring - 1) -> [stage : Stages, failed : BOOLEAN, ended : BOOLEAN]]
    /\ frames \in [0 .. (Ring - 1) -> Owner]
    /\ presentedThrough \in Nat /\ signalled \in BOOLEAN /\ joinSkip \in 0 .. Skip
    /\ tokens \in [0 .. (Tokens - 1) -> [id : Nat, markers : SUBSET Markers]]
    /\ cursor \in 0 .. (Tokens - 1)
    /\ generation \in Nat \ {0} /\ hostPaced \in BOOLEAN
    /\ begun \in [0 .. (Ring - 1) -> Nat] /\ over \subseteq FrameId /\ paces \in 0 .. Skip

\* The type invariant, with the rule the ring of 128 owners lives by: every frame
\* between the RHI thread's and the game thread's owns its entry, whatever the
\* frame that held the entry before left in it.
FramesInv ==
    /\ TypeOK
    /\ \A id \in rhi.id .. game.id : Owns(id)

\* The host's token ring cannot fill up: a token is never held past the end of
\* its RHI frame, though markers and aborts were refused during a switch, and so
\* the next one is free whenever the engine begins a frame.
TokensReturn ==
    /\ \A k \in DOMAIN tokens : tokens[k].id # 0 => tokens[k].id \in rhi.id .. game.id
    /\ game.at = "between" /\ game.id + 1 < rhi.id + InFlight => tokens[cursor].id = 0

\* A join that neither timed out nor was skipped ends only after the previous
\* frame's Present returned, or when it can have none any more: an older
\* frame's signal left in the event must not pass for it.
JoinExact ==
    [][/\ game.at \in {"begun", "waiting"} /\ game'.at = "pacing"
       /\ Joins /\ game.id > 1 /\ joinSkip' = joinSkip
       => game.id - 1 \in over]_vars

\* After a join that timed out, no join waits again before Skip pacing
\* boundaries have passed: a stuck Present costs one bounded wait per pause.
OneWaitPerPause == game.at = "waiting" => paces >= Skip

\* Frames are generated only from a frame whose begin reached the session that
\* generates, and that was not given up: the generation CpuOwner keeps is the one
\* its begin was given, although its markers carry the generation of their call.
GeneratesWhatItBegan ==
    rhi.at = "drawn" /\ Valid(rhi.id) => begun[rhi.id % Ring] = generation /\ rhi.id \notin over

\* A join returns without its time-out: the previous frame is completed by the
\* RHI thread, which needs neither a lock of the game thread nor an unanswered
\* window message for it, and its signal is not lost.
JoinReturns == game.at = "waiting" ~> game.at # "waiting"
=============================================================================
