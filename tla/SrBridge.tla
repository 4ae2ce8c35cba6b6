------------------------------- MODULE SrBridge --------------------------------
(***************************************************************************)
(* runtime/orchestrator/src/sr_bridge.cpp: super resolution for a D3D11    *)
(* game on a D3D12 device of its own, around the session of SrSession.     *)
(*                                                                         *)
(* One CPU thread, the owner of the immediate context, and two GPU queues  *)
(* that meet in one shared fence.  A frame goes D3D11 inputs -> D3D12      *)
(* list -> D3D11 output copy; bridge.tick names the fence's values.  D3D11 *)
(* runs only what was flushed.  The CPU waits before it reuses a command   *)
(* slot and before it replaces or closes what the GPU may use, through one *)
(* auto-reset event and for at most ten seconds.                           *)
(*                                                                         *)
(* A removed device, where nothing runs any more, is not modelled.         *)
(***************************************************************************)
EXTENDS SrSession, Sequences

CONSTANTS Slots,          \* rsf_sr_bridge::commands (3)
          MaxFrame,       \* bound: frame ids
          MaxGeneration,  \* bound: resource generations, each with its own extents
          MaxTick,        \* bound: fence values
          Recovers        \* a queue that made a wait time out may still go on

ASSUME BridgeAssumption == /\ Slots \in Nat \ {0} /\ MaxFrame \in Nat /\ MaxGeneration \in Nat
                           /\ MaxTick \in Nat /\ Recovers \in BOOLEAN

VARIABLES
    bridge,      \* rsf_sr_bridge
    call,        \* the call the CPU is in, and the fence value it waits for
    event,       \* the auto-reset event: set, and the values it is registered for
    fence,       \* the shared fence
    q11, flushed,      \* commands of the immediate context, and how many the GPU was given
    q12, running,      \* commands of the D3D12 queue, and whether its first is a running list
    inputs, outputs,   \* the evaluation whose images the shared surfaces hold
    delivered,         \* history: the last output copy, and what it copied
    hung               \* history: a wait timed out

cpuVars == <<bridge, call>>
gpuVars == <<q11, flushed, q12, running>>
imageVars == <<inputs, outputs, delivered>>
vars == <<sessionVars, cpuVars, event, fence, gpuVars, imageVars, hung>>

SlotIndex == 0 .. (Slots - 1)
Values == 0 .. MaxTick

\* waits: the CPU is in WaitForSingleObject, for this value.
Idle == [op |-> "none", waits |-> FALSE, value |-> 0, choice |-> NoChoice, exposure |-> FALSE, frame |-> NoFrame]

\* Queue commands.  A copy or a list carries the evaluation it belongs to (the
\* tick of its inputs); a list also the backend and the surfaces it uses.
Signal(v) == [op |-> "signal", v |-> v]
Wait(v) == [op |-> "wait", v |-> v]
CopyIn(n) == [op |-> "copyIn", v |-> n]
CopyOut(n) == [op |-> "copyOut", v |-> n]
List(n, instance, surfaces, ok) ==
    [op |-> "list", v |-> n, instance |-> instance, surfaces |-> surfaces, ok |-> ok]

Init ==
    /\ SessionInit
    /\ bridge = [state |-> "open", tick |-> 0, next |-> 0, complete |-> [k \in SlotIndex |-> 0],
                 size |-> 0, surfaces |-> 0, faulted |-> FALSE, unflushed |-> FALSE]
    /\ call = Idle
    /\ event = [set |-> FALSE, armed |-> {}]
    /\ fence = 0
    /\ q11 = <<>> /\ flushed = 0 /\ q12 = <<>> /\ running = FALSE
    /\ inputs = 0 /\ outputs = 0 /\ delivered = [n |-> 0, image |-> 0]
    /\ hung = FALSE

-----------------------------------------------------------------------------
\* The CPU.  wait(): the last tick may be a D3D11 signal nobody has flushed, so
\* that comes first.  A frame's wait for its command slot needs no flush.
NoFlush(op) == UNCHANGED <<flushed, bridge>>
FlushFor(op) ==
    IF op # "evaluate" /\ bridge.unflushed
    THEN flushed' = Len(q11) /\ bridge' = [bridge EXCEPT !.unflushed = FALSE]
    ELSE UNCHANGED <<flushed, bridge>>

\* A call up to its wait.  wait_fence does not wait for a value that is there;
\* else it registers the event for the value.
Start(op, value, arguments) ==
    /\ bridge.state = "open" /\ call.op = "none"
    /\ call' = [arguments EXCEPT !.op = op, !.value = value, !.waits = fence < value]
    /\ event' = IF fence < value THEN [event EXCEPT !.armed = @ \union {value}] ELSE event
    /\ FlushFor(op)
    /\ UNCHANGED <<sessionVars, fence, q11, q12, running, imageVars, hung>>

CallSelect ==
    \E choice \in Choices \union {NoChoice} :
        /\ ~bridge.faulted \/ choice = NoChoice
        /\ Start("select", bridge.tick, [Idle EXCEPT !.choice = choice])

CallAutoExposure ==
    /\ ~bridge.faulted
    /\ Start("exposure", bridge.tick, [Idle EXCEPT !.exposure = ~session.exposure])

\* Other extents need other surfaces, and those all GPU work to be over, the
\* command slot's included.
CallEvaluate ==
    /\ ~bridge.faulted /\ bridge.tick + 3 <= MaxTick
    /\ \E frame \in [view : Views, frame : 1 .. MaxFrame, generation : 1 .. MaxGeneration] :
         IF bridge.size = frame.generation
         THEN Start("evaluate", bridge.complete[bridge.next], [Idle EXCEPT !.frame = frame])
         ELSE Start("resize", bridge.tick, [Idle EXCEPT !.frame = frame])

DestroyAfter(value) == Start("destroy", value, Idle)
CallDestroyAtOnce == DestroyAfter(0)
CallDestroy == DestroyAfter(bridge.tick)

\* The wait is over when the event is set, whichever value that was for.
Returns(op) ==
    /\ call.op = op /\ (call.waits => event.set)
    /\ event' = IF call.waits THEN [event EXCEPT !.set = FALSE] ELSE event

SelectAfterWait ==
    /\ Returns("select")
    /\ Select(call.choice)
    /\ call' = Idle
    /\ UNCHANGED <<bridge, fence, gpuVars, imageVars, hung>>

AutoExposureAfterWait ==
    /\ Returns("exposure")
    /\ SetAutoExposure(call.exposure)
    /\ call' = Idle
    /\ UNCHANGED <<bridge, fence, gpuVars, imageVars, hung>>

\* prepare(): new surfaces, or none when one cannot be made.
Resize ==
    /\ Returns("resize")
    /\ \/ /\ bridge' = [bridge EXCEPT !.size = call.frame.generation, !.surfaces = @ + 1]
          /\ call' = [call EXCEPT !.op = "evaluate", !.waits = FALSE]
          /\ inputs' = 0 /\ outputs' = 0
       \/ /\ bridge' = [bridge EXCEPT !.size = 0]
          /\ call' = Idle
          /\ UNCHANGED <<inputs, outputs>>
    /\ UNCHANGED <<sessionVars, fence, gpuVars, delivered, hung>>

\* The rest of rsf_sr_bridge_evaluate.  Any step that hands work to a queue may
\* fail (at): the bridge is then faulted, with that much queued.
Steps == <<"signal", "wait12", "close", "signal12", "wait11", "copied", "none">>
Reaches(at, step) ==
    \E i, j \in DOMAIN Steps : Steps[i] = step /\ Steps[j] = at /\ i < j
If(condition, commands) == IF condition THEN commands ELSE <<>>

Queue12Unordered(at, ready, list) ==
    If(Reaches(at, "close"), <<list>>) \o If(Reaches(at, "signal12"), <<Signal(ready + 1)>>)
Queue12(at, ready, list) ==
    If(Reaches(at, "wait12"), <<Wait(ready)>>) \o If(Reaches(at, "close"), <<list>>)
        \o If(Reaches(at, "signal12"), <<Signal(ready + 1)>>)

Queue11First(at, ready) == <<CopyIn(ready)>> \o If(Reaches(at, "signal"), <<Signal(ready)>>)
Queue11Unordered(at, ready, ok) ==
    If(Reaches(at, "wait11"), If(ok, <<CopyOut(ready)>>))
        \o If(ok /\ Reaches(at, "copied"), <<Signal(ready + 2)>>)
Queue11Then(at, ready, ok) ==
    If(Reaches(at, "wait11"), <<Wait(ready + 1)>> \o If(ok, <<CopyOut(ready)>>))
        \o If(ok /\ Reaches(at, "copied"), <<Signal(ready + 2)>>)

TickAt(at, ready, ok) ==
    IF Reaches(at, "wait11") /\ ok THEN ready + 2
    ELSE IF Reaches(at, "close") THEN ready + 1 ELSE ready

Queue(at, ok, ready) ==
    LET list == List(ready, session.backend, bridge.surfaces, ok)
        first == q11 \o Queue11First(at, ready)
    IN /\ q11' = first \o Queue11Then(at, ready, ok)
       /\ flushed' = IF Reaches(at, "signal") THEN Len(first) ELSE flushed
       /\ q12' = q12 \o Queue12(at, ready, list)
       /\ bridge' = [bridge EXCEPT
              !.tick = TickAt(at, ready, ok),
              !.complete = IF Reaches(at, "signal12") THEN [@ EXCEPT ![bridge.next] = ready + 1] ELSE @,
              !.next = IF Reaches(at, "signal12") THEN (@ + 1) % Slots ELSE @,
              !.faulted = at # "none",
              !.unflushed = IF Reaches(at, "signal") THEN ok /\ at = "none" ELSE @]

EvaluateAfterWait ==
    /\ Returns("evaluate")
    /\ \E at \in {Steps[i] : i \in DOMAIN Steps}, ok \in BOOLEAN, fits \in BOOLEAN :
         /\ IF ~Reaches(at, "wait12") THEN ok /\ fits /\ UNCHANGED sessionVars
            ELSE \/ ~ok /\ EvaluateRefused(fits, call.frame)
                 \/ Evaluate(fits, call.frame, ok)
         /\ at = "copied" => ok
         /\ Queue(at, ok, bridge.tick + 1)
    /\ call' = Idle
    /\ UNCHANGED <<fence, running, imageVars, hung>>

\* rsf_sr_bridge_destroy, once the wait is over; what timed out is kept.
DestroyAfterWait ==
    /\ Returns("destroy")
    /\ open' = Close
    /\ bridge' = [bridge EXCEPT !.state = "destroyed", !.size = 0]
    /\ call' = Idle
    /\ UNCHANGED <<session, opened, seen, submitted, fence, gpuVars, imageVars, hung>>

\* Ten seconds: gpu_failure, or the bridge stays for the life of the process.
\* The event remains registered.
TimeOut ==
    /\ call.waits /\ ~event.set
    /\ bridge' = IF call.op = "destroy" THEN [bridge EXCEPT !.state = "retained"]
                 ELSE [bridge EXCEPT !.faulted = TRUE]
    /\ call' = Idle /\ hung' = TRUE
    /\ UNCHANGED <<sessionVars, event, fence, gpuVars, imageVars>>

-----------------------------------------------------------------------------
\* The GPU.  A signal sets the fence, up or down, and with it the event.
SetFence(v) ==
    /\ fence' = v
    /\ event' = [set |-> event.set \/ \E a \in event.armed : a <= v,
                 armed |-> {a \in event.armed : a > v}]

Runs == Recovers \/ ~hung

\* The game's Present, or the driver, submits what was recorded.
GameFlush ==
    /\ flushed < Len(q11)
    /\ flushed' = Len(q11)
    /\ UNCHANGED <<sessionVars, cpuVars, event, fence, q11, q12, running, imageVars, hung>>

Execute11 ==
    /\ Runs /\ flushed > 0
    /\ LET c == Head(q11) IN
       \/ /\ c.op = "copyIn" /\ inputs' = c.v
          /\ UNCHANGED <<fence, event, outputs, delivered>>
       \/ /\ c.op = "copyOut" /\ delivered' = [n |-> c.v, image |-> outputs]
          /\ UNCHANGED <<fence, event, inputs, outputs>>
       \/ /\ c.op = "signal" /\ SetFence(c.v)
          /\ UNCHANGED imageVars
       \/ /\ c.op = "wait" /\ fence >= c.v
          /\ UNCHANGED <<fence, event, imageVars>>
    /\ q11' = Tail(q11) /\ flushed' = flushed - 1
    /\ UNCHANGED <<sessionVars, cpuVars, q12, running, hung>>

Execute12 ==
    /\ Runs /\ ~running /\ q12 # <<>>
    /\ LET c == Head(q12) IN
       \/ /\ c.op = "signal" /\ SetFence(c.v) /\ q12' = Tail(q12) /\ UNCHANGED running
       \/ /\ c.op = "wait" /\ fence >= c.v /\ q12' = Tail(q12) /\ UNCHANGED <<running, fence, event>>
       \/ /\ c.op = "list" /\ running' = TRUE /\ UNCHANGED <<q12, fence, event>>
    /\ UNCHANGED <<sessionVars, cpuVars, q11, flushed, imageVars, hung>>

FinishList ==
    /\ Runs /\ running
    /\ running' = FALSE /\ q12' = Tail(q12)
    /\ outputs' = IF Head(q12).ok THEN Head(q12).v ELSE outputs
    /\ UNCHANGED <<sessionVars, cpuVars, event, fence, q11, flushed, inputs, delivered, hung>>

-----------------------------------------------------------------------------
CpuReturns == SelectAfterWait \/ AutoExposureAfterWait \/ Resize \/ EvaluateAfterWait \/ DestroyAfterWait

Next ==
    \/ CallSelect \/ CallAutoExposure \/ CallEvaluate \/ CallDestroy \/ CpuReturns \/ TimeOut
    \/ GameFlush \/ Execute11 \/ Execute12 \/ FinishList

\* Both queues run what they were given; nobody else flushes, or calls.
Fairness == WF_vars(CpuReturns) /\ WF_vars(Execute11) /\ WF_vars(Execute12) /\ WF_vars(FinishList)
Spec == Init /\ [][Next]_vars /\ Fairness

-----------------------------------------------------------------------------
Lists == {q12[i] : i \in DOMAIN q12} \cap [op : {"list"}, v : Nat, instance : Nat, surfaces : Nat, ok : BOOLEAN]

TypeOK ==
    /\ SessionTypeOK
    /\ bridge \in [state : {"open", "destroyed", "retained"}, tick : Values, next : SlotIndex,
                   complete : [SlotIndex -> Values], size : 0 .. MaxGeneration, surfaces : Nat,
                   faulted : BOOLEAN, unflushed : BOOLEAN]
    /\ call \in [op : {"none", "select", "exposure", "resize", "evaluate", "destroy"}, waits : BOOLEAN,
                 value : Values, choice : Choices \union {NoChoice}, exposure : BOOLEAN, frame : Frame]
    /\ event.set \in BOOLEAN /\ event.armed \subseteq Values
    /\ fence \in Values /\ flushed \in 0 .. Len(q11) /\ running \in BOOLEAN
    /\ inputs \in Values /\ outputs \in Values /\ delivered \in [n : Values, image : Values]
    /\ hung \in BOOLEAN

\* What the session owns: exactly its backend is open, through every refused
\* switch, and status.effective names it.
OneBackendOpen ==
    /\ bridge.state # "destroyed" => open = {session.backend} \ {NoInstance}
    /\ bridge.state = "destroyed" => open = {}
    /\ (session.backend = NoInstance) <=> (session.effective = NoChoice)

\* The type invariant, with what the session owns.
SrInv == TypeOK /\ OneBackendOpen

\* A frame submitted without reset continues that backend's own history: the
\* backend has seen the frame just before, of the same view and resources, and
\* nothing failed since.
ContinuesHistory ==
    submitted.continues => submitted.after # NoFrame /\ Follows(submitted.frame, submitted.after)

\* What the game gets is the reconstruction of its own frame, from that frame's
\* inputs: a running list never has its inputs written, and the copy out of a
\* frame reads what its list wrote.
OwnImages ==
    /\ running => inputs = Head(q12).v
    /\ delivered.n = delivered.image

\* No list that is queued or running uses a closed backend or destroyed surfaces.
NothingFreedInUse ==
    \A list \in Lists :
        /\ list.instance \in open \union {NoInstance}
        /\ bridge.size # 0 /\ list.surfaces = bridge.surfaces

\* The shared fence never goes down, though two queues signal it.
FenceRises == [][fence' >= fence]_fence

\* A call on a bridge that is not faulted returns without its time-out, although
\* the last signal may not have been flushed by anyone.
WaitsEnd == call.waits /\ ~bridge.faulted ~> ~call.waits
=============================================================================
