----------------------------- MODULE NativeFgSlots -----------------------------
(***************************************************************************)
(* runtime/orchestrator/src/native_fg.cpp: the ring of shared inputs that  *)
(* D3D11 writes and the vendor reads on D3D12, one slot per source frame.  *)
(*                                                                         *)
(* Two threads.  The render thread reuses a slot in resources(), then      *)
(* copies the frame's depth, motion and HUD-less colour into it.  The      *)
(* present thread tags the slot (prepare), presents, and retires: a join   *)
(* on the provider queue that also gives the surfaces back to D3D11.       *)
(* Retirement may fail; what is then unknown is held until a later one, or *)
(* until the provider is switched at a drained Present.                    *)
(*                                                                         *)
(* The render thread's three waits share one auto-reset event.  A wait     *)
(* given up after ten seconds leaves it registered: set later, with nobody *)
(* waiting, it ends the next wait that blocks.                             *)
(*                                                                         *)
(* Frames are presented once and in order; a lost device is not modelled.  *)
(***************************************************************************)
EXTENDS Naturals, Sequences

CONSTANTS Slots,         \* length of Transfer::slots
          Ahead,         \* frames the renderer may be ahead of the last Present
          MaxId,         \* bound: source frames 1 .. MaxId
          MaxSerial,     \* bound: no new copy once the fence has had this many values
          MaxGeneration  \* bound: no provider switch past this chain_generation

ASSUME SlotsAssumption == Slots \in Nat \ {0}
ASSUME AheadAssumption == Ahead \in 1 .. Slots
ASSUME BoundsAssumption == MaxId \in Nat /\ MaxSerial \in Nat /\ MaxGeneration \in Nat

SlotIndex == 0 .. (Slots - 1)
NoSlot == Slots

VARIABLES
    slots,       \* Transfer::slots: the frame, and what is known of the vendor's reads
    render,      \* the render thread inside resources(), and what it read under the lock
    event,       \* Transfer::event, and the values of the two fences it is registered for
    early,       \* history: a wait was ended by the event of an earlier one
    abandoned,   \* history: slots whose restore was queued, then given up
    rendered,    \* frames whose rendering is over
    present,     \* the present thread: where it is, its tagged_slot, what retire returned
    presented,   \* frames whose Present is over
    provider,    \* a provider session exists
    generation,  \* chain_generation
    serial, fence,        \* Transfer::serial; the shared fence's value
    signals, flushed,     \* signals D3D11 has queued; how many of them are submitted
    restores,             \* interop queue: restoring lists and what they signal, 0 if nothing
    queue,                \* provider queue: reads to start, joins to signal
    joinIssued, joinDone, \* the bridge's private retirement fence
    vendorIssued, vendorDone, vendorRead,  \* the vendor's own retirement fence; its value for a slot
    state        \* the D3D12 state the slot's surfaces are in

waitVars == <<event, early, abandoned>>
renderVars == <<render, rendered, waitVars>>
presentVars == <<present, presented, provider, generation>>
copyVars == <<serial, fence, signals, flushed, restores>>
queueVars == <<queue, joinIssued, joinDone>>
vendorVars == <<vendorIssued, vendorDone, vendorRead>>
vars == <<slots, renderVars, presentVars, copyVars, queueVars, vendorVars, state>>

\* join is vendor_value, 0 without a fence; unknown, heldIn: vendor_unknown and
\* the vendor_generation read only with it.
Slot == [source : Nat, prepared : BOOLEAN, complete : Nat, join : Nat,
         unknown : BOOLEAN, heldIn : Nat, readState : BOOLEAN]
EmptySlot == [source |-> 0, prepared |-> FALSE, complete |-> 0, join |-> 0,
              unknown |-> FALSE, heldIn |-> 0, readState |-> FALSE]

Idle == [at |-> "idle", join |-> 0, readState |-> FALSE, blocked |-> FALSE]
Waiting == [at |-> "idle", tagged |-> NoSlot, join |-> 0]

SlotOf(id) == id % Slots
Current == SlotOf(rendered + 1)     \* slot of the frame being rendered
Untagged == present.tagged = NoSlot
Held == \E i \in SlotIndex : slots[i].unknown

\* A slot whose vendor join is known; a slot nothing is known of.
Joined(s, value) == [s EXCEPT !.join = value, !.unknown = FALSE, !.heldIn = 0]
Unjoined(s) == [s EXCEPT !.join = 0, !.unknown = TRUE, !.heldIn = generation, !.readState = TRUE]

Init == /\ slots = [i \in SlotIndex |-> EmptySlot]
        /\ render = Idle /\ rendered = 0
        /\ event = [set |-> FALSE, fence |-> {}, join |-> {}] /\ early = FALSE /\ abandoned = {}
        /\ present = Waiting /\ presented = 0
        /\ provider = TRUE /\ generation = 0
        /\ serial = 0 /\ fence = 0 /\ signals = <<>> /\ flushed = 0 /\ restores = <<>>
        /\ queue = <<>> /\ joinIssued = 0 /\ joinDone = 0
        /\ vendorIssued = 0 /\ vendorDone = 0
        /\ vendorRead = [i \in SlotIndex |-> 0]
        /\ state = [i \in SlotIndex |-> "common"]

-------------------------------------------------------------------------------
\* Render thread.  One frame may copy several times (capture after evaluate, a
\* second SR evaluation), once, or not at all.

\* resources(), under vendor_guard; D3D11 work the slot waits for is submitted.
AskFor(mayReuse, flush) ==
    /\ render.at = "idle"
    /\ rendered < MaxId /\ rendered < presented + Ahead /\ serial < MaxSerial
    /\ mayReuse
    /\ slots' = [slots EXCEPT ![Current].unknown = FALSE, ![Current].heldIn = 0]
    /\ render' = [at |-> "complete", join |-> slots[Current].join,
                  readState |-> slots[Current].readState, blocked |-> FALSE]
    /\ flushed' = flush
    /\ UNCHANGED <<rendered, waitVars, presentVars, serial, fence, signals, restores, queueVars,
                   vendorVars, state>>

Reusable == slots[Current].unknown => slots[Current].heldIn # generation
FlushFor == IF fence < slots[Current].complete THEN Len(signals) ELSE flushed

AskHeld == AskFor(TRUE, FlushFor)           \* mutated form
AskUnflushed == AskFor(Reusable, flushed)   \* mutated form
Ask == AskFor(Reusable, FlushFor)

\* wait_fence for what the slot was last used for, for the vendor, for the restore.
Waits == {"complete", "join", "restoring"}
Arrived == IF render.at = "join" THEN joinDone >= render.join ELSE fence >= slots[Current].complete

\* What the render thread may do in resources() without touching a slot.
Rendering(next) ==
    /\ render' = next
    /\ UNCHANGED <<slots, rendered, presentVars, copyVars, queueVars, vendorVars, state>>

\* wait_fence succeeds; after the restore's, read_state is cleared under the lock.
Waited ==
    \/ /\ render.at = "complete"
       /\ Rendering([render EXCEPT !.at = "join", !.blocked = FALSE]) /\ UNCHANGED abandoned
    \/ /\ render.at = "join"
       /\ Rendering([render EXCEPT !.at = IF render.readState THEN "restore" ELSE "copy",
                                   !.blocked = FALSE])
       /\ UNCHANGED abandoned
    \/ /\ render.at = "restoring"
       /\ render' = [render EXCEPT !.at = "copy", !.blocked = FALSE]
       /\ slots' = [slots EXCEPT ![Current].readState = FALSE]
       /\ abandoned' = abandoned \ {Current}
       /\ UNCHANGED <<rendered, presentVars, copyVars, queueVars, vendorVars, state>>

Pass == ~render.blocked /\ Arrived /\ Waited /\ UNCHANGED <<event, early>>

Block ==
    /\ render.at \in Waits /\ ~render.blocked /\ ~Arrived
    /\ event' = IF render.at = "join" THEN [event EXCEPT !.join = @ \cup {render.join}]
                ELSE [event EXCEPT !.fence = @ \cup {slots[Current].complete}]
    /\ Rendering([render EXCEPT !.blocked = TRUE]) /\ UNCHANGED <<early, abandoned>>

\* The event is set, for this wait or for one given up before it.
Wake == /\ render.blocked /\ event.set /\ Waited
        /\ event' = [event EXCEPT !.set = FALSE]
        /\ early' = (early \/ ~Arrived)

\* The restore now on its queue, or still to be signalled, is left to itself.
Abandon == abandoned' = IF render.at = "restoring" THEN abandoned \cup {Current} ELSE abandoned

\* Ten seconds without the event, which stays registered.
TimeOut == /\ render.blocked /\ ~event.set
           /\ Rendering(Idle) /\ Abandon /\ UNCHANGED <<event, early>>

\* restore_read_state: a list on the interop queue, complete counted, and the Signal,
\* which may fail.
Restore ==
    /\ render.at = "restore"
    /\ serial' = serial + 1
    /\ slots' = [slots EXCEPT ![Current].complete = serial']
    /\ \/ /\ restores' = Append(restores, [slot |-> Current, signal |-> serial'])
          /\ render' = [render EXCEPT !.at = "restoring"] /\ UNCHANGED abandoned
       \/ /\ restores' = Append(restores, [slot |-> Current, signal |-> 0])
          /\ render' = Idle /\ abandoned' = abandoned \cup {Current}
    /\ UNCHANGED <<rendered, event, early, presentVars, fence, signals, flushed, queueVars,
                   vendorVars, state>>

\* Its list cannot be recorded, or the frame's storage cannot be had.
Refused == render.at \in {"restore", "copy"} /\ Rendering(Idle) /\ UNCHANGED waitVars

\* The signal that ends D3D11 work on the current slot, unflushed.
Copied(s) ==
    /\ serial' = serial + 1
    /\ signals' = Append(signals, serial')
    /\ slots' = [slots EXCEPT ![Current] = [s EXCEPT !.complete = serial']]

\* rsf_native_fg_capture and rsf_native_fg_evaluate after resources(); an evaluation
\* flushes its upload, and leaves prepared unset when the SDK refused.
Copy ==
    /\ render.at = "copy" /\ render' = Idle
    /\ \E ok \in BOOLEAN : Copied([slots[Current] EXCEPT !.source = rendered + 1, !.prepared = ok])
    /\ flushed' \in {flushed, Len(signals)}
    /\ UNCHANGED <<rendered, waitVars, presentVars, fence, restores, queueVars, vendorVars, state>>

\* rsf_native_fg_final: HUD-less colour joins inputs captured for this pass.
MayCopyHudless == /\ render.at = "idle" /\ rendered < MaxId /\ rendered < presented + Ahead
                  /\ slots[Current].source = rendered + 1 /\ slots[Current].prepared

Final ==
    /\ MayCopyHudless /\ serial < MaxSerial
    /\ Copied(slots[Current])
    /\ UNCHANGED <<renderVars, presentVars, fence, flushed, restores, queueVars, vendorVars, state>>

EndRender ==
    /\ render.at = "idle" /\ rendered < MaxId /\ rendered < presented + Ahead
    /\ rendered' = rendered + 1
    /\ UNCHANGED <<slots, render, waitVars, presentVars, copyVars, queueVars, vendorVars, state>>

-------------------------------------------------------------------------------
\* Present thread, one frame: prepare, the physical Present, retire.
Presenting == presented + 1

\* The bridge submits D3D11's work, and its queue waits for it before the list.
Upload == /\ present.at = "idle" /\ presented < rendered
          /\ flushed' = Len(signals)

\* rsf_native_fg_prepare: no provider, or something about the frame does not match
PresentUntagged ==
    /\ Upload
    /\ present' = [Waiting EXCEPT !.at = IF provider THEN "retire" ELSE "boundary"]
    /\ UNCHANGED <<slots, renderVars, presented, provider, generation, serial, fence, signals,
                   restores, queueVars, vendorVars, state>>

\* The surfaces go to the read state whether or not the provider takes the tags.
PresentTagged ==
    LET i == SlotOf(Presenting) IN
    /\ Upload /\ provider
    /\ slots[i].source = Presenting /\ slots[i].prepared
    /\ queue' = Append(queue, [kind |-> "read", slot |-> i, after |-> serial, signal |-> 0])
    /\ \E ok \in BOOLEAN :
          /\ slots' = [slots EXCEPT ![i].prepared = ok]
          /\ vendorIssued' = IF ok THEN vendorIssued + 1 ELSE vendorIssued
          /\ vendorRead' = IF ok THEN [vendorRead EXCEPT ![i] = vendorIssued'] ELSE vendorRead
    /\ present' = [at |-> "retire", tagged |-> i, join |-> 0]
    /\ UNCHANGED <<renderVars, presented, provider, generation, serial, fence, signals,
                   restores, joinIssued, joinDone, vendorDone, state>>

\* rsf_native_fg_retire up to rsf_d3d11_present_retire: on the provider queue, wait
\* for the vendor, restore the tagged surfaces, signal.  Or nothing is queued.
Retire ==
    /\ present.at = "retire"
    /\ ~(Untagged /\ ~Held)
    /\ \/ /\ joinIssued' = joinIssued + 1
          /\ queue' = Append(queue, [kind |-> "join", slot |-> present.tagged,
                                     after |-> vendorIssued, signal |-> joinIssued'])
          /\ present' = [present EXCEPT !.at = "record", !.join = joinIssued']
       \/ /\ present' = [present EXCEPT !.at = "record"]
          /\ UNCHANGED <<queue, joinIssued>>
    /\ UNCHANGED <<slots, renderVars, presented, provider, generation, copyVars, joinDone,
                   vendorVars, state>>

NothingToRetire ==
    /\ present.at = "retire" /\ Untagged /\ ~Held
    /\ present' = [present EXCEPT !.at = "boundary"]
    /\ UNCHANGED <<slots, renderVars, presented, provider, generation, copyVars, queueVars,
                   vendorVars, state>>

\* The rest of rsf_native_fg_retire, under vendor_guard: a join also releases the
\* slots held by failed retirements, whose surfaces stay in the read state.
RecordAs(recorded) ==
    /\ present.at = "record"
    /\ slots' = recorded
    /\ present' = [Waiting EXCEPT !.at = "boundary"]
    /\ UNCHANGED <<renderVars, presented, provider, generation, copyVars, queueVars,
                   vendorVars, state>>

AfterJoin(i) ==
    IF i = present.tagged THEN [Joined(slots[i], present.join) EXCEPT !.readState = FALSE]
    ELSE IF slots[i].unknown THEN Joined(slots[i], present.join) ELSE slots[i]

AfterFailure(i) == IF i = present.tagged THEN Unjoined(slots[i]) ELSE slots[i]

RecordAll == [i \in SlotIndex |-> IF present.join # 0 THEN AfterJoin(i) ELSE AfterFailure(i)]

\* Mutated form: the join is taken for the restore of every slot it releases.
RecordRestored == RecordAs([i \in SlotIndex |->
    [RecordAll[i] EXCEPT !.readState = @ /\ present.join = 0]])

Record == RecordAs(RecordAll)

\* The Present is over; the bridge may switch the provider now, once it has drained
\* both queues and the vendor.
EndPresent ==
    /\ present.at = "boundary"
    /\ present' = Waiting /\ presented' = Presenting
    /\ \/ UNCHANGED <<provider, generation>>
       \/ /\ queue = <<>> /\ vendorDone = vendorIssued
          /\ generation < MaxGeneration /\ generation' = generation + 1
          /\ provider' \in BOOLEAN
    /\ UNCHANGED <<slots, renderVars, copyVars, queueVars, vendorVars, state>>

-------------------------------------------------------------------------------
\* The GPU.  A signal sets the fence, to a lower value if that is its value, and the
\* event for every registered value it reaches.
SetFence(value) ==
    LET reached == {v \in event.fence : v <= value} IN
    /\ fence' = value
    /\ event' = [event EXCEPT !.set = @ \/ reached # {}, !.fence = @ \ reached]

D3D11Signals ==
    /\ flushed > 0
    /\ SetFence(Head(signals)) /\ signals' = Tail(signals) /\ flushed' = flushed - 1
    /\ UNCHANGED <<slots, render, rendered, early, abandoned, presentVars, serial, restores,
                   queueVars, vendorVars, state>>

\* A restoring list, back to COMMON, and its signal, which passes the ones D3D11 has
\* queued and not yet reached.
InteropRestores ==
    /\ restores # <<>> /\ restores' = Tail(restores)
    /\ state' = [state EXCEPT ![Head(restores).slot] = "common"]
    /\ IF Head(restores).signal = 0 THEN UNCHANGED <<fence, event>> ELSE SetFence(Head(restores).signal)
    /\ UNCHANGED <<slots, render, rendered, early, abandoned, presentVars, serial, signals, flushed,
                   queueVars, vendorVars>>

\* The present list: after the D3D11 work it uploads, into the read state.
StartReads ==
    /\ queue # <<>> /\ Head(queue).kind = "read"
    /\ \A k \in DOMAIN signals : signals[k] > Head(queue).after
    /\ state' = [state EXCEPT ![Head(queue).slot] = "read"]
    /\ queue' = Tail(queue)
    /\ UNCHANGED <<slots, renderVars, presentVars, copyVars, joinIssued, joinDone, vendorVars>>

\* A retirement: after the vendor's reads, back to COMMON, and the private signal.
Join ==
    /\ queue # <<>> /\ Head(queue).kind = "join" /\ vendorDone >= Head(queue).after
    /\ state' = [i \in SlotIndex |-> IF i = Head(queue).slot THEN "common" ELSE state[i]]
    /\ joinDone' = Head(queue).signal
    /\ LET reached == {v \in event.join : v <= joinDone'} IN
       event' = [event EXCEPT !.set = @ \/ reached # {}, !.join = @ \ reached]
    /\ queue' = Tail(queue)
    /\ UNCHANGED <<slots, render, rendered, early, abandoned, presentVars, copyVars, joinIssued, vendorVars>>

\* The vendor finishes with a frame whose list has run.
VendorFinishes ==
    /\ vendorDone < vendorIssued
    /\ \A k \in DOMAIN queue : queue[k].kind = "read" => vendorRead[queue[k].slot] # vendorDone + 1
    /\ vendorDone' = vendorDone + 1
    /\ UNCHANGED <<slots, renderVars, presentVars, copyVars, queueVars, vendorIssued, vendorRead, state>>

Next == \/ Ask \/ Pass \/ Block \/ Wake \/ TimeOut \/ Restore \/ Refused \/ Copy \/ Final \/ EndRender
        \/ PresentUntagged \/ PresentTagged \/ Retire \/ NothingToRetire \/ Record \/ EndPresent
        \/ D3D11Signals \/ InteropRestores \/ StartReads \/ Join \/ VendorFinishes

Spec == Init /\ [][Next]_vars

-------------------------------------------------------------------------------
TypeOK ==
    /\ slots \in [SlotIndex -> Slot]
    /\ render \in [at : {"idle", "restore", "copy"} \cup Waits, join : Nat, readState : BOOLEAN,
                   blocked : BOOLEAN]
    /\ rendered \in 0 .. MaxId
    /\ event \in [set : BOOLEAN, fence : SUBSET Nat, join : SUBSET Nat]
    /\ early \in BOOLEAN /\ abandoned \subseteq SlotIndex
    /\ present \in [at : {"idle", "retire", "record", "boundary"}, tagged : 0 .. Slots, join : Nat]
    /\ presented \in 0 .. MaxId
    /\ provider \in BOOLEAN /\ generation \in Nat
    /\ serial \in Nat /\ fence \in Nat /\ signals \in Seq(Nat) /\ flushed \in 0 .. Len(signals)
    /\ restores \in Seq([slot : SlotIndex, signal : Nat])
    /\ queue \in Seq([kind : {"read", "join"}, slot : 0 .. Slots, after : Nat, signal : Nat])
    /\ joinIssued \in Nat /\ joinDone \in Nat
    /\ vendorIssued \in Nat /\ vendorDone \in Nat
    /\ vendorRead \in [SlotIndex -> Nat]
    /\ state \in [SlotIndex -> {"common", "read"}]

\* Nothing on D3D12 uses the slot's surfaces, now or in what is already queued.
Quiet(i) == /\ vendorRead[i] <= vendorDone
            /\ \A k \in DOMAIN queue : queue[k].slot # i
            /\ \A k \in DOMAIN restores : restores[k].slot # i

\* D3D11 writes a slot only when the vendor has finished with it and its surfaces
\* are back in COMMON: whatever retirement or restore failed, whichever later join or
\* switch released the slot, and wherever the present thread is meanwhile - as long
\* as no wait was ended by the event of one given up before it.
WritesAreAlone ==
    ~early /\ (render.at = "copy" \/ MayCopyHudless) => Quiet(Current) /\ state[Current] = "common"

\* read_state is the truth: a barrier that goes to or from the read state finds the
\* surfaces in the state it names, except where a restore was given up once its list
\* was queued.
BarriersMatch ==
    /\ render.at = "restore" /\ Current \notin abandoned => Quiet(Current) /\ state[Current] = "read"
    /\ restores # <<>> /\ Head(restores).slot \notin abandoned => state[Head(restores).slot] = "read"
    /\ queue # <<>> /\ Head(queue).slot # NoSlot =>
          state[Head(queue).slot] = (IF Head(queue).kind = "read" THEN "common" ELSE "read")

\* The ring's bookkeeping across failed retirements, late joins, failed restores and
\* refused frames: no D3D12 list names a state the surfaces are not in.
SlotsInv == TypeOK /\ (~early => BarriersMatch)

\* The render thread does not wait for what it keeps back itself: D3D11's signal for
\* the slot has been flushed, and the join it waits for is queued or done.
SubmittedBeforeWaiting ==
    render.at \in Waits =>
        /\ \A k \in DOMAIN signals : signals[k] = slots[Current].complete => k <= flushed
        /\ joinDone >= render.join \/ \E k \in DOMAIN queue : queue[k].signal >= render.join

\* "Hold the slot rather than wait on a value that never arrives": every wait of the
\* render thread is for a value that is reached or on its way to a running queue; the
\* value of a restore that was given up is not spoken of.
WaitsEnd ==
    render.at \in Waits /\ Current \notin abandoned =>
        /\ \/ fence >= slots[Current].complete
           \/ \E k \in 1 .. flushed : signals[k] >= slots[Current].complete
           \/ \E k \in DOMAIN restores : restores[k].signal >= slots[Current].complete
        /\ joinDone >= render.join \/ \E k \in DOMAIN queue : queue[k].signal >= render.join
===============================================================================
