-------------------------- MODULE NativeFgSlots_proofs --------------------------
(***************************************************************************)
(* Theorems about the ring of shared inputs, for any number of slots, any  *)
(* lead of the renderer, and any number of failed retirements and provider *)
(* switches: D3D11 writes a slot alone, every barrier names the state the  *)
(* surfaces are in, and the render thread waits only for what has been     *)
(* submitted.                                                              *)
(***************************************************************************)
EXTENDS NativeFgSlots, Integers, TLAPS

-------------------------------------------------------------------------------
\* The ring.

\* Division with remainder.
LEMMA DivMod == \A a \in Nat : /\ a = Slots * (a \div Slots) + (a % Slots)
                               /\ a % Slots \in 0 .. (Slots - 1) /\ a \div Slots \in Nat
  BY SlotsAssumption

\* Two multiples of the ring's length differ by the length.
LEMMA MultiplesApart == ASSUME NEW x \in Int, NEW y \in Int, x < y PROVE Slots * y >= Slots * x + Slots
  BY SlotsAssumption

\* Their order is the order of their factors.
LEMMA MultiplesOrdered == ASSUME NEW x \in Int, NEW y \in Int, Slots * x < Slots * y PROVE x < y
  BY SlotsAssumption

\* Two frames less than a ring apart have slots of their own.
LEMMA SlotsDiffer ==
  ASSUME NEW a \in Nat, NEW b \in Nat, a < b, b < a + Slots
  PROVE  SlotOf(a) # SlotOf(b)
  <1> SUFFICES ASSUME a % Slots = b % Slots PROVE FALSE
    BY DEF SlotOf
  <1> DEFINE x == a \div Slots
             y == b \div Slots
  <1>1. a = Slots * x + (a % Slots) /\ b = Slots * y + (b % Slots) /\ x \in Nat /\ y \in Nat
    BY DivMod
  <1>2. a % Slots \in Int
    BY DivMod
  <1> HIDE DEF x, y
  <1>3. Slots * x \in Int /\ Slots * y \in Int
    BY <1>1, SlotsAssumption
  <1>4. Slots * x < Slots * y /\ Slots * y < Slots * x + Slots
    BY <1>1, <1>2, <1>3, SlotsAssumption
  <1>5. x < y
    BY <1>1, <1>4, MultiplesOrdered
  <1> QED BY <1>1, <1>3, <1>4, <1>5, MultiplesApart, SlotsAssumption

\* Every frame has a slot.
LEMMA SlotInRing == \A a \in Nat : SlotOf(a) \in SlotIndex /\ SlotOf(a) # NoSlot
  BY DivMod, SlotsAssumption DEF SlotOf, SlotIndex, NoSlot

-------------------------------------------------------------------------------
\* The provider queue.

Entry == [kind : {"read", "join"}, slot : 0 .. Slots, after : Nat, signal : Nat]

Unqueued(q, i) == \A k \in 1..Len(q) : q[k].slot # i
IsQueued(q, kind, i) == \E k \in 1..Len(q) : q[k].kind = kind /\ q[k].slot = i

\* Once the join of value v has run, nothing on D3D12 uses slot i: `read' is the vendor's value
\* for it, and `done' what the vendor has reached.
Covers(q, read, done, i, v) ==
    /\ \A k \in 1..Len(q) : q[k].slot = i => \E m \in k..Len(q) : q[m].kind = "join" /\ q[m].signal <= v
    /\ read <= done \/ \E m \in 1..Len(q) : q[m].kind = "join" /\ q[m].signal <= v /\ q[m].after >= read

\* The state that the queued work leaves a slot's surfaces in, from state s.
Outcome(q, s, i) == IF IsQueued(q, "join", i) THEN "common" ELSE IF IsQueued(q, "read", i) THEN "read" ELSE s
StateFor(readState) == IF readState THEN "read" ELSE "common"

\* A slot is read, then joined.
OneRound(q) ==
    \A k, m \in 1..Len(q) : k < m /\ q[k].slot = q[m].slot /\ q[k].slot # NoSlot
                                => q[k].kind = "read" /\ q[m].kind = "join"

\* Joins signal in order, all of them past `done'.
InOrder(q, done) ==
    /\ \A k \in 1..Len(q) : q[k].kind = "join" => done < q[k].signal
    /\ \A k, m \in 1..Len(q) : k < m /\ q[k].kind = "join" /\ q[m].kind = "join" => q[k].signal < q[m].signal

\* Every barrier finds the state that the ones before it leave.
Matches(q, st) ==
    \A k \in 1..Len(q) :
        /\ q[k].kind = "read" => q[k].slot # NoSlot /\ st[q[k].slot] = "common"
        /\ q[k].kind = "join" /\ q[k].slot # NoSlot =>
              \/ st[q[k].slot] = "read"
              \/ \E l \in 1..(k - 1) : q[l].kind = "read" /\ q[l].slot = q[k].slot

\* An entry at the end.
LEMMA Appended ==
  ASSUME NEW q \in Seq(Entry), NEW e \in Entry
  PROVE  /\ Append(q, e) \in Seq(Entry) /\ Len(Append(q, e)) = Len(q) + 1
         /\ \A k \in 1..Len(q) : Append(q, e)[k] = q[k]
         /\ Append(q, e)[Len(q) + 1] = e
  OBVIOUS

\* The first entry leaves.
LEMMA Popped ==
  ASSUME NEW q \in Seq(Entry), q # <<>>
  PROVE  /\ Tail(q) \in Seq(Entry) /\ Len(q) > 0 /\ Len(Tail(q)) = Len(q) - 1
         /\ Head(q) = q[1] /\ Head(q) \in Entry
         /\ \A k \in 1..Len(Tail(q)) : Tail(q)[k] = q[k + 1]
  OBVIOUS

\* Another slot's entry changes nothing for this one.
LEMMA AppendedElsewhere ==
  ASSUME NEW q \in Seq(Entry), NEW e \in Entry, NEW i \in SlotIndex, e.slot # i
  PROVE  /\ \A kind : IsQueued(Append(q, e), kind, i) <=> IsQueued(q, kind, i)
         /\ \A s : Outcome(Append(q, e), s, i) = Outcome(q, s, i)
         /\ \A read, done, v : Covers(q, read, done, i, v) => Covers(Append(q, e), read, done, i, v)
         /\ Unqueued(q, i) => Unqueued(Append(q, e), i)
  <1>0. Unqueued(q, i) => Unqueued(Append(q, e), i)
    BY Appended DEF Unqueued
  <1>1. \A kind : IsQueued(Append(q, e), kind, i) <=> IsQueued(q, kind, i)
    BY Appended DEF IsQueued
  <1>2. \A read, done, v : Covers(q, read, done, i, v) => Covers(Append(q, e), read, done, i, v)
    <2>1. SUFFICES ASSUME NEW read, NEW done, NEW v, Covers(q, read, done, i, v)
                   PROVE  Covers(Append(q, e), read, done, i, v)
      OBVIOUS
    <2>2. \A k \in 1..Len(q) : q[k].slot = i => \E m \in k..Len(q) : q[m].kind = "join" /\ q[m].signal <= v
      BY <2>1 DEF Covers
    <2>3. \A k \in 1..Len(Append(q, e)) : Append(q, e)[k].slot = i =>
              \E m \in k..Len(Append(q, e)) : Append(q, e)[m].kind = "join" /\ Append(q, e)[m].signal <= v
      BY <2>2, Appended
    <2>4. read <= done \/ \E m \in 1..Len(Append(q, e)) : /\ Append(q, e)[m].kind = "join"
                                                          /\ Append(q, e)[m].signal <= v
                                                          /\ Append(q, e)[m].after >= read
      BY <2>1, Appended DEF Covers
    <2> QED BY <2>3, <2>4 DEF Covers
  <1> QED BY <1>0, <1>1, <1>2 DEF Outcome

\* A join at the end covers every slot with its signal.
LEMMA JoinCovers ==
  ASSUME NEW q \in Seq(Entry), NEW e \in Entry, e.kind = "join", NEW read \in Nat, e.after >= read, NEW done, NEW i
  PROVE  Covers(Append(q, e), read, done, i, e.signal)
  <1>1. e.signal <= e.signal
    BY DEF Entry
  <1> QED BY <1>1, Appended DEF Covers

\* A slot that nothing uses is covered.
LEMMA QuietCovers ==
  ASSUME NEW q \in Seq(Entry), NEW i, Unqueued(q, i),
         NEW read \in Nat, NEW done \in Nat, read <= done, NEW v
  PROVE  Covers(q, read, done, i, v)
  BY DEF Covers, Unqueued

\* It is in the state it is left in.
LEMMA UnqueuedOutcome ==
  ASSUME NEW q, NEW i, Unqueued(q, i), NEW s
  PROVE  Outcome(q, s, i) = s /\ ~IsQueued(q, "read", i) /\ ~IsQueued(q, "join", i)
  BY DEF Unqueued, Outcome, IsQueued

\* When the join has run, nothing uses the slot.
LEMMA CoveredIsQuiet ==
  ASSUME NEW q \in Seq(Entry), NEW reached \in Nat, InOrder(q, reached), NEW read, NEW done, NEW i, NEW v \in Nat,
         v <= reached, Covers(q, read, done, i, v)
  PROVE  Unqueued(q, i) /\ read <= done
  <1>1. \A k \in 1..Len(q) : q[k] \in Entry
    OBVIOUS
  <1>2. \A k \in 1..Len(q) : q[k].signal \in Nat
    BY <1>1 DEF Entry
  <1>3. \A k \in 1..Len(q) : q[k].kind = "join" => ~(q[k].signal <= v)
    BY <1>2 DEF InOrder
  <1>4. Unqueued(q, i)
    BY <1>3 DEF Covers, Unqueued
  <1> QED BY <1>3, <1>4 DEF Covers

\* The vendor gets on.
LEMMA CoversOn ==
  ASSUME NEW q, NEW read \in Nat, NEW done \in Nat, NEW i, NEW v, Covers(q, read, done, i, v)
  PROVE  Covers(q, read, done + 1, i, v)
  BY DEF Covers

\* The first entry runs: a join only when the vendor has reached what it waits for.
LEMMA CoversPopped ==
  ASSUME NEW q \in Seq(Entry), q # <<>>, NEW read \in Nat, NEW done \in Nat,
         Head(q).kind = "join" => done >= Head(q).after, NEW i, NEW v, Covers(q, read, done, i, v)
  PROVE  Covers(Tail(q), read, done, i, v)
  <1>1. \A k \in 1..Len(Tail(q)) : Tail(q)[k].slot = i =>
            \E m \in k..Len(Tail(q)) : Tail(q)[m].kind = "join" /\ Tail(q)[m].signal <= v
    <2>1. SUFFICES ASSUME NEW k \in 1..Len(Tail(q)), Tail(q)[k].slot = i
                   PROVE  \E m \in k..Len(Tail(q)) : Tail(q)[m].kind = "join" /\ Tail(q)[m].signal <= v
      OBVIOUS
    <2>2. k + 1 \in 1..Len(q) /\ q[k + 1].slot = i
      BY <2>1, Popped
    <2>3. PICK m \in (k + 1)..Len(q) : q[m].kind = "join" /\ q[m].signal <= v
      BY <2>2 DEF Covers
    <2>4. m - 1 \in k..Len(Tail(q)) /\ Tail(q)[m - 1] = q[m]
      BY <2>1, <2>3, Popped
    <2> QED BY <2>3, <2>4
  <1>2. read <= done \/ \E m \in 1..Len(Tail(q)) : /\ Tail(q)[m].kind = "join" /\ Tail(q)[m].signal <= v
                                                   /\ Tail(q)[m].after >= read
    <2>1. CASE read <= done
      BY <2>1
    <2>2. ASSUME NEW m \in 1..Len(q), q[m].kind = "join", q[m].signal <= v, q[m].after >= read
          PROVE  read <= done \/ \E n \in 1..Len(Tail(q)) : /\ Tail(q)[n].kind = "join" /\ Tail(q)[n].signal <= v
                                                            /\ Tail(q)[n].after >= read
      <3>1. CASE m = 1
        <4>1. q[1].after \in Nat /\ done >= q[1].after
          BY <2>2, <3>1, Popped DEF Entry
        <4> QED BY <2>2, <3>1, <4>1
      <3>2. CASE m # 1
        <4>1. m - 1 \in 1..Len(Tail(q)) /\ Tail(q)[m - 1] = q[m]
          BY <2>2, <3>2, Popped
        <4> QED BY <2>2, <4>1
      <3> QED BY <3>1, <3>2
    <2> QED BY <2>1, <2>2 DEF Covers
  <1> QED BY <1>1, <1>2 DEF Covers

\* It leaves the state it names, and what follows leaves the same in the end.
LEMMA OutcomePopped ==
  ASSUME NEW q \in Seq(Entry), q # <<>>, OneRound(q), NEW i \in SlotIndex, NEW s, NEW t,
         Head(q).slot # i => t = s,
         Head(q).slot = i => t = StateFor(Head(q).kind = "read")
  PROVE  /\ Outcome(Tail(q), t, i) = Outcome(q, s, i)
         /\ \A kind : IsQueued(Tail(q), kind, i) => IsQueued(q, kind, i)
         /\ Unqueued(q, i) => Unqueued(Tail(q), i)
  <1>0. Unqueued(q, i) => Unqueued(Tail(q), i)
    BY Popped DEF Unqueued
  <1>1. \A kind : IsQueued(Tail(q), kind, i) => IsQueued(q, kind, i)
    BY Popped DEF IsQueued
  <1>2. \A kind : IsQueued(q, kind, i) => IsQueued(Tail(q), kind, i) \/ (Head(q).kind = kind /\ Head(q).slot = i)
    <2>1. SUFFICES ASSUME NEW kind, NEW k \in 1..Len(q), q[k].kind = kind, q[k].slot = i
                   PROVE  IsQueued(Tail(q), kind, i) \/ (Head(q).kind = kind /\ Head(q).slot = i)
      BY DEF IsQueued
    <2>2. CASE k = 1
      BY <2>1, <2>2, Popped
    <2>3. CASE k # 1
      <3>1. k - 1 \in 1..Len(Tail(q)) /\ Tail(q)[k - 1] = q[k]
        BY <2>1, <2>3, Popped
      <3> QED BY <2>1, <3>1 DEF IsQueued
    <2> QED BY <2>2, <2>3
  <1>3. Head(q).kind \in {"read", "join"}
    BY Popped DEF Entry
  <1>4. ASSUME Head(q).slot # i PROVE Outcome(Tail(q), t, i) = Outcome(q, s, i)
    <2>1. (IsQueued(Tail(q), "join", i) <=> IsQueued(q, "join", i)) /\ (IsQueued(Tail(q), "read", i) <=> IsQueued(q, "read", i))
      BY <1>1, <1>2, <1>4
    <2> QED BY <1>4, <2>1 DEF Outcome
  <1>5. ASSUME Head(q).slot = i /\ Head(q).kind = "read" PROVE Outcome(Tail(q), t, i) = Outcome(q, s, i)
    <2>1. (IsQueued(Tail(q), "join", i) <=> IsQueued(q, "join", i)) /\ t = "read"
      BY <1>1, <1>2, <1>5 DEF StateFor
    <2>2. IsQueued(q, "read", i)
      BY <1>5, Popped DEF IsQueued
    <2> QED BY <2>1, <2>2 DEF Outcome
  <1>6. ASSUME Head(q).slot = i /\ Head(q).kind = "join" PROVE Outcome(Tail(q), t, i) = Outcome(q, s, i)
    <2>1. \A kind : ~IsQueued(Tail(q), kind, i)
      <3>1. SUFFICES ASSUME NEW k \in 1..Len(Tail(q)), Tail(q)[k].slot = i PROVE FALSE
        BY DEF IsQueued
      <3>2. k + 1 \in 1..Len(q) /\ q[k + 1].slot = i /\ 1 \in 1..Len(q) /\ 1 < k + 1 /\ q[1] = Head(q)
        BY <3>1, Popped
      <3>3. i # NoSlot
        BY SlotsAssumption DEF SlotIndex, NoSlot
      <3> QED BY <1>6, <3>2, <3>3 DEF OneRound
    <2>2. IsQueued(q, "join", i)
      BY <1>6, Popped DEF IsQueued
    <2>3. t = "common"
      BY <1>6 DEF StateFor
    <2> QED BY <2>1, <2>2, <2>3 DEF Outcome
  <1>7. Outcome(Tail(q), t, i) = Outcome(q, s, i)
    BY <1>3, <1>4, <1>5, <1>6
  <1> QED BY <1>0, <1>1, <1>7

-------------------------------------------------------------------------------
\* The inductive invariants.  BaseInv holds whatever ends a wait; RingInv while no wait was ended by
\* the event of an earlier one.

\* The renderer is at most Ahead frames before the last Present; what the present thread has tagged
\* is the slot of the frame it presents.
ThreadInv ==
    /\ presented <= rendered /\ (present.at # "idle" => presented < rendered)
    /\ render.at # "idle" => rendered < MaxId /\ rendered < presented + Ahead
    /\ present.tagged # NoSlot =>
          /\ present.at \in {"retire", "record"} /\ present.tagged = SlotOf(Presenting)
          /\ slots[present.tagged].source = Presenting
    /\ present.at # "record" => present.join = 0
    /\ present.join <= joinIssued

\* What the render thread read under the lock still stands in the current slot.
WaitInv ==
    /\ render.at # "idle" => ~slots[Current].unknown /\ render.join = slots[Current].join
    /\ render.at \notin {"idle", "copy"} => render.readState = slots[Current].readState
    /\ render.at \in {"restore", "restoring"} => render.readState
    /\ render.at = "copy" => ~slots[Current].readState

\* D3D11's signals are queued in the order of their values; nothing passes the last one issued.
SignalsRise ==
    /\ \A k, m \in 1..Len(signals) : k < m => signals[k] < signals[m]
    /\ \A k \in 1..Len(signals) : signals[k] <= serial
    /\ fence <= serial
    /\ \A k \in 1..Len(restores) : restores[k].signal <= serial
    /\ \A i \in SlotIndex : slots[i].complete <= serial

\* The restore that is waited for has the last value issued, and its list is the last one queued.
RestoreLast ==
    render.at = "restoring" =>
        /\ slots[Current].complete = serial /\ (\A k \in 1..Len(signals) : signals[k] < serial)
        /\ Len(restores) = 0 \/ (fence < serial /\ \A k \in 1..(Len(restores) - 1) : restores[k].signal < serial)

\* The joins on the provider queue.
JoinsInv == /\ joinDone <= joinIssued /\ InOrder(queue, joinDone)
            /\ \A k \in 1..Len(queue) : queue[k].signal <= joinIssued

SlotBooks(i) ==
    /\ slots[i].source <= rendered + 1 /\ slots[i].join <= joinIssued
    /\ slots[i].unknown => slots[i].join = 0 /\ slots[i].heldIn <= generation

BaseInv == /\ TypeOK /\ ThreadInv /\ WaitInv /\ SignalsRise /\ RestoreLast /\ JoinsInv
           /\ \A i \in SlotIndex : SlotBooks(i)

\* The provider queue and the vendor behind it.
QueueInv ==
    /\ vendorDone <= vendorIssued /\ \A i \in SlotIndex : vendorRead[i] <= vendorIssued
    /\ OneRound(queue) /\ Matches(queue, state)

\* A retirement that was queued covers every slot.
RecordInv == present.join # 0 => \A i \in SlotIndex : Covers(queue, vendorRead[i], vendorDone, i, present.join)

\* What the render thread has waited for is done with.
RenderInv == render.at \in {"restore", "restoring", "copy"} =>
                 Unqueued(queue, Current) /\ vendorRead[Current] <= vendorDone

\* A slot whose frame is yet to be presented: D3D12 knows nothing of it.
Ready(i) == slots[i].prepared /\ presented < slots[i].source /\ (present.at # "idle" => slots[i].source # Presenting)

\* A restore of the slot was queued, and read_state is not cleared yet.
Given(i) == i \in abandoned \/ (render.at = "restoring" /\ i = Current)
Restored(r, i) == \E k \in 1..Len(r) : r[k].slot = i

SlotGiven(i) ==
    /\ Restored(restores, i) => Given(i)
    /\ Given(i) => /\ Unqueued(queue, i) /\ vendorRead[i] <= vendorDone
                   /\ slots[i].readState /\ ~slots[i].unknown /\ present.tagged # i
                   /\ state[i] = "common" \/ Restored(restores, i)
    /\ Restored(restores, i) /\ i \notin abandoned =>
          /\ state[i] = "read"
          /\ \A k, m \in 1..Len(restores) : restores[k].slot = i /\ restores[m].slot = i => k = m

\* What a slot's fields say of it while no retirement is under way for it, and while one is.
SlotTruth(i) ==
    /\ present.tagged # i =>
          /\ ~Given(i) => Outcome(queue, state[i], i) = StateFor(slots[i].readState)
          /\ ~slots[i].unknown \/ slots[i].heldIn # generation =>
                Covers(queue, vendorRead[i], vendorDone, i, slots[i].join)
    /\ present.tagged = i /\ present.at = "retire" =>
          ~IsQueued(queue, "join", i) /\ Outcome(queue, state[i], i) = "read"
    /\ present.tagged = i /\ present.at = "record" =>
          Outcome(queue, state[i], i) = StateFor(present.join = 0)

SlotReady(i) ==
    Ready(i) => /\ Unqueued(queue, i) /\ vendorRead[i] <= vendorDone
                /\ state[i] = "common" /\ ~slots[i].readState /\ ~slots[i].unknown

RingInv == /\ BaseInv /\ QueueInv /\ RecordInv /\ RenderInv
           /\ \A i \in SlotIndex : SlotGiven(i) /\ SlotTruth(i) /\ SlotReady(i)

-------------------------------------------------------------------------------
\* Types.

\* Where the current and the presented frame's slots are.
LEMMA CurrentSlot ==
  ASSUME TypeOK
  PROVE  Current \in SlotIndex /\ Current # NoSlot /\ SlotOf(Presenting) \in SlotIndex /\ SlotOf(Presenting) # NoSlot
  <1>1. rendered + 1 \in Nat /\ presented + 1 \in Nat
    BY DEF TypeOK
  <1> QED BY <1>1, SlotInRing DEF Current, Presenting

\* The slot being rendered is never the one being presented.
LEMMA CurrentApart ==
  ASSUME TypeOK, presented < rendered, rendered < presented + Ahead
  PROVE  Current # SlotOf(Presenting)
  <1>1. presented + 1 \in Nat /\ rendered + 1 \in Nat /\ Ahead \in Int /\ Ahead <= Slots /\ presented \in Int /\ rendered \in Int
    BY SlotsAssumption, AheadAssumption DEF TypeOK
  <1> QED BY <1>1, SlotsDiffer, SlotsAssumption DEF Current, Presenting

\* Nor is it the tagged one.
LEMMA TaggedApart ==
  ASSUME TypeOK, ThreadInv, render.at # "idle" \/ MayCopyHudless
  PROVE  present.tagged # Current /\ (present.at # "idle" => Current # SlotOf(Presenting))
  <1>1. rendered < presented + Ahead
    BY DEF ThreadInv, MayCopyHudless
  <1>2. present.at # "idle" => Current # SlotOf(Presenting)
    BY <1>1, CurrentApart DEF ThreadInv
  <1> QED BY <1>2, CurrentSlot DEF ThreadInv

\* The initial types.
LEMMA TypesStart == Init => TypeOK
  <1> SUFFICES ASSUME Init PROVE TypeOK
    OBVIOUS
  <1>1. Slots \in Int /\ MaxId \in Nat /\ NoSlot \in 0 .. Slots
    BY SlotsAssumption, BoundsAssumption DEF NoSlot
  <1>2. slots \in [SlotIndex -> Slot]
    BY DEF Init, Slot, EmptySlot
  <1>3. present \in [at : {"idle", "retire", "record", "boundary"}, tagged : 0 .. Slots, join : Nat]
    BY <1>1 DEF Init, Waiting
  <1>4. event \in [set : BOOLEAN, fence : SUBSET Nat, join : SUBSET Nat] /\ early \in BOOLEAN /\ abandoned \subseteq SlotIndex
    BY DEF Init
  <1>5. restores \in Seq([slot : SlotIndex, signal : Nat])
    BY DEF Init
  <1> QED BY <1>1, <1>2, <1>3, <1>4, <1>5 DEF Init, TypeOK, Idle

RenderType == [at : {"idle", "restore", "copy"} \cup Waits, join : Nat, readState : BOOLEAN, blocked : BOOLEAN]
RestoreType == [slot : SlotIndex, signal : Nat]

SlotTypes == slots \in [SlotIndex -> Slot]
QueueTypes == queue \in Seq(Entry)
WaitTypes ==
    /\ render \in RenderType
    /\ event \in [set : BOOLEAN, fence : SUBSET Nat, join : SUBSET Nat]
    /\ early \in BOOLEAN /\ abandoned \subseteq SlotIndex
ThreadTypes ==
    /\ rendered \in 0 .. MaxId
    /\ present \in [at : {"idle", "retire", "record", "boundary"}, tagged : 0 .. Slots, join : Nat]
    /\ presented \in 0 .. MaxId
    /\ provider \in BOOLEAN /\ generation \in Nat
FenceTypes ==
    /\ serial \in Nat /\ fence \in Nat /\ signals \in Seq(Nat) /\ flushed \in 0 .. Len(signals)
    /\ restores \in Seq(RestoreType)
    /\ joinIssued \in Nat /\ joinDone \in Nat
    /\ vendorIssued \in Nat /\ vendorDone \in Nat
    /\ vendorRead \in [SlotIndex -> Nat]
    /\ state \in [SlotIndex -> {"common", "read"}]

\* The type invariant in parts.
LEMMA TypeParts == TypeOK <=> SlotTypes /\ QueueTypes /\ WaitTypes /\ ThreadTypes /\ FenceTypes
  BY DEF TypeOK, SlotTypes, QueueTypes, WaitTypes, ThreadTypes, FenceTypes, Entry, RenderType, RestoreType

\* The render thread moves on in resources() and writes neither a fence nor a queue.
Moves == Pass \/ Block \/ Wake \/ TimeOut \/ Refused

\* The steps.
LEMMA Steps ==
  ASSUME [Next]_vars
  PROVE  \/ Ask \/ Moves \/ Restore \/ Copy \/ Final \/ EndRender
         \/ PresentUntagged \/ PresentTagged \/ Retire \/ NothingToRetire \/ Record \/ EndPresent
         \/ D3D11Signals \/ InteropRestores \/ StartReads \/ Join \/ VendorFinishes \/ UNCHANGED vars
  BY DEF Next, Moves

\* What it leaves alone.
LEMMA MovesKeep ==
  ASSUME Moves
  PROVE  UNCHANGED <<rendered, present, presented, provider, generation, serial, fence, signals, flushed, restores,
                     queue, joinIssued, joinDone, vendorIssued, vendorDone, vendorRead, state>>
  <1>1. CASE Waited
    BY <1>1 DEF Waited, Rendering, presentVars, copyVars, queueVars, vendorVars
  <1>2. CASE Block \/ TimeOut \/ Refused
    BY <1>2 DEF Block, TimeOut, Refused, Rendering, presentVars, copyVars, queueVars, vendorVars
  <1> QED BY <1>1, <1>2 DEF Moves, Pass, Wake

Advances(next) == /\ render'.at = next /\ render'.join = render.join /\ render'.readState = render.readState
                  /\ render' \in RenderType

\* It waits or has waited, the restore of its slot is over, or it gives up.  Unless the event of an
\* earlier wait ended one, it has waited for the value.
LEMMA MoveCases ==
  ASSUME TypeOK, Moves
  PROVE  \/ /\ slots' = slots /\ abandoned' = abandoned
            /\ \/ Advances(render.at) /\ render.at \in Waits
               \/ render.at = "complete" /\ Advances("join")
               \/ /\ render.at = "join" /\ Advances(IF render.readState THEN "restore" ELSE "copy")
                  /\ early' \/ joinDone >= render.join
         \/ /\ render.at = "restoring" /\ Advances("copy")
            /\ slots' = [slots EXCEPT ![Current].readState = FALSE] /\ abandoned' = abandoned \ {Current}
            /\ early' \/ fence >= slots[Current].complete
         \/ /\ slots' = slots /\ render' = Idle
            /\ abandoned' = IF render.at = "restoring" THEN abandoned \cup {Current} ELSE abandoned
  <1>0. render \in RenderType /\ early \in BOOLEAN
    BY TypeParts DEF WaitTypes
  <1>1. ASSUME NEW next \in {"join", "restore", "copy"}, render' = [render EXCEPT !.at = next, !.blocked = FALSE]
        PROVE  Advances(next)
    BY <1>0, <1>1 DEF Advances, RenderType, Waits
  <1>2. CASE Waited /\ (early' \/ Arrived)
    <2>1. CASE render.at = "complete"
      <3>1. render' = [render EXCEPT !.at = "join", !.blocked = FALSE] /\ slots' = slots /\ abandoned' = abandoned
        BY <1>2, <2>1 DEF Waited, Rendering
      <3> QED BY <1>1, <2>1, <3>1
    <2>2. CASE render.at = "join"
      <3>1. /\ render' = [render EXCEPT !.at = IF render.readState THEN "restore" ELSE "copy", !.blocked = FALSE]
            /\ slots' = slots /\ abandoned' = abandoned /\ (early' \/ joinDone >= render.join)
        BY <1>2, <2>2 DEF Waited, Rendering, Arrived
      <3>2. (IF render.readState THEN "restore" ELSE "copy") \in {"join", "restore", "copy"}
        OBVIOUS
      <3>3. Advances(IF render.readState THEN "restore" ELSE "copy")
        BY <1>1, <3>1, <3>2
      <3> QED BY <2>2, <3>1, <3>3
    <2>3. CASE render.at = "restoring"
      <3>1. /\ render' = [render EXCEPT !.at = "copy", !.blocked = FALSE]
            /\ slots' = [slots EXCEPT ![Current].readState = FALSE] /\ abandoned' = abandoned \ {Current}
            /\ early' \/ fence >= slots[Current].complete
        BY <1>2, <2>3 DEF Waited, Arrived
      <3> QED BY <1>1, <2>3, <3>1
    <2> QED BY <1>2, <2>1, <2>2, <2>3 DEF Waited
  <1>3. CASE Block
    <2>1. render' = [render EXCEPT !.blocked = TRUE] /\ slots' = slots /\ abandoned' = abandoned /\ render.at \in Waits
      BY <1>3 DEF Block, Rendering
    <2> QED BY <1>0, <2>1 DEF Advances, RenderType, Waits
  <1>4. CASE TimeOut
    BY <1>4 DEF TimeOut, Rendering, Abandon
  <1>5. CASE Refused
    BY <1>5 DEF Refused, Rendering, waitVars
  <1>6. Pass \/ Wake => Waited /\ (early' \/ Arrived)
    BY DEF Pass, Wake
  <1> QED BY <1>2, <1>3, <1>4, <1>5, <1>6 DEF Moves

\* The queued restore: waited for, or given up because nothing is signalled.
LEMMA RestoreCases ==
  ASSUME TypeOK, Restore
  PROVE  /\ serial' = serial + 1 /\ slots' = [slots EXCEPT ![Current].complete = serial + 1]
         /\ UNCHANGED <<rendered, present, presented, provider, generation, fence, signals, flushed, early,
                        queue, joinIssued, joinDone, vendorIssued, vendorDone, vendorRead, state>>
         /\ render.at = "restore"
         /\ \/ /\ restores' = Append(restores, [slot |-> Current, signal |-> serial + 1])
               /\ Advances("restoring") /\ abandoned' = abandoned
            \/ /\ restores' = Append(restores, [slot |-> Current, signal |-> 0])
               /\ render' = Idle /\ abandoned' = abandoned \cup {Current}
  <1>1. render \in RenderType
    BY TypeParts DEF WaitTypes
  <1>2. render' = [render EXCEPT !.at = "restoring"] => Advances("restoring")
    BY <1>1 DEF Advances, RenderType, Waits
  <1> QED BY <1>2 DEF Restore, presentVars, queueVars, vendorVars

\* A copy: at the station, and idle after it.
LEMMA IdleTypes == Idle \in RenderType /\ Idle.at = "idle"
  BY DEF Idle, RenderType, Waits

\* Every step keeps the slots' fields.
LEMMA SlotTypesStep == TypeOK /\ [Next]_vars => SlotTypes'
  <1> SUFFICES ASSUME TypeOK, [Next]_vars PROVE SlotTypes'
    OBVIOUS
  <1>0. SlotTypes /\ ThreadTypes /\ Current \in SlotIndex /\ SlotOf(Presenting) \in SlotIndex /\ serial \in Nat /\ rendered \in Nat
    BY CurrentSlot, TypeParts DEF FenceTypes, ThreadTypes
  <1>1. CASE Ask
    <2>1. slots' = [slots EXCEPT ![Current].unknown = FALSE, ![Current].heldIn = 0]
      BY <1>1 DEF Ask, AskFor
    <2> QED BY <1>0, <2>1 DEF SlotTypes, Slot
  <1>2. CASE Restore
    <2>1. slots' = [slots EXCEPT ![Current].complete = serial + 1] /\ serial + 1 \in Nat
      BY <1>0, <1>2, RestoreCases
    <2> QED BY <1>0, <2>1 DEF SlotTypes, Slot
  <1>9. CASE Moves
    <2>1. slots' = slots \/ slots' = [slots EXCEPT ![Current].readState = FALSE]
      BY <1>9, MoveCases
    <2> QED BY <1>0, <2>1 DEF SlotTypes, Slot
  <1>3. CASE Copy
    <2>1. PICK ok \in BOOLEAN : Copied([slots[Current] EXCEPT !.source = rendered + 1, !.prepared = ok])
      BY <1>3 DEF Copy
    <2>2. slots' = [slots EXCEPT ![Current] = [[slots[Current] EXCEPT !.source = rendered + 1, !.prepared = ok]
                                                 EXCEPT !.complete = serial']]
          /\ serial' \in Nat /\ rendered + 1 \in Nat
      <3>1. serial' \in Nat /\ rendered + 1 \in Nat
        <4>1. serial' = serial + 1
          BY <2>1 DEF Copied
        <4> QED BY <1>0, <4>1
      <3>2. slots' = [slots EXCEPT ![Current] = [[slots[Current] EXCEPT !.source = rendered + 1, !.prepared = ok]
                                                   EXCEPT !.complete = serial']]
        BY <2>1, Zenon DEF Copied
      <3> QED BY <3>1, <3>2
    <2> QED BY <1>0, <2>2 DEF SlotTypes, Slot
  <1>4. CASE Final
    <2>1. slots' = [slots EXCEPT ![Current] = [slots[Current] EXCEPT !.complete = serial']] /\ serial' \in Nat
      BY <1>0, <1>4 DEF Final, Copied
    <2> QED BY <1>0, <2>1 DEF SlotTypes, Slot
  <1>5. CASE PresentTagged
    <2>1. PICK ok \in BOOLEAN : slots' = [slots EXCEPT ![SlotOf(Presenting)].prepared = ok]
      BY <1>5, Zenon DEF PresentTagged
    <2> QED BY <1>0, <2>1 DEF SlotTypes, Slot
  <1>6. CASE Record
    <2>1. slots' = RecordAll
      BY <1>6 DEF Record, RecordAs
    <2>2. present.join \in Nat /\ generation \in Nat
      BY DEF TypeOK
    <2>3. \A i \in SlotIndex : AfterJoin(i) \in Slot
      BY <1>0, <2>2 DEF SlotTypes, Slot, AfterJoin, Joined
    <2>4. \A i \in SlotIndex : AfterFailure(i) \in Slot
      BY <1>0, <2>2, ZenonT(40) DEF SlotTypes, Slot, AfterFailure, Unjoined
    <2> QED BY <2>1, <2>3, <2>4 DEF SlotTypes, RecordAll
  <1>7. CASE slots' = slots
    BY <1>0, <1>7 DEF SlotTypes
  <1>8. Ask \/ Restore \/ Moves \/ Copy \/ Final \/ PresentTagged \/ Record \/ slots' = slots
    BY Steps DEF vars, EndRender, PresentUntagged, Retire, NothingToRetire,
           EndPresent, D3D11Signals, InteropRestores, StartReads, Join, VendorFinishes
  <1> QED BY <1>1, <1>2, <1>3, <1>4, <1>5, <1>6, <1>7, <1>8, <1>9

\* Every step keeps the render thread's state.
LEMMA WaitTypesStep == TypeOK /\ [Next]_vars => WaitTypes'
  <1> SUFFICES ASSUME TypeOK, [Next]_vars PROVE WaitTypes'
    OBVIOUS
  <1>0. /\ SlotTypes /\ WaitTypes /\ Current \in SlotIndex /\ slots[Current] \in Slot /\ early \in BOOLEAN
        /\ abandoned \subseteq SlotIndex /\ render \in RenderType
        /\ slots[Current].complete \in Nat /\ slots[Current].join \in Nat /\ slots[Current].readState \in BOOLEAN
    BY CurrentSlot, TypeParts DEF SlotTypes, WaitTypes, Slot
  <1>1. render' \in RenderType
    <2>1. CASE Ask
      <3>1. render' = [at |-> "complete", join |-> slots[Current].join, readState |-> slots[Current].readState,
                       blocked |-> FALSE]
        BY <2>1 DEF Ask, AskFor
      <3>2. \A b \in BOOLEAN : [at |-> "complete", join |-> slots[Current].join, readState |-> b, blocked |-> FALSE] \in RenderType
        BY <1>0 DEF RenderType, Waits
      <3> QED BY <1>0, <3>1, <3>2
    <2>2. CASE Moves
      BY <2>2, MoveCases, IdleTypes DEF Advances
    <2>3. CASE Restore
      BY <2>3, RestoreCases, IdleTypes DEF Advances
    <2>4. CASE Copy
      BY <2>4, IdleTypes DEF Copy
    <2>5. Ask \/ Moves \/ Restore \/ Copy \/ render' = render
      BY Steps DEF vars, renderVars, Final, EndRender, PresentUntagged, PresentTagged, Retire, NothingToRetire, Record,
             RecordAs, EndPresent, D3D11Signals, InteropRestores, StartReads, Join, VendorFinishes
    <2> QED BY <1>0, <2>1, <2>2, <2>3, <2>4, <2>5
  <1>2. event' \in [set : BOOLEAN, fence : SUBSET Nat, join : SUBSET Nat]
    <2> DEFINE Events == [set : BOOLEAN, fence : SUBSET Nat, join : SUBSET Nat]
    <2> SUFFICES event' \in Events
      OBVIOUS
    <2>0. event \in Events /\ event.set \in BOOLEAN /\ event.fence \subseteq Nat /\ event.join \subseteq Nat
      BY DEF TypeOK
    <2>1. \A b \in BOOLEAN, f \in SUBSET Nat, j \in SUBSET Nat :
              /\ [event EXCEPT !.set = b, !.fence = f] \in Events
              /\ [event EXCEPT !.set = b, !.join = j] \in Events
              /\ [event EXCEPT !.fence = f] \in Events /\ [event EXCEPT !.join = j] \in Events
              /\ [event EXCEPT !.set = b] \in Events
      BY <2>0
    <2>2. CASE Block
      <3>1. render.join \in Nat
        BY <1>0 DEF RenderType
      <3>2. event.join \cup {render.join} \in SUBSET Nat /\ event.fence \cup {slots[Current].complete} \in SUBSET Nat
        BY <1>0, <2>0, <3>1
      <3>3. \/ event' = [event EXCEPT !.join = event.join \cup {render.join}]
            \/ event' = [event EXCEPT !.fence = event.fence \cup {slots[Current].complete}]
        BY <2>2 DEF Block
      <3> HIDE DEF Events
      <3> QED BY <2>1, <3>2, <3>3
    <2>3. CASE Wake
      <3> HIDE DEF Events
      <3> QED BY <2>1, <2>3 DEF Wake
    <2>4. ASSUME NEW value, SetFence(value) PROVE event' \in Events
      <3> DEFINE reached == {v \in event.fence : v <= value}
      <3>1. event' = [event EXCEPT !.set = event.set \/ reached # {}, !.fence = event.fence \ reached]
        BY <2>4 DEF SetFence
      <3>2. event.fence \ reached \in SUBSET Nat /\ (event.set \/ reached # {}) \in BOOLEAN
        BY <2>0
      <3> HIDE DEF Events, reached
      <3> QED BY <2>1, <3>1, <3>2
    <2>5. CASE Join
      <3> DEFINE reached == {v \in event.join : v <= joinDone'}
      <3>1. event' = [event EXCEPT !.set = event.set \/ reached # {}, !.join = event.join \ reached]
        BY <2>5 DEF Join
      <3>2. event.join \ reached \in SUBSET Nat /\ (event.set \/ reached # {}) \in BOOLEAN
        BY <2>0
      <3> HIDE DEF Events, reached
      <3> QED BY <2>1, <3>1, <3>2
    <2>6. CASE D3D11Signals
      BY <2>4, <2>6 DEF D3D11Signals
    <2>7. CASE InteropRestores
      BY <2>0, <2>4, <2>7 DEF InteropRestores
    <2>8. Moves => Block \/ Wake \/ event' = event
      BY DEF Moves, Pass, TimeOut, Refused, waitVars
    <2>9. Moves \/ D3D11Signals \/ InteropRestores \/ Join \/ event' = event
      BY Steps DEF vars, renderVars, waitVars, Ask, AskFor, Restore, Copy, Final, EndRender, PresentUntagged, PresentTagged,
             Retire, NothingToRetire, Record, RecordAs, EndPresent, StartReads, VendorFinishes
    <2> QED BY <2>0, <2>2, <2>3, <2>5, <2>6, <2>7, <2>8, <2>9
  <1>3. early' \in BOOLEAN
    <2>1. CASE Wake
      BY <2>1 DEF Wake
    <2>2. Moves => Wake \/ early' = early
      BY DEF Moves, Pass, Block, TimeOut, Refused, waitVars
    <2>3. Moves \/ early' = early
      BY Steps DEF vars, renderVars, waitVars, Ask, AskFor, Restore, Copy, Final, EndRender, PresentUntagged, PresentTagged,
             Retire, NothingToRetire, Record, RecordAs, EndPresent, D3D11Signals, InteropRestores, StartReads, Join, VendorFinishes
    <2> QED BY <1>0, <2>1, <2>2, <2>3
  <1>4. abandoned' \subseteq SlotIndex
    <2>1. CASE Moves
      BY <1>0, <2>1, MoveCases
    <2>2. CASE Restore
      BY <1>0, <2>2, RestoreCases
    <2>3. Moves \/ Restore \/ abandoned' = abandoned
      BY Steps DEF vars, renderVars, waitVars, Ask, AskFor, Copy, Final, EndRender, PresentUntagged, PresentTagged,
             Retire, NothingToRetire, Record, RecordAs, EndPresent, D3D11Signals, InteropRestores, StartReads, Join, VendorFinishes
    <2> QED BY <1>0, <2>1, <2>2, <2>3
  <1> QED BY <1>1, <1>2, <1>3, <1>4 DEF WaitTypes

\* Every step keeps the present thread's state.
LEMMA ThreadTypesStep == TypeOK /\ ThreadInv /\ [Next]_vars => ThreadTypes'
  <1> SUFFICES ASSUME TypeOK, ThreadInv, [Next]_vars PROVE ThreadTypes'
    OBVIOUS
  <1>0. ThreadTypes /\ SlotOf(Presenting) \in 0 .. Slots /\ NoSlot \in 0 .. Slots
    BY CurrentSlot, TypeParts, SlotsAssumption DEF SlotIndex, NoSlot
  <1>3. CASE EndRender
    BY <1>0, <1>3, BoundsAssumption DEF EndRender, presentVars, ThreadTypes
  <1>4. CASE PresentUntagged \/ PresentTagged \/ NothingToRetire \/ Record
    <2>1. UNCHANGED <<rendered, presented, provider, generation>>
      BY <1>4 DEF PresentUntagged, PresentTagged, NothingToRetire, Record, RecordAs, renderVars
    <2>2. present' \in [at : {"idle", "retire", "record", "boundary"}, tagged : 0 .. Slots, join : Nat]
      BY <1>0, <1>4 DEF PresentUntagged, PresentTagged, NothingToRetire, Record, RecordAs, Waiting, ThreadTypes
    <2> QED BY <1>0, <2>1, <2>2 DEF ThreadTypes
  <1>5. CASE Retire
    <2>1. UNCHANGED <<rendered, presented, provider, generation>>
      BY <1>5 DEF Retire, renderVars
    <2>2. \/ present' = [present EXCEPT !.at = "record", !.join = joinIssued'] /\ joinIssued' \in Nat
          \/ present' = [present EXCEPT !.at = "record"]
      BY <1>5, SMTT(30) DEF Retire, TypeOK
    <2> QED BY <1>0, <2>1, <2>2 DEF ThreadTypes
  <1>6. CASE EndPresent
    <2>1. UNCHANGED rendered /\ present' = Waiting /\ presented' = presented + 1
          /\ (provider' \in BOOLEAN) /\ (generation' \in {generation, generation + 1})
      BY <1>0, <1>6 DEF EndPresent, renderVars, Presenting, ThreadTypes
    <2>2. presented < rendered
      BY <1>6 DEF EndPresent, ThreadInv
    <2>3. presented' \in 0 .. MaxId /\ generation' \in Nat
      BY <1>0, <2>1, <2>2, BoundsAssumption DEF ThreadTypes
    <2>4. present' \in [at : {"idle", "retire", "record", "boundary"}, tagged : 0 .. Slots, join : Nat]
      BY <1>0, <2>1 DEF Waiting
    <2> QED BY <1>0, <2>1, <2>3, <2>4 DEF ThreadTypes
  <1>7. CASE UNCHANGED <<rendered, present, presented, provider, generation>>
    BY <1>0, <1>7 DEF ThreadTypes
  <1>8. \/ EndRender \/ PresentUntagged \/ PresentTagged
        \/ Retire \/ NothingToRetire \/ Record \/ EndPresent
        \/ UNCHANGED <<rendered, present, presented, provider, generation>>
    BY Steps, MovesKeep DEF vars, renderVars, presentVars, Ask, AskFor, Restore, Copy, Final, D3D11Signals, InteropRestores,
           StartReads, Join, VendorFinishes
  <1> QED BY <1>3, <1>4, <1>5, <1>6, <1>7, <1>8

\* Every step keeps the queue's entries.
LEMMA QueueTypesStep == TypeOK /\ [Next]_vars => QueueTypes'
  <1> SUFFICES ASSUME TypeOK, [Next]_vars PROVE QueueTypes'
    OBVIOUS
  <1>0. QueueTypes /\ SlotOf(Presenting) \in 0 .. Slots /\ serial \in Nat /\ present.tagged \in 0 .. Slots
        /\ vendorIssued \in Nat /\ joinIssued + 1 \in Nat
    <2>1. SlotOf(Presenting) \in 0 .. Slots
      BY CurrentSlot, SlotsAssumption DEF SlotIndex
    <2>2. serial \in Nat /\ present.tagged \in 0 .. Slots /\ vendorIssued \in Nat /\ joinIssued + 1 \in Nat
      BY DEF TypeOK
    <2> QED BY <2>1, <2>2, TypeParts
  <1>1. CASE PresentTagged
    <2>1. queue' = Append(queue, [kind |-> "read", slot |-> SlotOf(Presenting), after |-> serial, signal |-> 0])
      BY <1>1 DEF PresentTagged
    <2>2. [kind |-> "read", slot |-> SlotOf(Presenting), after |-> serial, signal |-> 0] \in Entry
      BY <1>0 DEF Entry
    <2> QED BY <1>0, <2>1, <2>2, Appended DEF QueueTypes
  <1>2. CASE Retire /\ queue' # queue
    <2>1. queue' = Append(queue, [kind |-> "join", slot |-> present.tagged, after |-> vendorIssued, signal |-> joinIssued + 1])
      BY <1>2 DEF Retire
    <2>2. [kind |-> "join", slot |-> present.tagged, after |-> vendorIssued, signal |-> joinIssued + 1] \in Entry
      BY <1>0 DEF Entry
    <2> QED BY <1>0, <2>1, <2>2, Appended DEF QueueTypes
  <1>3. CASE StartReads \/ Join
    <2>1. queue # <<>> /\ queue' = Tail(queue)
      BY <1>3 DEF StartReads, Join
    <2> QED BY <1>0, <2>1, Popped DEF QueueTypes
  <1>4. CASE queue' = queue
    BY <1>0, <1>4 DEF QueueTypes
  <1>5. PresentTagged \/ Retire \/ StartReads \/ Join \/ queue' = queue
    BY Steps, MovesKeep DEF vars, queueVars, Ask, AskFor, Restore, Copy, Final, EndRender,
           PresentUntagged, NothingToRetire, Record, RecordAs, EndPresent, D3D11Signals, InteropRestores, VendorFinishes
  <1> QED BY <1>1, <1>2, <1>3, <1>4, <1>5

\* Every step keeps the fences' values and the surfaces' states.
LEMMA FenceTypesStep == TypeOK /\ [Next]_vars => FenceTypes'
  <1> SUFFICES ASSUME TypeOK, [Next]_vars PROVE FenceTypes'
    OBVIOUS
  <1>0. FenceTypes /\ QueueTypes /\ Current \in SlotIndex /\ SlotOf(Presenting) \in SlotIndex
    BY CurrentSlot, TypeParts
  <1>1. serial' \in Nat /\ fence' \in Nat /\ signals' \in Seq(Nat) /\ flushed' \in 0 .. Len(signals')
    <2>1. CASE UNCHANGED <<serial, fence, signals>> /\ flushed' \in {flushed, Len(signals)}
      BY <1>0, <2>1 DEF FenceTypes
    <2>2. CASE Restore
      BY <1>0, <2>2, RestoreCases DEF FenceTypes
    <2>3. CASE Copy \/ Final
      <3>1. serial' = serial + 1 /\ signals' = Append(signals, serial + 1) /\ fence' = fence
            /\ flushed' \in {flushed, Len(signals)}
        BY <2>3 DEF Copy, Final, Copied
      <3> QED BY <1>0, <3>1 DEF FenceTypes
    <2>4. CASE D3D11Signals
      <3>1. flushed > 0 /\ fence' = Head(signals) /\ signals' = Tail(signals) /\ flushed' = flushed - 1 /\ serial' = serial
        BY <2>4 DEF D3D11Signals, SetFence
      <3>2. Len(signals) \in Nat /\ Len(signals) > 0
        BY <1>0, <3>1 DEF FenceTypes
      <3>3. signals # <<>>
        BY <3>2
      <3>4. Head(signals) \in Nat /\ Tail(signals) \in Seq(Nat) /\ Len(Tail(signals)) = Len(signals) - 1
        BY <1>0, <3>3 DEF FenceTypes
      <3> QED BY <1>0, <3>1, <3>4 DEF FenceTypes
    <2>6. CASE InteropRestores
      <3>1. Head(restores) \in RestoreType
        BY <1>0, <2>6 DEF FenceTypes, InteropRestores
      <3>2. UNCHANGED <<serial, signals, flushed>> /\ fence' \in {fence, Head(restores).signal}
        BY <2>6 DEF InteropRestores, SetFence
      <3> QED BY <1>0, <3>1, <3>2 DEF FenceTypes, RestoreType
    <2>5. \/ Restore \/ Copy \/ Final \/ D3D11Signals \/ InteropRestores
          \/ (UNCHANGED <<serial, fence, signals>> /\ flushed' \in {flushed, Len(signals)})
      BY Steps, MovesKeep DEF vars, copyVars, Ask, AskFor, FlushFor, EndRender, Retire,
             PresentUntagged, PresentTagged, Upload, NothingToRetire, Record, RecordAs, EndPresent,
             StartReads, Join, VendorFinishes
    <2> QED BY <2>1, <2>2, <2>3, <2>4, <2>5, <2>6
  <1>5. restores' \in Seq(RestoreType)
    <2>0. restores \in Seq(RestoreType) /\ serial + 1 \in Nat
      BY <1>0 DEF FenceTypes
    <2>1. CASE Restore
      <3>1. PICK v \in {0, serial + 1} : restores' = Append(restores, [slot |-> Current, signal |-> v])
        BY <2>1, RestoreCases
      <3>2. [slot |-> Current, signal |-> v] \in RestoreType
        BY <1>0, <2>0, <3>1 DEF RestoreType
      <3> QED BY <2>0, <3>1, <3>2
    <2>2. CASE InteropRestores
      BY <2>0, <2>2 DEF InteropRestores
    <2>3. Restore \/ InteropRestores \/ restores' = restores
      BY Steps, MovesKeep DEF vars, copyVars, Ask, AskFor, Copy, Final, EndRender, Retire,
             PresentUntagged, PresentTagged, Upload, NothingToRetire, Record, RecordAs, EndPresent,
             D3D11Signals, StartReads, Join, VendorFinishes
    <2> QED BY <2>0, <2>1, <2>2, <2>3
  <1>2. joinIssued' \in Nat /\ joinDone' \in Nat
    <2>1. CASE Join
      BY <1>0, <2>1, Popped DEF Join, FenceTypes, QueueTypes, Entry
    <2>2. joinIssued' \in {joinIssued, joinIssued + 1} /\ (joinDone' = joinDone \/ Join)
      BY Steps, MovesKeep DEF vars, queueVars, Ask, AskFor, Restore, Copy, Final, EndRender,
             PresentUntagged, PresentTagged, Retire, NothingToRetire, Record, RecordAs, EndPresent, D3D11Signals,
             InteropRestores, StartReads, Join, VendorFinishes
    <2> QED BY <1>0, <2>1, <2>2 DEF FenceTypes
  <1>3. vendorIssued' \in Nat /\ vendorDone' \in Nat /\ (vendorRead' \in [SlotIndex -> Nat])
    <2>1. CASE PresentTagged
      <3>1. PICK ok \in BOOLEAN : /\ vendorIssued' = IF ok THEN vendorIssued + 1 ELSE vendorIssued
                                  /\ vendorRead' = IF ok THEN [vendorRead EXCEPT ![SlotOf(Presenting)] = vendorIssued']
                                                   ELSE vendorRead
                                  /\ vendorDone' = vendorDone
        BY <2>1, Zenon DEF PresentTagged
      <3> QED BY <1>0, <3>1 DEF FenceTypes
    <2>2. PresentTagged \/ (UNCHANGED <<vendorIssued, vendorRead>> /\ vendorDone' \in {vendorDone, vendorDone + 1})
      BY Steps, MovesKeep DEF vars, vendorVars, Ask, AskFor, Restore, Copy, Final, EndRender,
             PresentUntagged, Retire, NothingToRetire, Record, RecordAs, EndPresent, D3D11Signals, InteropRestores,
             StartReads, Join, VendorFinishes
    <2> QED BY <1>0, <2>1, <2>2 DEF FenceTypes
  <1>4. state' \in [SlotIndex -> {"common", "read"}]
    <2>1. CASE InteropRestores \/ StartReads \/ Join
      BY <1>0, <2>1 DEF InteropRestores, StartReads, Join, FenceTypes
    <2>2. InteropRestores \/ StartReads \/ Join \/ state' = state
      BY Steps, MovesKeep DEF vars, Ask, AskFor, Restore, Copy, Final, EndRender, PresentTagged,
             PresentUntagged, Retire, NothingToRetire, Record, RecordAs, EndPresent, D3D11Signals, VendorFinishes
    <2> QED BY <1>0, <2>1, <2>2 DEF FenceTypes
  <1> QED BY <1>1, <1>2, <1>3, <1>4, <1>5 DEF FenceTypes

\* Every step keeps the types.
LEMMA TypesStep == TypeOK /\ ThreadInv /\ [Next]_vars => TypeOK'
  <1>1. SlotTypes' /\ QueueTypes' /\ WaitTypes' /\ ThreadTypes' /\ FenceTypes' => TypeOK'
    BY DEF TypeOK, SlotTypes, QueueTypes, WaitTypes, ThreadTypes, FenceTypes, Entry, RenderType, RestoreType
  <1> QED BY <1>1, SlotTypesStep, WaitTypesStep, ThreadTypesStep, QueueTypesStep, FenceTypesStep


-------------------------------------------------------------------------------
\* The threads.

\* What is left of a slot when only its fence value changes.
SameBooks(i) == /\ slots'[i].source = slots[i].source /\ slots'[i].prepared = slots[i].prepared
                /\ slots'[i].join = slots[i].join /\ slots'[i].readState = slots[i].readState
                /\ slots'[i].unknown = slots[i].unknown /\ slots'[i].heldIn = slots[i].heldIn

\* The invariant and the types it rests on.
LEMMA BaseParts ==
  ASSUME BaseInv
  PROVE  /\ TypeOK /\ ThreadInv /\ WaitInv /\ SignalsRise /\ RestoreLast /\ JoinsInv
         /\ SlotTypes /\ WaitTypes /\ ThreadTypes /\ FenceTypes /\ queue \in Seq(Entry)
         /\ Current \in SlotIndex /\ slots[Current] \in Slot /\ SlotBooks(Current)
         /\ \A i \in SlotIndex : SlotBooks(i) /\ slots[i] \in Slot
  BY CurrentSlot, TypeParts DEF BaseInv, QueueTypes, SlotTypes

\* What Ask writes in the current slot.
LEMMA AskWrites ==
  ASSUME TypeOK, Ask
  PROVE  /\ \A i \in SlotIndex : i # Current => slots'[i] = slots[i]
         /\ \A i \in SlotIndex : /\ slots'[i].source = slots[i].source /\ slots'[i].prepared = slots[i].prepared
                                 /\ slots'[i].join = slots[i].join /\ slots'[i].readState = slots[i].readState
                                 /\ slots'[i].complete = slots[i].complete
         /\ ~slots'[Current].unknown
         /\ \A i \in SlotIndex : slots'[i].unknown => slots[i].unknown /\ slots'[i].heldIn = slots[i].heldIn
  <1>0. SlotTypes /\ Current \in SlotIndex
    BY CurrentSlot, TypeParts
  <1>1. slots' = [slots EXCEPT ![Current].unknown = FALSE, ![Current].heldIn = 0]
    BY DEF Ask, AskFor
  <1> QED BY <1>0, <1>1 DEF SlotTypes, Slot

\* A restore and the HUD-less colour write only its fence value.
LEMMA ValueWrites ==
  ASSUME TypeOK, Restore \/ Final
  PROVE  /\ \A i \in SlotIndex : i # Current => slots'[i] = slots[i]
         /\ \A i \in SlotIndex : SameBooks(i)
         /\ slots'[Current].complete = serial + 1
  <1>0. SlotTypes /\ Current \in SlotIndex
    BY CurrentSlot, TypeParts
  <1>1. slots' = [slots EXCEPT ![Current].complete = serial + 1]
    <2>1. CASE Restore
      BY <2>1, RestoreCases
    <2>2. CASE Final
      <3>1. slots' = [slots EXCEPT ![Current] = [slots[Current] EXCEPT !.complete = serial + 1]]
        BY <2>2 DEF Final, Copied
      <3> QED BY <1>0, <3>1 DEF SlotTypes, Slot
    <2> QED BY <2>1, <2>2
  <1> QED BY <1>0, <1>1 DEF SlotTypes, Slot, SameBooks

\* A restore that was waited for clears read_state.
LEMMA ClearWrites ==
  ASSUME TypeOK, slots' = [slots EXCEPT ![Current].readState = FALSE]
  PROVE  /\ \A i \in SlotIndex : i # Current => slots'[i] = slots[i]
         /\ \A i \in SlotIndex : /\ slots'[i].source = slots[i].source /\ slots'[i].prepared = slots[i].prepared
                                 /\ slots'[i].join = slots[i].join /\ slots'[i].complete = slots[i].complete
                                 /\ slots'[i].unknown = slots[i].unknown /\ slots'[i].heldIn = slots[i].heldIn
         /\ ~slots'[Current].readState
  <1>0. SlotTypes /\ Current \in SlotIndex
    BY CurrentSlot, TypeParts
  <1> QED BY <1>0 DEF SlotTypes, Slot

\* A copy writes the frame and its fence value.
LEMMA CopyWrites ==
  ASSUME TypeOK, Copy
  PROVE  /\ \A i \in SlotIndex : i # Current => slots'[i] = slots[i]
         /\ \A i \in SlotIndex : /\ slots'[i].join = slots[i].join /\ slots'[i].readState = slots[i].readState
                                 /\ slots'[i].unknown = slots[i].unknown /\ slots'[i].heldIn = slots[i].heldIn
         /\ slots'[Current].source = rendered + 1 /\ slots'[Current].complete = serial + 1
  <1>0. SlotTypes /\ Current \in SlotIndex
    BY CurrentSlot, TypeParts
  <1>1. PICK ok \in BOOLEAN : Copied([slots[Current] EXCEPT !.source = rendered + 1, !.prepared = ok])
    BY DEF Copy
  <1>2. slots' = [slots EXCEPT ![Current] = [[slots[Current] EXCEPT !.source = rendered + 1, !.prepared = ok]
                                               EXCEPT !.complete = serial + 1]]
    BY <1>1 DEF Copied
  <1> QED BY <1>0, <1>2 DEF SlotTypes, Slot

\* A step of the render thread.
RenderSteps == Ask \/ Moves \/ Restore \/ Copy \/ Final

\* The present thread and the queues are not its own.
LEMMA RenderAlone ==
  ASSUME TypeOK, RenderSteps
  PROVE  UNCHANGED <<rendered, present, presented, generation, queue, joinIssued, joinDone,
                     vendorIssued, vendorDone, vendorRead, state>>
  BY MovesKeep, RestoreCases DEF RenderSteps, Ask, AskFor, Copy, Final, presentVars, renderVars, queueVars, vendorVars

\* Every step keeps the threads' invariant.
LEMMA ThreadStep == BaseInv /\ [Next]_vars => ThreadInv'
  <1> SUFFICES ASSUME BaseInv, [Next]_vars PROVE ThreadInv'
    OBVIOUS
  <1>0. TypeOK /\ TypeOK' /\ ThreadInv /\ SlotTypes /\ ThreadTypes /\ NoSlot \notin SlotIndex
        /\ Current \in SlotIndex /\ SlotOf(Presenting) \in SlotIndex
    BY TypesStep, BaseParts, CurrentSlot, SlotsAssumption DEF SlotIndex, NoSlot
  <1>1. CASE RenderSteps
    <2>1. UNCHANGED <<rendered, present, presented, joinIssued>>
      BY <1>0, <1>1, RenderAlone
    <2>2. render'.at # "idle" => rendered < MaxId /\ rendered < presented + Ahead
      <3>1. CASE Ask
        BY <3>1 DEF Ask, AskFor
      <3>2. CASE Moves
        <4>1. render.at # "idle" \/ render'.at = "idle"
          BY <1>0, <3>2, MoveCases, IdleTypes DEF Waits
        <4> QED BY <1>0, <4>1 DEF ThreadInv
      <3>3. CASE Restore
        <4>1. render.at # "idle"
          BY <1>0, <3>3, RestoreCases
        <4> QED BY <1>0, <4>1 DEF ThreadInv
      <3>4. CASE Copy
        BY <3>4, IdleTypes DEF Copy
      <3>5. CASE Final
        BY <1>0, <3>5 DEF Final, MayCopyHudless, renderVars, ThreadInv
      <3> QED BY <1>1, <3>1, <3>2, <3>3, <3>4, <3>5 DEF RenderSteps
    <2>3. present.tagged # NoSlot => slots'[present.tagged].source = slots[present.tagged].source
      <3>1. present.tagged # NoSlot => present.tagged \in SlotIndex
        BY <1>0 DEF ThreadInv
      <3>2. CASE Ask \/ Restore \/ Final
        BY <1>0, <3>1, <3>2, AskWrites, ValueWrites DEF SameBooks
      <3>3. CASE Moves
        BY <1>0, <3>1, <3>3, MoveCases, ClearWrites
      <3>4. CASE Copy
        <4>1. present.tagged # Current
          BY <1>0, <3>4, TaggedApart DEF Copy
        <4> QED BY <1>0, <3>1, <3>4, <4>1, CopyWrites
      <3> QED BY <1>1, <3>2, <3>3, <3>4 DEF RenderSteps
    <2> QED BY <1>0, <2>1, <2>2, <2>3 DEF ThreadInv, Presenting
  <1>2. CASE EndRender
    <2>1. UNCHANGED <<render, slots, present, presented, joinIssued>> /\ rendered' = rendered + 1 /\ render.at = "idle"
      BY <1>2 DEF EndRender, presentVars, queueVars
    <2> QED BY <1>0, <2>1 DEF ThreadInv, Presenting, ThreadTypes
  <1>3. CASE PresentUntagged \/ NothingToRetire \/ Record
    <2>1. UNCHANGED <<render, rendered, presented, joinIssued>>
      BY <1>3 DEF PresentUntagged, NothingToRetire, Record, RecordAs, renderVars, queueVars
    <2>2. present'.join = 0 /\ present'.tagged = NoSlot /\ present'.at \in {"retire", "boundary"} /\ presented < rendered
      BY <1>0, <1>3 DEF PresentUntagged, Upload, NothingToRetire, Untagged, Record, RecordAs, Waiting, ThreadInv, ThreadTypes
    <2>3. joinIssued \in Nat
      BY <1>0 DEF TypeOK
    <2> QED BY <1>0, <2>1, <2>2, <2>3 DEF ThreadInv
  <1>4. CASE PresentTagged
    <2>1. UNCHANGED <<render, rendered, presented, joinIssued>> /\ presented < rendered
          /\ present' = [at |-> "retire", tagged |-> SlotOf(Presenting), join |-> 0]
      BY <1>4 DEF PresentTagged, Upload, renderVars
    <2>2. PICK ok \in BOOLEAN : slots' = [slots EXCEPT ![SlotOf(Presenting)].prepared = ok]
      BY <1>4, Zenon DEF PresentTagged
    <2>3. slots'[SlotOf(Presenting)].source = Presenting
      BY <1>0, <1>4, <2>2 DEF PresentTagged, SlotTypes, Slot
    <2>4. joinIssued \in Nat
      BY <1>0 DEF TypeOK
    <2> QED BY <1>0, <2>1, <2>3, <2>4 DEF ThreadInv, Presenting
  <1>5. CASE Retire
    <2>1. UNCHANGED <<render, rendered, presented, slots>> /\ present.at = "retire"
      BY <1>5 DEF Retire, renderVars
    <2>2. present'.at = "record" /\ present'.tagged = present.tagged
          /\ (present'.join = joinIssued' \/ (present'.join = present.join /\ joinIssued' = joinIssued))
      BY <1>0, <1>5 DEF Retire, ThreadTypes
    <2>3. joinIssued' \in Nat
      BY <1>0 DEF TypeOK
    <2> QED BY <1>0, <2>1, <2>2, <2>3 DEF ThreadInv, Presenting
  <1>6. CASE EndPresent
    <2>1. UNCHANGED <<render, rendered, joinIssued, slots>> /\ present' = Waiting /\ presented' = presented + 1
      BY <1>6 DEF EndPresent, renderVars, queueVars, Presenting
    <2>2. joinIssued \in Nat
      BY <1>0 DEF TypeOK
    <2>3. rendered < presented + Ahead => rendered < presented + 1 + Ahead
      BY <1>0, AheadAssumption, SlotsAssumption DEF ThreadTypes
    <2>4. presented < rendered
      BY <1>0, <1>6 DEF EndPresent, ThreadInv
    <2>5. presented + 1 <= rendered /\ (rendered < presented + Ahead => rendered < presented + 1 + Ahead)
      BY <1>0, <2>3, <2>4 DEF ThreadTypes
    <2>6. Waiting.at = "idle" /\ Waiting.tagged = NoSlot /\ Waiting.join = 0
      BY DEF Waiting
    <2> QED BY <1>0, <2>1, <2>2, <2>4, <2>5, <2>6 DEF ThreadInv
  <1>7. CASE UNCHANGED <<render, rendered, present, presented, slots, joinIssued>>
    BY <1>0, <1>7 DEF ThreadInv, Presenting
  <1>8. \/ RenderSteps \/ EndRender \/ PresentUntagged \/ NothingToRetire \/ Record \/ PresentTagged \/ Retire \/ EndPresent
        \/ UNCHANGED <<render, rendered, present, presented, slots, joinIssued>>
    BY Steps DEF RenderSteps, vars, renderVars, presentVars, queueVars, D3D11Signals, InteropRestores, StartReads, Join,
                 VendorFinishes
  <1> QED BY <1>1, <1>2, <1>3, <1>4, <1>5, <1>6, <1>7, <1>8

\* What the present thread and the GPU leave of the current slot while it is in use.
LEMMA CurrentKept ==
  ASSUME BaseInv, [Next]_vars, ~RenderSteps, ~EndRender
  PROVE  /\ UNCHANGED <<render, rendered, abandoned>> /\ Current' = Current
         /\ render.at # "idle" => slots'[Current] = slots[Current] /\ vendorRead'[Current] = vendorRead[Current]
  <1>0. TypeOK /\ ThreadInv /\ WaitInv /\ SlotTypes /\ Current \in SlotIndex
    BY BaseParts
  <1>1. UNCHANGED <<render, rendered, abandoned>> /\ Current' = Current
    <2>1. UNCHANGED <<render, rendered, abandoned>>
      BY Steps DEF RenderSteps, vars, renderVars, waitVars, PresentUntagged, PresentTagged, Retire, NothingToRetire, Record, RecordAs,
                EndPresent, D3D11Signals, InteropRestores, StartReads, Join, VendorFinishes
    <2> QED BY <2>1 DEF Current
  <1>2. ASSUME render.at # "idle"
        PROVE  slots'[Current] = slots[Current] /\ vendorRead'[Current] = vendorRead[Current]
    <2>1. present.tagged # Current /\ (present.at # "idle" => Current # SlotOf(Presenting))
          /\ ~slots[Current].unknown
      BY <1>0, <1>2, TaggedApart DEF WaitInv
    <2>2. CASE PresentTagged
      <3>1. Current # SlotOf(Presenting)
        <4>1. presented < rendered /\ rendered < presented + Ahead
          BY <1>0, <1>2, <2>2 DEF PresentTagged, Upload, ThreadInv
        <4> QED BY <1>0, <4>1, CurrentApart
      <3>2. PICK ok \in BOOLEAN : /\ slots' = [slots EXCEPT ![SlotOf(Presenting)].prepared = ok]
                                  /\ vendorRead' = IF ok THEN [vendorRead EXCEPT ![SlotOf(Presenting)] = vendorIssued']
                                                   ELSE vendorRead
        BY <2>2, Zenon DEF PresentTagged
      <3>3. vendorRead \in [SlotIndex -> Nat]
        BY <1>0 DEF TypeOK
      <3> QED BY <1>0, <3>1, <3>2, <3>3 DEF SlotTypes
    <2>3. CASE Record
      <3>1. slots' = RecordAll /\ UNCHANGED vendorRead
        BY <2>3 DEF Record, RecordAs, vendorVars
      <3> QED BY <1>0, <2>1, <3>1 DEF RecordAll, AfterJoin, AfterFailure
    <2>4. CASE UNCHANGED <<slots, vendorRead>>
      BY <2>4
    <2>5. PresentTagged \/ Record \/ UNCHANGED <<slots, vendorRead>>
      BY Steps DEF RenderSteps, vars, vendorVars, PresentUntagged, Retire, NothingToRetire,
                EndPresent, D3D11Signals, InteropRestores, StartReads, Join, VendorFinishes
    <2> QED BY <2>2, <2>3, <2>4, <2>5
  <1> QED BY <1>1, <1>2

\* Every step keeps what was read under the lock.
LEMMA WaitStep == BaseInv /\ [Next]_vars => WaitInv'
  <1> SUFFICES ASSUME BaseInv, [Next]_vars PROVE WaitInv'
    OBVIOUS
  <1>0. TypeOK /\ ThreadInv /\ WaitInv /\ SlotTypes /\ Current \in SlotIndex /\ render \in RenderType
    BY BaseParts DEF WaitTypes
  <1>1. CASE Ask
    <2>1. render'.at = "complete" /\ render'.join = slots[Current].join /\ render'.readState = slots[Current].readState
          /\ Current' = Current
      BY <1>1 DEF Ask, AskFor, Current
    <2> QED BY <1>0, <1>1, <2>1, AskWrites DEF WaitInv
  <1>2. CASE Moves
    <2>1. Current' = Current
      BY <1>2, MovesKeep DEF Current
    <2>2. CASE render' = Idle
      BY <2>2, IdleTypes DEF WaitInv
    <2>3. CASE slots' = slots /\ Advances(render.at) /\ render.at \in Waits
      BY <1>0, <2>1, <2>3 DEF WaitInv, Advances
    <2>4. CASE slots' = slots /\ render.at = "complete" /\ Advances("join")
      BY <1>0, <2>1, <2>4 DEF WaitInv, Advances
    <2>5. CASE slots' = slots /\ render.at = "join" /\ Advances(IF render.readState THEN "restore" ELSE "copy")
      <3>1. ~slots[Current].unknown /\ render.join = slots[Current].join /\ render.readState = slots[Current].readState
        BY <1>0, <2>5 DEF WaitInv
      <3>2. CASE render.readState
        BY <2>1, <2>5, <3>1, <3>2 DEF WaitInv, Advances
      <3>3. CASE ~render.readState
        <4>1. ~slots[Current].readState /\ Advances("copy")
          BY <2>5, <3>1, <3>3
        <4> QED BY <2>1, <2>5, <3>1, <3>3, <4>1 DEF WaitInv, Advances
      <3> QED BY <3>2, <3>3
    <2>6. CASE slots' = [slots EXCEPT ![Current].readState = FALSE] /\ render.at = "restoring" /\ Advances("copy")
      <3>1. ~slots[Current].unknown /\ render.join = slots[Current].join
        BY <1>0, <2>6 DEF WaitInv
      <3>2. ~slots'[Current].unknown /\ slots'[Current].join = slots[Current].join /\ ~slots'[Current].readState
        BY <1>0, <2>6, <3>1, ClearWrites
      <3> QED BY <2>1, <2>6, <3>1, <3>2 DEF WaitInv, Advances
    <2> QED BY <1>0, <1>2, <2>2, <2>3, <2>4, <2>5, <2>6, MoveCases
  <1>3. CASE Restore
    <2>1. Current' = Current /\ render.at = "restore" /\ (Advances("restoring") \/ render' = Idle)
      BY <1>0, <1>3, RestoreCases DEF Current
    <2>2. SameBooks(Current)
      BY <1>0, <1>3, ValueWrites
    <2>3. CASE Advances("restoring")
      <3>1. ~slots[Current].unknown /\ render.join = slots[Current].join /\ render.readState = slots[Current].readState /\ render.readState
        BY <1>0, <2>1 DEF WaitInv
      <3> QED BY <2>1, <2>2, <2>3, <3>1 DEF WaitInv, Advances, SameBooks
    <2>4. CASE render' = Idle
      BY <2>4, IdleTypes DEF WaitInv
    <2> QED BY <2>1, <2>3, <2>4
  <1>4. CASE Copy \/ Final \/ EndRender
    <2>1. render'.at = "idle"
      BY <1>4, IdleTypes DEF Copy, Final, MayCopyHudless, EndRender, renderVars
    <2> QED BY <2>1 DEF WaitInv
  <1>5. CASE ~RenderSteps /\ ~EndRender
    BY <1>0, <1>5, CurrentKept DEF WaitInv
  <1> QED BY <1>1, <1>2, <1>3, <1>4, <1>5 DEF RenderSteps


-------------------------------------------------------------------------------
\* The fences' values.

\* Only a restore and a copy touch a slot's frame or its signal.
LEMMA BooksOfSlots ==
  ASSUME BaseInv, [Next]_vars, ~Restore, ~Copy, ~Final, NEW i \in SlotIndex
  PROVE  slots'[i].source = slots[i].source /\ slots'[i].complete = slots[i].complete
  <1>0. TypeOK /\ SlotTypes /\ slots[i] \in Slot /\ Current \in SlotIndex /\ SlotOf(Presenting) \in SlotIndex
    BY BaseParts, CurrentSlot
  <1>1. CASE Ask
    BY <1>0, <1>1, AskWrites
  <1>2. CASE Moves
    BY <1>0, <1>2, MoveCases, ClearWrites
  <1>3. CASE PresentTagged
    <2>1. PICK ok \in BOOLEAN : slots' = [slots EXCEPT ![SlotOf(Presenting)].prepared = ok]
      BY <1>3, Zenon DEF PresentTagged
    <2> QED BY <1>0, <2>1 DEF SlotTypes, Slot
  <1>4. CASE Record
    <2>1. slots'[i] \in {slots[i], Joined(slots[i], present.join), Unjoined(slots[i]),
                         [Joined(slots[i], present.join) EXCEPT !.readState = FALSE]}
      BY <1>4 DEF Record, RecordAs, RecordAll, AfterJoin, AfterFailure
    <2> QED BY <1>0, <2>1 DEF Slot, Joined, Unjoined
  <1>5. CASE slots' = slots
    BY <1>5
  <1>6. Ask \/ Moves \/ PresentTagged \/ Record \/ slots' = slots
    BY Steps DEF vars, EndRender, PresentUntagged, Retire, NothingToRetire,
           EndPresent, D3D11Signals, InteropRestores, StartReads, Join, VendorFinishes
  <1> QED BY <1>1, <1>2, <1>3, <1>4, <1>5, <1>6

\* Nor does another step touch D3D11's queue, except to submit all of it.
LEMMA SignalsElsewhere ==
  ASSUME [Next]_vars, ~Restore, ~Copy, ~Final, ~D3D11Signals, ~InteropRestores
  PROVE  UNCHANGED <<serial, fence, signals, restores>> /\ flushed' \in {flushed, Len(signals)}
  <1>1. CASE Ask
    BY <1>1 DEF Ask, AskFor, FlushFor
  <1>2. CASE PresentUntagged \/ PresentTagged
    <2>1. flushed' = Len(signals)
      BY <1>2 DEF PresentUntagged, PresentTagged, Upload
    <2>2. UNCHANGED <<serial, fence, signals, restores>>
      BY <1>2 DEF PresentUntagged, PresentTagged
    <2> QED BY <2>1, <2>2
  <1>3. CASE UNCHANGED copyVars
    BY <1>3 DEF copyVars
  <1>4. Ask \/ PresentUntagged \/ PresentTagged \/ UNCHANGED copyVars
    BY Steps, MovesKeep DEF vars, copyVars, EndRender, Retire, NothingToRetire,
           Record, RecordAs, EndPresent, StartReads, Join, VendorFinishes
  <1> QED BY <1>1, <1>2, <1>3, <1>4

\* What the steps need of the types.
LEMMA SignalTypes ==
  ASSUME BaseInv
  PROVE  /\ Len(signals) \in Nat /\ flushed \in 0..Len(signals) /\ serial \in Nat /\ fence \in Nat
         /\ \A k \in 1..Len(signals) : signals[k] \in Nat
         /\ Len(restores) \in Nat /\ \A k \in 1..Len(restores) : restores[k].signal \in Nat /\ restores[k].slot \in SlotIndex
         /\ \A i \in SlotIndex : slots[i].complete \in Nat /\ slots[i].source \in Nat /\ slots[i].source <= rendered + 1
         /\ rendered \in Nat /\ presented \in Nat /\ Current \in SlotIndex
  <1>1. signals \in Seq(Nat) /\ flushed \in 0..Len(signals) /\ serial \in Nat /\ fence \in Nat
        /\ restores \in Seq(RestoreType) /\ rendered \in Nat /\ presented \in Nat /\ Current \in SlotIndex
    BY BaseParts DEF FenceTypes, ThreadTypes
  <1>2. Len(signals) \in Nat /\ \A k \in 1..Len(signals) : signals[k] \in Nat
    BY <1>1
  <1>3. Len(restores) \in Nat /\ \A k \in 1..Len(restores) : restores[k] \in RestoreType
    BY <1>1
  <1>4. ASSUME NEW i \in SlotIndex
        PROVE  slots[i].complete \in Nat /\ slots[i].source \in Nat /\ slots[i].source <= rendered + 1
    <2>1. slots[i] \in Slot /\ SlotBooks(i)
      BY BaseParts
    <2> QED BY <2>1 DEF Slot, SlotBooks
  <1> QED BY <1>1, <1>2, <1>3, <1>4 DEF RestoreType

\* A copy, or the HUD-less colour of a frame: one more signal, for the current slot.
LEMMA CopyStep ==
  ASSUME BaseInv, Copy \/ Final
  PROVE  /\ serial' = serial + 1 /\ Len(signals') = Len(signals) + 1 /\ signals'[Len(signals) + 1] = serial + 1
         /\ \A k \in 1..Len(signals) : signals'[k] = signals[k]
         /\ fence' = fence /\ flushed' \in {flushed, Len(signals)} /\ restores' = restores
         /\ slots'[Current].complete = serial + 1 /\ slots'[Current].source = rendered + 1
         /\ \A i \in SlotIndex : i # Current => slots'[i] = slots[i]
         /\ UNCHANGED <<rendered, present, presented, abandoned>>
         /\ render'.at = "idle" /\ render.at \in {"idle", "copy"}
  <1>0. TypeOK /\ SlotTypes /\ slots[Current] \in Slot /\ Current \in SlotIndex
    BY BaseParts
  <1>1. /\ serial' = serial + 1 /\ signals' = Append(signals, serial + 1) /\ slots'[Current].complete = serial + 1
        /\ slots'[Current].source = rendered + 1
    <2>1. CASE Copy
      <3>1. PICK ok \in BOOLEAN : Copied([slots[Current] EXCEPT !.source = rendered + 1, !.prepared = ok])
        BY <2>1 DEF Copy
      <3> QED BY <1>0, <2>1, <3>1, CopyWrites DEF Copied
    <2>2. CASE Final
      <3>1. SameBooks(Current) /\ slots'[Current].complete = serial + 1 /\ slots[Current].source = rendered + 1
        BY <1>0, <2>2, ValueWrites DEF Final, MayCopyHudless
      <3> QED BY <2>2, <3>1 DEF Final, Copied, SameBooks
    <2> QED BY <2>1, <2>2
  <1>2. \A i \in SlotIndex : i # Current => slots'[i] = slots[i]
    BY <1>0, CopyWrites, ValueWrites
  <1>3. /\ fence' = fence /\ flushed' \in {flushed, Len(signals)} /\ UNCHANGED <<rendered, present, presented, abandoned, restores>>
        /\ render'.at = "idle" /\ render.at \in {"idle", "copy"}
    <2>1. CASE Copy
      BY <2>1, IdleTypes DEF Copy, presentVars, waitVars
    <2>2. CASE Final
      BY <2>2 DEF Final, MayCopyHudless, renderVars, waitVars, presentVars
    <2> QED BY <2>1, <2>2
  <1>4. /\ Len(signals') = Len(signals) + 1 /\ signals'[Len(signals) + 1] = serial + 1
        /\ \A k \in 1..Len(signals) : signals'[k] = signals[k]
    <2>1. signals \in Seq(Nat) /\ serial + 1 \in Nat
      BY BaseParts DEF FenceTypes
    <2> QED BY <1>1, <2>1
  <1> QED BY <1>1, <1>2, <1>3, <1>4

\* A restore takes the next value, whether or not the interop queue is to signal it.
LEMMA RestoreStep ==
  ASSUME BaseInv, Restore
  PROVE  /\ serial' = serial + 1 /\ UNCHANGED <<fence, signals, flushed, rendered, present, presented>>
         /\ slots'[Current].complete = serial + 1 /\ slots'[Current].source = slots[Current].source
         /\ \A i \in SlotIndex : i # Current => slots'[i] = slots[i]
         /\ Len(restores') = Len(restores) + 1 /\ restores'[Len(restores) + 1].signal \in {0, serial + 1}
         /\ restores'[Len(restores) + 1].slot = Current
         /\ \A k \in 1..Len(restores) : restores'[k] = restores[k]
         /\ render.at = "restore"
         /\ (render'.at = "restoring" /\ abandoned' = abandoned) \/ (render'.at = "idle" /\ abandoned' = abandoned \cup {Current})
  <1>0. TypeOK /\ restores \in Seq(RestoreType) /\ Current \in SlotIndex /\ serial \in Nat
    BY BaseParts DEF FenceTypes
  <1>1. PICK v \in {0, serial + 1} : restores' = Append(restores, [slot |-> Current, signal |-> v])
    BY <1>0, RestoreCases
  <1>2. [slot |-> Current, signal |-> v] \in RestoreType
    BY <1>0, <1>1 DEF RestoreType
  <1>3. /\ Len(restores') = Len(restores) + 1 /\ restores'[Len(restores) + 1] = [slot |-> Current, signal |-> v]
        /\ \A k \in 1..Len(restores) : restores'[k] = restores[k]
    BY <1>0, <1>1, <1>2
  <1>4. /\ slots'[Current].complete = serial + 1 /\ SameBooks(Current)
        /\ \A i \in SlotIndex : i # Current => slots'[i] = slots[i]
    BY <1>0, ValueWrites
  <1>5. /\ serial' = serial + 1 /\ UNCHANGED <<fence, signals, flushed, rendered, present, presented>>
        /\ render.at = "restore"
        /\ (render'.at = "restoring" /\ abandoned' = abandoned) \/ (render'.at = "idle" /\ abandoned' = abandoned \cup {Current})
    BY <1>0, RestoreCases, IdleTypes DEF Advances
  <1> QED BY <1>1, <1>3, <1>4, <1>5 DEF SameBooks

\* D3D11 reaches its next signal.
LEMMA SignalReached ==
  ASSUME BaseInv, D3D11Signals
  PROVE  /\ Len(signals) > 0 /\ fence' = signals[1] /\ Len(signals') = Len(signals) - 1 /\ flushed' = flushed - 1
         /\ \A k \in 1..Len(signals') : signals'[k] = signals[k + 1]
         /\ UNCHANGED <<slots, render, rendered, present, presented, serial, restores>>
  <1>1. signals \in Seq(Nat) /\ flushed \in 0..Len(signals) /\ flushed > 0
    BY BaseParts DEF FenceTypes, D3D11Signals
  <1>2. Len(signals) > 0 /\ signals # <<>>
    BY <1>1
  <1>3. fence' = Head(signals) /\ signals' = Tail(signals) /\ flushed' = flushed - 1
    BY DEF D3D11Signals, SetFence
  <1>4. Head(signals) = signals[1] /\ Len(Tail(signals)) = Len(signals) - 1
        /\ \A k \in 1..Len(Tail(signals)) : Tail(signals)[k] = signals[k + 1]
    BY <1>1, <1>2
  <1> QED BY <1>2, <1>3, <1>4 DEF D3D11Signals, presentVars

\* The interop queue runs its next list, and signals its value if it is to.
LEMMA InteropStep ==
  ASSUME BaseInv, InteropRestores
  PROVE  /\ Len(restores) > 0 /\ Len(restores') = Len(restores) - 1 /\ (fence' = fence \/ fence' = restores[1].signal)
         /\ \A k \in 1..Len(restores') : restores'[k] = restores[k + 1]
         /\ Head(restores) = restores[1] /\ restores[1].slot \in SlotIndex
         /\ state'[restores[1].slot] = "common"
         /\ \A i \in SlotIndex : i # restores[1].slot => state'[i] = state[i]
         /\ UNCHANGED <<slots, render, rendered, abandoned, present, presented, generation, serial, signals, flushed,
                        queue, joinIssued, joinDone, vendorIssued, vendorDone, vendorRead>>
  <1>1. restores \in Seq(RestoreType) /\ restores # <<>> /\ (state \in [SlotIndex -> {"common", "read"}])
    BY BaseParts DEF FenceTypes, InteropRestores
  <1>2. Len(restores) > 0 /\ Head(restores) = restores[1] /\ Head(restores) \in RestoreType /\ Len(Tail(restores)) = Len(restores) - 1
        /\ \A k \in 1..Len(Tail(restores)) : Tail(restores)[k] = restores[k + 1]
    BY <1>1
  <1>3. /\ restores' = Tail(restores) /\ state' = [state EXCEPT ![Head(restores).slot] = "common"]
        /\ (fence' = fence \/ fence' = Head(restores).signal)
    BY DEF InteropRestores, SetFence
  <1>4. restores[1].slot \in SlotIndex
    BY <1>2 DEF RestoreType
  <1>5. UNCHANGED <<slots, render, rendered, abandoned, present, presented, generation, serial, signals, flushed,
                    queue, joinIssued, joinDone, vendorIssued, vendorDone, vendorRead>>
    BY DEF InteropRestores, presentVars, queueVars, vendorVars
  <1> QED BY <1>1, <1>2, <1>3, <1>4, <1>5

\* The order of the signals.
LEMMA SignalsStep == BaseInv /\ [Next]_vars => SignalsRise'
  <1> SUFFICES ASSUME BaseInv, [Next]_vars PROVE SignalsRise'
    OBVIOUS
  <1>0. Len(signals) \in Nat /\ Len(restores) \in Nat /\ serial \in Nat /\ fence \in Nat /\ SignalsRise
    BY SignalTypes, BaseParts
  <1>5. /\ \A k \in 1..Len(signals) : signals[k] \in Nat /\ signals[k] <= serial
        /\ \A k \in 1..Len(restores) : restores[k].signal \in Nat /\ restores[k].signal <= serial
        /\ \A i \in SlotIndex : slots[i].complete \in Nat /\ slots[i].complete <= serial
    BY <1>0, SignalTypes DEF SignalsRise
  <1>1. CASE Copy \/ Final
    <2>1. \A i \in SlotIndex : slots'[i].complete \in {serial + 1, slots[i].complete}
      BY <1>1, CopyStep
    <2>2. \A i \in SlotIndex : slots'[i].complete <= serial + 1
      BY <1>0, <1>5, <2>1
    <2>3. fence' <= serial' /\ serial' = serial + 1 /\ restores' = restores
      BY <1>0, <1>1, CopyStep DEF SignalsRise
    <2>4. \A k \in 1..Len(signals') : k \in 1..Len(signals) \/ k = Len(signals) + 1
      BY <1>0, <1>1, CopyStep
    <2>5. \A k \in 1..Len(signals) : signals'[k] = signals[k] /\ signals[k] \in Nat /\ signals[k] <= serial
      BY <1>1, <1>5, CopyStep
    <2>6. signals'[Len(signals) + 1] = serial + 1
      BY <1>1, CopyStep
    <2>7. \A k \in 1..Len(signals') : signals'[k] <= serial'
      BY <1>0, <2>3, <2>4, <2>5, <2>6
    <2>8. ASSUME NEW k \in 1..Len(signals'), NEW m \in 1..Len(signals'), k < m PROVE signals'[k] < signals'[m]
      <3>1. k \in 1..Len(signals)
        BY <1>0, <2>4, <2>8
      <3>2. CASE m \in 1..Len(signals)
        <4>1. signals[k] < signals[m]
          BY <1>0, <2>8, <3>1, <3>2 DEF SignalsRise
        <4> QED BY <2>5, <3>1, <3>2, <4>1
      <3>3. CASE m = Len(signals) + 1
        BY <1>0, <2>5, <2>6, <3>1, <3>3
      <3> QED BY <2>4, <3>2, <3>3
    <2>9. \A k \in 1..Len(restores') : restores'[k].signal <= serial'
      BY <1>0, <1>5, <2>3
    <2> QED BY <2>2, <2>3, <2>7, <2>8, <2>9 DEF SignalsRise
  <1>2. CASE Restore
    <2>1. \A i \in SlotIndex : slots'[i].complete \in {serial + 1, slots[i].complete}
      BY <1>2, RestoreStep
    <2>2. \A i \in SlotIndex : slots'[i].complete <= serial + 1
      BY <1>0, <1>5, <2>1
    <2>3. serial' = serial + 1 /\ fence' = fence /\ signals' = signals
      BY <1>2, RestoreStep
    <2>4. \A k \in 1..Len(signals) : signals[k] <= serial + 1
      BY <1>0, <1>5
    <2>5. \A k \in 1..Len(restores') : restores'[k].signal <= serial'
      <3>1. \A k \in 1..Len(restores') : k \in 1..Len(restores) \/ k = Len(restores) + 1
        BY <1>0, <1>2, RestoreStep
      <3>2. \A k \in 1..Len(restores) : restores'[k] = restores[k]
        BY <1>2, RestoreStep
      <3>3. restores'[Len(restores) + 1].signal \in {0, serial + 1}
        BY <1>2, RestoreStep
      <3> QED BY <1>0, <1>5, <2>3, <3>1, <3>2, <3>3
    <2>6. fence' <= serial'
      BY <1>0, <2>3 DEF SignalsRise
    <2> QED BY <1>0, <2>2, <2>3, <2>4, <2>5, <2>6 DEF SignalsRise
  <1>3. CASE D3D11Signals
    <2>1. /\ Len(signals) > 0 /\ fence' = signals[1] /\ Len(signals') = Len(signals) - 1
          /\ \A k \in 1..Len(signals') : signals'[k] = signals[k + 1]
          /\ slots' = slots /\ serial' = serial /\ restores' = restores
      BY <1>3, SignalReached
    <2>2. \A k \in 1..Len(signals') : k + 1 \in 1..Len(signals)
      BY <1>0, <2>1
    <2>3. fence' <= serial
      BY <1>0, <2>1 DEF SignalsRise
    <2>4. \A k \in 1..Len(signals') : signals'[k] <= serial
      BY <1>5, <2>1, <2>2
    <2>5. ASSUME NEW k \in 1..Len(signals'), NEW m \in 1..Len(signals'), k < m PROVE signals'[k] < signals'[m]
      <3>1. k + 1 \in 1..Len(signals) /\ m + 1 \in 1..Len(signals) /\ k + 1 < m + 1
        BY <2>2, <2>5
      <3>2. signals[k + 1] < signals[m + 1]
        BY <1>0, <3>1 DEF SignalsRise
      <3> QED BY <2>1, <2>5, <3>2
    <2>6. \A i \in SlotIndex : slots'[i].complete <= serial
      BY <1>5, <2>1
    <2>7. \A k \in 1..Len(restores') : restores'[k].signal <= serial
      BY <1>5, <2>1
    <2> QED BY <2>1, <2>3, <2>4, <2>5, <2>6, <2>7 DEF SignalsRise
  <1>4. CASE InteropRestores
    <2>1. /\ Len(restores) > 0 /\ Len(restores') = Len(restores) - 1 /\ (fence' = fence \/ fence' = restores[1].signal)
          /\ \A k \in 1..Len(restores') : restores'[k] = restores[k + 1]
          /\ UNCHANGED <<slots, serial, signals>>
      BY <1>4, InteropStep
    <2>2. \A k \in 1..Len(restores') : k + 1 \in 1..Len(restores)
      BY <1>0, <2>1
    <2>3. fence' <= serial
      BY <1>0, <1>5, <2>1 DEF SignalsRise
    <2>4. \A k \in 1..Len(restores') : restores'[k].signal <= serial
      BY <1>5, <2>1, <2>2
    <2> QED BY <1>0, <2>1, <2>3, <2>4 DEF SignalsRise
  <1>6. CASE ~Copy /\ ~Final /\ ~Restore /\ ~D3D11Signals /\ ~InteropRestores
    BY <1>0, <1>6, SignalsElsewhere, BooksOfSlots DEF SignalsRise
  <1> QED BY <1>1, <1>2, <1>3, <1>4, <1>6

\* The restore that is waited for stays the last.
LEMMA RestoreLastStep == BaseInv /\ [Next]_vars => RestoreLast'
  <1> SUFFICES ASSUME BaseInv, [Next]_vars, render'.at = "restoring"
               PROVE  /\ slots'[Current'].complete = serial' /\ (\A k \in 1..Len(signals') : signals'[k] < serial')
                      /\ Len(restores') = 0
                         \/ (fence' < serial' /\ \A k \in 1..(Len(restores') - 1) : restores'[k].signal < serial')
    BY DEF RestoreLast
  <1>0. /\ TypeOK /\ SignalsRise /\ RestoreLast /\ Len(signals) \in Nat /\ Len(restores) \in Nat /\ serial \in Nat /\ fence \in Nat
        /\ Current \in SlotIndex /\ \A k \in 1..Len(signals) : signals[k] \in Nat
        /\ \A k \in 1..Len(restores) : restores[k].signal \in Nat
    BY SignalTypes, BaseParts
  <1>1. CASE Restore
    <2>1. Current' = Current /\ slots'[Current].complete = serial' /\ serial' = serial + 1 /\ signals' = signals /\ fence' = fence
      BY <1>1, RestoreStep DEF Current
    <2>2. \A k \in 1..Len(signals) : signals[k] < serial + 1
      BY <1>0 DEF SignalsRise
    <2>3. fence < serial + 1
      BY <1>0 DEF SignalsRise
    <2>4. \A k \in 1..(Len(restores') - 1) : restores'[k].signal < serial + 1
      <3>1. Len(restores') = Len(restores) + 1 /\ \A k \in 1..Len(restores) : restores'[k] = restores[k]
        BY <1>1, RestoreStep
      <3>2. \A k \in 1..Len(restores) : restores[k].signal < serial + 1
        BY <1>0 DEF SignalsRise
      <3>3. \A k \in 1..(Len(restores') - 1) : k \in 1..Len(restores)
        BY <1>0, <3>1
      <3> QED BY <3>1, <3>2, <3>3
    <2> QED BY <2>1, <2>2, <2>3, <2>4
  <1>2. CASE ~Restore
    <2>0. /\ render.at = "restoring" /\ Current' = Current /\ slots'[Current].complete = slots[Current].complete
          /\ ~Copy /\ ~Final
      <3>1. ~Copy /\ ~Final /\ ~Ask /\ ~EndRender
        <4>1. ~Copy /\ ~Final
          BY CopyStep
        <4>2. ~Ask
          BY DEF Ask, AskFor
        <4>3. ~EndRender
          BY DEF EndRender
        <4> QED BY <4>1, <4>2, <4>3
      <3>2. slots'[Current].complete = slots[Current].complete
        BY <1>0, <1>2, <3>1, BooksOfSlots
      <3>3. CASE Moves
        <4>1. render.at = "restoring"
          BY <1>0, <3>3, MoveCases, IdleTypes DEF Advances
        <4> QED BY <3>1, <3>2, <3>3, <4>1, MovesKeep DEF Current
      <3>4. CASE ~Moves
        BY <1>2, <3>1, <3>2, <3>4, CurrentKept DEF RenderSteps
      <3> QED BY <3>3, <3>4
    <2>1. /\ slots[Current].complete = serial /\ (\A k \in 1..Len(signals) : signals[k] < serial)
          /\ Len(restores) = 0 \/ (fence < serial /\ \A k \in 1..(Len(restores) - 1) : restores[k].signal < serial)
      BY <1>0, <2>0 DEF RestoreLast
    <2>2. CASE D3D11Signals
      <3>1. /\ Len(signals) > 0 /\ fence' = signals[1] /\ Len(signals') = Len(signals) - 1
            /\ \A k \in 1..Len(signals') : signals'[k] = signals[k + 1]
            /\ serial' = serial /\ restores' = restores
        BY <2>2, SignalReached
      <3>2. \A k \in 1..Len(signals') : k + 1 \in 1..Len(signals)
        BY <1>0, <3>1
      <3>3. fence' < serial'
        BY <1>0, <2>1, <3>1
      <3>4. \A k \in 1..Len(signals') : signals'[k] < serial'
        BY <2>1, <3>1, <3>2
      <3> QED BY <2>0, <2>1, <3>1, <3>3, <3>4
    <2>3. CASE InteropRestores
      <3>1. /\ Len(restores) > 0 /\ Len(restores') = Len(restores) - 1 /\ (fence' = fence \/ fence' = restores[1].signal)
            /\ \A k \in 1..Len(restores') : restores'[k] = restores[k + 1]
            /\ UNCHANGED <<serial, signals>>
        BY <2>3, InteropStep
      <3>2. CASE Len(restores) = 1
        BY <1>0, <2>0, <2>1, <3>1, <3>2
      <3>3. CASE Len(restores) > 1
        <4>1. 1 \in 1..(Len(restores) - 1) /\ fence < serial
          BY <1>0, <2>1, <3>3
        <4>2. fence' < serial'
          BY <1>0, <2>1, <3>1, <4>1
        <4>3. \A k \in 1..(Len(restores') - 1) : k + 1 \in 1..(Len(restores) - 1) /\ k \in 1..Len(restores')
          BY <1>0, <3>1
        <4>4. \A k \in 1..(Len(restores') - 1) : restores'[k].signal < serial'
          <5>1. \A k \in 1..(Len(restores) - 1) : restores[k].signal < serial
            BY <1>0, <2>1, <3>3
          <5> QED BY <3>1, <4>3, <5>1
        <4> QED BY <2>0, <2>1, <3>1, <4>2, <4>4
      <3> QED BY <1>0, <3>1, <3>2, <3>3
    <2>4. CASE ~D3D11Signals /\ ~InteropRestores
      <3>1. UNCHANGED <<serial, fence, signals, restores>>
        BY <1>2, <2>0, <2>4, SignalsElsewhere
      <3> QED BY <2>0, <2>1, <3>1
    <2> QED BY <2>2, <2>3, <2>4
  <1> QED BY <1>1, <1>2

\* Every step keeps the slots' numbers in their bounds.
LEMMA BooksStep ==
  ASSUME BaseInv, [Next]_vars, NEW i \in SlotIndex
  PROVE  SlotBooks(i)'
  <1>0. /\ TypeOK /\ TypeOK' /\ ThreadInv /\ SlotBooks(i) /\ SlotTypes /\ Current \in SlotIndex /\ SlotOf(Presenting) \in SlotIndex
    BY BaseParts, CurrentSlot, TypesStep
  <1>1. rendered \in Nat /\ joinIssued \in Nat /\ generation \in Nat /\ joinIssued' \in Nat /\ slots[i] \in Slot /\ slots'[i] \in Slot
        /\ (rendered' \in {rendered, rendered + 1}) /\ (joinIssued' \in {joinIssued, joinIssued + 1})
        /\ (generation' \in {generation, generation + 1})
    <2>1. (rendered' \in {rendered, rendered + 1}) /\ (joinIssued' \in {joinIssued, joinIssued + 1})
          /\ (generation' \in {generation, generation + 1})
      BY Steps, MovesKeep DEF vars, renderVars, presentVars, queueVars, Ask, AskFor, Restore, Copy, Final,
             EndRender, PresentUntagged, PresentTagged, Retire, NothingToRetire, Record, RecordAs, EndPresent,
             D3D11Signals, InteropRestores, StartReads, Join, VendorFinishes
    <2> QED BY <1>0, <2>1 DEF TypeOK
  <1>2. slots[i].source \in Nat /\ slots[i].join \in Nat /\ slots[i].heldIn \in Nat
    BY <1>1 DEF Slot
  <1>3. CASE RenderSteps
    <2>1. slots'[i].join = slots[i].join /\ slots'[i].source \in {slots[i].source, rendered + 1}
          /\ (slots'[i].unknown => slots[i].unknown /\ slots'[i].heldIn = slots[i].heldIn)
      <3>1. CASE Copy
        BY <1>0, <3>1, CopyWrites
      <3>2. CASE Ask
        BY <1>0, <3>2, AskWrites
      <3>3. CASE Restore \/ Final
        BY <1>0, <3>3, ValueWrites DEF SameBooks
      <3>4. CASE Moves
        BY <1>0, <3>4, MoveCases, ClearWrites
      <3> QED BY <1>3, <3>1, <3>2, <3>3, <3>4 DEF RenderSteps
    <2> QED BY <1>0, <1>1, <1>2, <2>1 DEF SlotBooks
  <1>4. CASE PresentTagged
    <2>1. PICK ok \in BOOLEAN : slots' = [slots EXCEPT ![SlotOf(Presenting)].prepared = ok]
      BY <1>4, Zenon DEF PresentTagged
    <2>2. slots'[i].join = slots[i].join /\ slots'[i].source = slots[i].source /\ slots'[i].unknown = slots[i].unknown
          /\ slots'[i].heldIn = slots[i].heldIn
      BY <1>0, <1>1, <2>1 DEF SlotTypes, Slot
    <2> QED BY <1>0, <1>1, <1>2, <2>2 DEF SlotBooks
  <1>5. CASE Record
    <2>1. slots' = RecordAll /\ UNCHANGED <<rendered, joinIssued, generation>>
      BY <1>5 DEF Record, RecordAs, renderVars, queueVars
    <2>2. present.join <= joinIssued
      BY <1>0 DEF ThreadInv
    <2>3. CASE present.join # 0
      <3>1. slots'[i] = AfterJoin(i)
        BY <2>1, <2>3 DEF RecordAll
      <3> QED BY <1>0, <1>1, <1>2, <2>1, <2>2, <3>1 DEF AfterJoin, Joined, SlotBooks, Slot
    <2>4. CASE present.join = 0
      <3>1. slots'[i] = AfterFailure(i)
        BY <2>1, <2>4 DEF RecordAll
      <3> QED BY <1>0, <1>1, <1>2, <2>1, <3>1 DEF AfterFailure, Unjoined, SlotBooks, Slot
    <2> QED BY <2>3, <2>4
  <1>6. CASE slots' = slots
    BY <1>0, <1>1, <1>2, <1>6 DEF SlotBooks
  <1>7. RenderSteps \/ PresentTagged \/ Record \/ slots' = slots
    BY Steps DEF RenderSteps, vars, EndRender, PresentUntagged, Retire, NothingToRetire,
           EndPresent, D3D11Signals, InteropRestores, StartReads, Join, VendorFinishes
  <1> QED BY <1>3, <1>4, <1>5, <1>6, <1>7

\* A read is queued: it signals nothing.
LEMMA ReadInOrder ==
  ASSUME BaseInv, PresentTagged
  PROVE  JoinsInv'
  <1> DEFINE e == [kind |-> "read", slot |-> SlotOf(Presenting), after |-> serial, signal |-> 0]
  <1>1. JoinsInv /\ queue \in Seq(Entry) /\ joinIssued \in Nat /\ e \in Entry
    BY BaseParts, CurrentSlot, SlotsAssumption DEF FenceTypes, Entry, SlotIndex
  <1>2. queue' = Append(queue, e) /\ UNCHANGED <<joinIssued, joinDone>>
    BY DEF PresentTagged
  <1>3. e.kind = "read" /\ e.signal = 0
    OBVIOUS
  <1> HIDE DEF e
  <1>4. /\ Len(queue') = Len(queue) + 1 /\ Len(queue) \in Nat
        /\ \A k \in 1..Len(queue) : queue'[k] = queue[k]
        /\ queue'[Len(queue) + 1] = e
    BY <1>1, <1>2, Appended
  <1>5. InOrder(queue', joinDone)
    BY <1>1, <1>3, <1>4 DEF InOrder, JoinsInv
  <1>6. \A k \in 1..Len(queue') : queue'[k].signal <= joinIssued
    BY <1>1, <1>3, <1>4 DEF JoinsInv
  <1> QED BY <1>1, <1>2, <1>5, <1>6 DEF JoinsInv

\* A join is queued behind every other.
LEMMA JoinInOrder ==
  ASSUME BaseInv, Retire, queue' # queue
  PROVE  JoinsInv' /\ joinIssued' = joinIssued + 1
  <1> DEFINE e == [kind |-> "join", slot |-> present.tagged, after |-> vendorIssued, signal |-> joinIssued + 1]
  <1>1. JoinsInv /\ queue \in Seq(Entry) /\ joinIssued \in Nat /\ joinDone \in Nat /\ e \in Entry
    BY BaseParts DEF FenceTypes, ThreadTypes, Entry
  <1>2. queue' = Append(queue, e) /\ joinIssued' = joinIssued + 1 /\ joinDone' = joinDone
    BY DEF Retire
  <1>3. e.kind = "join" /\ e.signal = joinIssued + 1
    OBVIOUS
  <1> HIDE DEF e
  <1>4. /\ Len(queue') = Len(queue) + 1 /\ Len(queue) \in Nat
        /\ \A k \in 1..Len(queue) : queue'[k] = queue[k] /\ queue[k] \in Entry
        /\ queue'[Len(queue) + 1] = e
    BY <1>1, <1>2, Appended
  <1>5. \A k \in 1..Len(queue) : queue[k].signal \in Nat /\ queue[k].signal <= joinIssued
    BY <1>1, <1>4 DEF Entry, JoinsInv
  <1>6. \A k \in 1..Len(queue') : queue'[k].kind = "join" => joinDone < queue'[k].signal
    BY <1>1, <1>3, <1>4 DEF InOrder, JoinsInv
  <1>7. ASSUME NEW k \in 1..Len(queue'), NEW m \in 1..Len(queue'), k < m, queue'[k].kind = "join", queue'[m].kind = "join"
        PROVE  queue'[k].signal < queue'[m].signal
    <2>1. k \in 1..Len(queue) /\ queue'[k] = queue[k]
      BY <1>4, <1>7
    <2>2. CASE m \in 1..Len(queue)
      <3>1. queue'[m] = queue[m]
        BY <1>4, <2>2
      <3> QED BY <1>1, <1>7, <2>1, <2>2, <3>1 DEF InOrder, JoinsInv
    <2>3. CASE m = Len(queue) + 1
      BY <1>1, <1>3, <1>4, <1>5, <2>1, <2>3
    <2> QED BY <1>4, <1>7, <2>2, <2>3
  <1>8. InOrder(queue', joinDone)
    BY <1>6, <1>7 DEF InOrder
  <1>9. \A k \in 1..Len(queue') : queue'[k].signal <= joinIssued + 1
    BY <1>1, <1>3, <1>4, <1>5
  <1> QED BY <1>1, <1>2, <1>8, <1>9 DEF JoinsInv

\* The first entry runs.
LEMMA PoppedInOrder ==
  ASSUME BaseInv, StartReads \/ Join
  PROVE  JoinsInv'
  <1>1. JoinsInv /\ queue \in Seq(Entry) /\ joinIssued \in Nat
    BY BaseParts DEF FenceTypes
  <1>2. queue # <<>> /\ queue' = Tail(queue) /\ joinIssued' = joinIssued
        /\ joinDone' = (IF Head(queue).kind = "join" THEN Head(queue).signal ELSE joinDone)
    BY DEF StartReads, Join
  <1>3. /\ Len(queue) \in Nat /\ Len(queue) > 0 /\ Len(queue') = Len(queue) - 1 /\ Head(queue) = queue[1] /\ Head(queue) \in Entry
        /\ \A k \in 1..Len(queue') : queue'[k] = queue[k + 1]
    BY <1>1, <1>2, Popped
  <1>4. ASSUME NEW k \in 1..Len(queue'), queue'[k].kind = "join" PROVE joinDone' < queue'[k].signal
    <2>1. 1 \in 1..Len(queue) /\ k + 1 \in 1..Len(queue) /\ 1 < k + 1 /\ queue'[k] = queue[k + 1]
      BY <1>3, <1>4
    <2> QED BY <1>1, <1>2, <1>3, <1>4, <2>1 DEF InOrder, JoinsInv
  <1>5. ASSUME NEW k \in 1..Len(queue'), NEW m \in 1..Len(queue'), k < m, queue'[k].kind = "join", queue'[m].kind = "join"
        PROVE  queue'[k].signal < queue'[m].signal
    <2>1. k + 1 \in 1..Len(queue) /\ m + 1 \in 1..Len(queue) /\ k + 1 < m + 1
          /\ queue'[k] = queue[k + 1] /\ queue'[m] = queue[m + 1]
      BY <1>3, <1>5
    <2> QED BY <1>1, <1>5, <2>1 DEF InOrder, JoinsInv
  <1>6. joinDone' <= joinIssued
    BY <1>1, <1>2, <1>3 DEF JoinsInv
  <1>7. \A k \in 1..Len(queue') : queue'[k].signal <= joinIssued
    <2>1. \A k \in 1..Len(queue') : k + 1 \in 1..Len(queue)
      BY <1>3
    <2> QED BY <1>1, <1>3, <2>1 DEF JoinsInv
  <1> QED BY <1>2, <1>4, <1>5, <1>6, <1>7 DEF InOrder, JoinsInv

\* What moves the queue, the fences behind it and the surfaces.
LEMMA QueueMovers ==
  ASSUME [Next]_vars
  PROVE  /\ PresentTagged \/ StartReads \/ Join \/ (Retire /\ queue' # queue) \/ UNCHANGED <<queue, joinIssued>>
         /\ Join \/ joinDone' = joinDone
         /\ VendorFinishes \/ vendorDone' = vendorDone
         /\ PresentTagged \/ UNCHANGED <<vendorIssued, vendorRead>>
         /\ InteropRestores \/ StartReads \/ Join \/ state' = state
  <1>1. PresentTagged \/ StartReads \/ Join \/ (Retire /\ queue' # queue) \/ UNCHANGED <<queue, joinIssued>>
    <2>1. Retire => queue' # queue \/ UNCHANGED <<queue, joinIssued>>
      BY DEF Retire
    <2> QED
      BY <2>1, Steps, MovesKeep DEF vars, queueVars, Ask, AskFor, Restore, Copy, Final, EndRender,
             PresentUntagged, NothingToRetire, Record, RecordAs, EndPresent, D3D11Signals, InteropRestores, VendorFinishes
  <1>2. Join \/ joinDone' = joinDone
    BY Steps, MovesKeep DEF vars, queueVars, Ask, AskFor, Restore, Copy, Final, EndRender,
           PresentUntagged, PresentTagged, Retire, NothingToRetire, Record, RecordAs, EndPresent, D3D11Signals,
           InteropRestores, StartReads, VendorFinishes
  <1>3. VendorFinishes \/ vendorDone' = vendorDone
    BY Steps, MovesKeep DEF vars, vendorVars, Ask, AskFor, Restore, Copy, Final, EndRender,
           PresentUntagged, PresentTagged, Retire, NothingToRetire, Record, RecordAs, EndPresent, D3D11Signals,
           InteropRestores, StartReads, Join
  <1>4. PresentTagged \/ UNCHANGED <<vendorIssued, vendorRead>>
    BY Steps, MovesKeep DEF vars, vendorVars, Ask, AskFor, Restore, Copy, Final, EndRender,
           PresentUntagged, Retire, NothingToRetire, Record, RecordAs, EndPresent, D3D11Signals,
           InteropRestores, StartReads, Join, VendorFinishes
  <1>5. InteropRestores \/ StartReads \/ Join \/ state' = state
    BY Steps, MovesKeep DEF vars, Ask, AskFor, Restore, Copy, Final, EndRender, PresentTagged,
           PresentUntagged, Retire, NothingToRetire, Record, RecordAs, EndPresent, D3D11Signals, VendorFinishes
  <1> QED BY <1>1, <1>2, <1>3, <1>4, <1>5

\* Every step keeps the joins in order.
LEMMA JoinsStep == BaseInv /\ [Next]_vars => JoinsInv'
  <1> SUFFICES ASSUME BaseInv, [Next]_vars PROVE JoinsInv'
    OBVIOUS
  <1>1. JoinsInv
    BY BaseParts
  <1>2. CASE UNCHANGED <<queue, joinIssued, joinDone>>
    BY <1>1, <1>2 DEF JoinsInv
  <1> QED BY <1>2, QueueMovers, ReadInOrder, JoinInOrder, PoppedInOrder

\* At first.
LEMMA BaseStart == Init => BaseInv
  <1> SUFFICES ASSUME Init PROVE BaseInv
    OBVIOUS
  <1>1. ThreadInv /\ WaitInv /\ RestoreLast
    BY DEF Init, Waiting, Idle, ThreadInv, WaitInv, RestoreLast
  <1>2. SignalsRise
    BY DEF Init, SignalsRise, EmptySlot
  <1>3. JoinsInv
    BY DEF Init, JoinsInv, InOrder
  <1>4. \A i \in SlotIndex : SlotBooks(i)
    BY DEF Init, SlotBooks, EmptySlot
  <1> QED BY <1>1, <1>2, <1>3, <1>4, TypesStart DEF BaseInv

\* Every step keeps it.
LEMMA BaseStep == BaseInv /\ [Next]_vars => BaseInv'
  <1> SUFFICES ASSUME BaseInv, [Next]_vars PROVE BaseInv'
    OBVIOUS
  <1>1. TypeOK'
    BY TypesStep, BaseParts
  <1>2. \A i \in SlotIndex : SlotBooks(i)'
    BY BooksStep
  <1> QED BY <1>1, <1>2, ThreadStep, WaitStep, SignalsStep, RestoreLastStep, JoinsStep DEF BaseInv

\* The invariant of every execution.
LEMMA Base == Spec => []BaseInv
  BY BaseStart, BaseStep, PTL DEF Spec

-------------------------------------------------------------------------------
\* The provider queue.

\* The invariant and the types it rests on.
LEMMA RingParts ==
  ASSUME RingInv, NEW i \in SlotIndex
  PROVE  /\ BaseInv /\ TypeOK /\ ThreadInv /\ WaitInv /\ SlotTypes /\ ThreadTypes /\ FenceTypes /\ WaitTypes
         /\ QueueInv /\ RecordInv /\ RenderInv
         /\ SlotBooks(i) /\ SlotGiven(i) /\ SlotTruth(i) /\ SlotReady(i)
         /\ queue \in Seq(Entry) /\ slots[i] \in Slot /\ i # NoSlot /\ Current \in SlotIndex /\ SlotOf(Presenting) \in SlotIndex
  <1>1. BaseInv /\ QueueInv /\ RecordInv /\ RenderInv /\ SlotGiven(i) /\ SlotTruth(i) /\ SlotReady(i)
    BY DEF RingInv
  <1>2. i # NoSlot
    BY SlotsAssumption DEF SlotIndex, NoSlot
  <1> QED BY <1>1, <1>2, BaseParts, CurrentSlot

\* The parts that are not about one slot.
LEMMA RingHeads ==
  ASSUME RingInv
  PROVE  /\ BaseInv /\ TypeOK /\ ThreadInv /\ WaitInv /\ SlotTypes /\ ThreadTypes /\ FenceTypes /\ WaitTypes
         /\ QueueInv /\ RecordInv /\ RenderInv /\ JoinsInv /\ RestoreLast
         /\ queue \in Seq(Entry) /\ Current \in SlotIndex /\ SlotOf(Presenting) \in SlotIndex
  <1>1. BaseInv /\ QueueInv /\ RecordInv /\ RenderInv
    BY DEF RingInv
  <1> QED BY <1>1, BaseParts, CurrentSlot

\* What can be tagged is ready.
LEMMA TaggedIsReady ==
  ASSUME RingInv, PresentTagged
  PROVE  Ready(SlotOf(Presenting))
  <1>1. TypeOK
    BY RingHeads
  <1> QED BY <1>1, SMTT(30) DEF PresentTagged, Upload, Ready, Presenting, TypeOK

\* A read starts.
LEMMA ReadAppended ==
  ASSUME RingInv, PresentTagged
  PROVE  OneRound(queue') /\ Matches(queue', state')
  <1> DEFINE i == SlotOf(Presenting)
             e == [kind |-> "read", slot |-> i, after |-> serial, signal |-> 0]
  <1>1. TypeOK /\ QueueInv /\ i \in SlotIndex /\ i # NoSlot /\ SlotReady(i) /\ Ready(i)
    BY RingHeads, RingParts, TaggedIsReady, CurrentSlot
  <1>2. e \in Entry /\ queue \in Seq(Entry) /\ joinIssued \in Nat
    BY <1>1, TypeParts, SlotsAssumption DEF Entry, TypeOK, QueueTypes, SlotIndex
  <1>3. queue' = Append(queue, e) /\ state' = state
    BY DEF PresentTagged
  <1>4. Unqueued(queue, i) /\ state[i] = "common"
    BY <1>1 DEF SlotReady
  <1>5. e.kind = "read" /\ e.slot = i /\ e.signal = 0
    OBVIOUS
  <1> HIDE DEF i, e
  <1>6. /\ Len(queue') = Len(queue) + 1 /\ Len(queue) \in Nat
        /\ \A k \in 1..Len(queue) : queue'[k] = queue[k]
        /\ queue'[Len(queue) + 1] = e
    BY <1>2, <1>3, Appended
  <1>7. OneRound(queue')
    <2>1. ASSUME NEW k \in 1..Len(queue'), NEW m \in 1..Len(queue'), k < m,
                 queue'[k].slot = queue'[m].slot, queue'[k].slot # NoSlot
          PROVE  queue'[k].kind = "read" /\ queue'[m].kind = "join"
      <3>1. k \in 1..Len(queue) /\ queue'[k] = queue[k]
        BY <1>6, <2>1
      <3>2. m \in 1..Len(queue)
        BY <1>4, <1>5, <1>6, <2>1, <3>1 DEF Unqueued
      <3>3. queue'[m] = queue[m]
        BY <1>6, <3>2
      <3> QED BY <1>1, <2>1, <3>1, <3>2, <3>3 DEF OneRound, QueueInv
    <2> QED BY <2>1 DEF OneRound
  <1>8. Matches(queue', state')
    BY <1>1, <1>3, <1>4, <1>5, <1>6 DEF Matches, QueueInv
  <1> QED BY <1>7, <1>8

\* A join is queued behind everything.
LEMMA JoinAppended ==
  ASSUME RingInv, Retire, queue' # queue
  PROVE  OneRound(queue') /\ Matches(queue', state')
  <1> DEFINE i == present.tagged
             e == [kind |-> "join", slot |-> i, after |-> vendorIssued, signal |-> joinIssued + 1]
  <1>1. TypeOK /\ ThreadInv /\ QueueInv /\ i \in 0 .. Slots /\ joinDone \in Nat /\ joinIssued \in Nat /\ vendorIssued \in Nat
    BY RingHeads DEF FenceTypes, ThreadTypes
  <1>2. e \in Entry /\ queue \in Seq(Entry)
    BY <1>1, RingHeads DEF Entry
  <1>3. queue' = Append(queue, e) /\ state' = state /\ joinIssued' = joinIssued + 1
    BY DEF Retire
  <1>4. i # NoSlot => ~IsQueued(queue, "join", i) /\ Outcome(queue, state[i], i) = "read"
    <2>1. ASSUME i # NoSlot PROVE i \in SlotIndex
      BY <1>1, <2>1, SlotsAssumption DEF SlotIndex, NoSlot
    <2> QED BY <2>1, RingParts DEF SlotTruth, Retire
  <1>5. e.kind = "join" /\ e.slot = i /\ e.signal = joinIssued + 1
    OBVIOUS
  <1> HIDE DEF i, e
  <1>6. /\ Len(queue') = Len(queue) + 1 /\ Len(queue) \in Nat
        /\ \A k \in 1..Len(queue) : queue'[k] = queue[k] /\ queue[k] \in Entry
        /\ queue'[Len(queue) + 1] = e
    BY <1>2, <1>3, Appended
  <1>7. \A k \in 1..Len(queue) : queue[k].kind \in {"read", "join"} /\ queue[k].signal \in Nat
    BY <1>6 DEF Entry
  <1>8. OneRound(queue')
    <2>1. \A k \in 1..Len(queue) : i # NoSlot /\ queue[k].slot = i => queue[k].kind = "read"
      BY <1>4, <1>7 DEF IsQueued
    <2>2. ASSUME NEW k \in 1..Len(queue'), NEW m \in 1..Len(queue'), k < m,
                 queue'[k].slot = queue'[m].slot, queue'[k].slot # NoSlot
          PROVE  queue'[k].kind = "read" /\ queue'[m].kind = "join"
      <3>1. k \in 1..Len(queue) /\ queue'[k] = queue[k]
        BY <1>6, <2>2
      <3>2. CASE m \in 1..Len(queue)
        <4>1. queue'[m] = queue[m]
          BY <1>6, <3>2
        <4> QED BY <1>1, <2>2, <3>1, <3>2, <4>1 DEF OneRound, QueueInv
      <3>3. CASE m = Len(queue) + 1
        BY <1>5, <1>6, <2>1, <2>2, <3>1, <3>3
      <3> QED BY <1>6, <3>2, <3>3
    <2> QED BY <2>2 DEF OneRound
  <1>9. Matches(queue', state')
    <2>1. i # NoSlot => state[i] = "read" \/ \E l \in 1..Len(queue) : queue[l].kind = "read" /\ queue[l].slot = i
      BY <1>4 DEF Outcome, IsQueued
    <2>2. ASSUME NEW k \in 1..Len(queue'), queue'[k].kind = "read"
          PROVE  queue'[k].slot # NoSlot /\ state[queue'[k].slot] = "common"
      BY <1>1, <1>5, <1>6, <2>2 DEF Matches, QueueInv
    <2>3. ASSUME NEW k \in 1..Len(queue'), queue'[k].kind = "join", queue'[k].slot # NoSlot
          PROVE  \/ state[queue'[k].slot] = "read"
                 \/ \E l \in 1..(k - 1) : queue'[l].kind = "read" /\ queue'[l].slot = queue'[k].slot
      <3>1. CASE k \in 1..Len(queue)
        <4>1. state[queue[k].slot] = "read" \/ \E l \in 1..(k - 1) : queue[l].kind = "read" /\ queue[l].slot = queue[k].slot
          BY <1>1, <1>6, <2>3, <3>1 DEF Matches, QueueInv
        <4> QED BY <1>6, <3>1, <4>1
      <3>2. CASE k = Len(queue) + 1
        BY <1>5, <1>6, <2>1, <2>3, <3>2
      <3> QED BY <1>6, <3>1, <3>2
    <2> QED BY <1>3, <2>2, <2>3 DEF Matches
  <1> QED BY <1>8, <1>9

\* The first entry runs.
LEMMA QueuePopped ==
  ASSUME RingInv, StartReads \/ Join
  PROVE  /\ queue # <<>> /\ queue' = Tail(queue) /\ (Head(queue).kind = "join" => vendorDone >= Head(queue).after)
         /\ \A i \in SlotIndex : /\ Head(queue).slot # i => state'[i] = state[i]
                                 /\ Head(queue).slot = i => state'[i] = StateFor(Head(queue).kind = "read")
         /\ OneRound(queue') /\ Matches(queue', state')
  <1>1. TypeOK /\ QueueInv /\ queue \in Seq(Entry)
    BY RingHeads
  <1>2. queue # <<>> /\ queue' = Tail(queue) /\ (Head(queue).kind = "join" => vendorDone >= Head(queue).after)
    BY DEF StartReads, Join
  <1>3. /\ Len(queue) \in Nat /\ Len(queue) > 0 /\ Len(queue') = Len(queue) - 1 /\ Head(queue) = queue[1] /\ Head(queue) \in Entry
        /\ \A k \in 1..Len(queue') : queue'[k] = queue[k + 1]
    BY <1>1, <1>2, Popped
  <1>4. /\ Head(queue).kind \in {"read", "join"} /\ (Head(queue).slot \in 0 .. Slots) /\ Head(queue).signal \in Nat
    BY <1>3 DEF Entry
  <1>5. \A i \in SlotIndex : /\ Head(queue).slot # i => state'[i] = state[i]
                             /\ Head(queue).slot = i => state'[i] = StateFor(Head(queue).kind = "read")
    <2>1. CASE StartReads
      BY <1>1, <2>1 DEF StartReads, StateFor, TypeOK
    <2>2. CASE Join
      BY <1>1, <2>2 DEF Join, StateFor
    <2> QED BY <2>1, <2>2
  <1>6. OneRound(queue')
    <2>1. ASSUME NEW k \in 1..Len(queue'), NEW m \in 1..Len(queue'), k < m, queue'[k].slot = queue'[m].slot,
                 queue'[k].slot # NoSlot
          PROVE  queue'[k].kind = "read" /\ queue'[m].kind = "join"
      <3>1. k + 1 \in 1..Len(queue) /\ m + 1 \in 1..Len(queue) /\ k + 1 < m + 1
        BY <1>3, <2>1
      <3> QED BY <1>1, <1>3, <2>1, <3>1, SMTT(30) DEF OneRound, QueueInv
    <2> QED BY <2>1 DEF OneRound
  <1>7. \A k \in 1..Len(queue') : queue'[k].slot = Head(queue).slot /\ Head(queue).slot # NoSlot
                                     => Head(queue).kind = "read" /\ queue'[k].kind = "join"
    <2>1. ASSUME NEW k \in 1..Len(queue'), queue'[k].slot = Head(queue).slot, Head(queue).slot # NoSlot
          PROVE  Head(queue).kind = "read" /\ queue'[k].kind = "join"
      <3>1. 1 \in 1..Len(queue) /\ k + 1 \in 1..Len(queue) /\ 1 < k + 1 /\ queue'[k] = queue[k + 1]
        BY <1>3, <2>1
      <3> QED BY <1>1, <1>3, <2>1, <3>1 DEF OneRound, QueueInv
    <2> QED BY <2>1
  <1>8. \A k \in 1..Len(queue') : queue'[k].kind \in {"read", "join"} /\ (queue'[k].slot \in 0 .. Slots) /\ queue'[k].signal \in Nat
    <2>1. \A k \in 1..Len(queue) : queue[k] \in Entry
      BY <1>1
    <2>2. \A k \in 1..Len(queue') : queue'[k] \in Entry
      BY <1>3, <2>1
    <2> QED BY <2>2 DEF Entry
  <1>9. \A s \in 0 .. Slots : s # NoSlot => s \in SlotIndex
    BY SlotsAssumption DEF NoSlot, SlotIndex
  <1>10. Matches(queue', state')
    <2>1. ASSUME NEW k \in 1..Len(queue'), queue'[k].kind = "read"
          PROVE  queue'[k].slot # NoSlot /\ state'[queue'[k].slot] = "common"
      <3>1. k + 1 \in 1..Len(queue) /\ queue'[k] = queue[k + 1]
        BY <1>3, <2>1
      <3>2. queue'[k].slot # NoSlot /\ state[queue'[k].slot] = "common"
        BY <1>1, <2>1, <3>1 DEF Matches, QueueInv
      <3>3. Head(queue).slot # queue'[k].slot
        BY <1>7, <2>1, <3>2
      <3> QED BY <1>5, <1>8, <1>9, <3>2, <3>3
    <2>2. ASSUME NEW k \in 1..Len(queue'), queue'[k].kind = "join", queue'[k].slot # NoSlot
          PROVE  \/ state'[queue'[k].slot] = "read"
                 \/ \E l \in 1..(k - 1) : queue'[l].kind = "read" /\ queue'[l].slot = queue'[k].slot
      <3>1. k + 1 \in 1..Len(queue) /\ queue'[k] = queue[k + 1] /\ (queue'[k].slot \in SlotIndex)
        BY <1>3, <1>8, <1>9, <2>2
      <3>2. CASE Head(queue).slot = queue'[k].slot
        <4>1. Head(queue).kind = "read"
          BY <1>7, <2>2, <3>2
        <4> QED BY <1>5, <3>1, <3>2, <4>1 DEF StateFor
      <3>3. CASE Head(queue).slot # queue'[k].slot
        <4>1. \/ state[queue[k + 1].slot] = "read"
              \/ \E l \in 1..((k + 1) - 1) : queue[l].kind = "read" /\ queue[l].slot = queue[k + 1].slot
          BY <1>1, <2>2, <3>1 DEF Matches, QueueInv
        <4>2. CASE state[queue[k + 1].slot] = "read"
          BY <1>5, <3>1, <3>3, <4>2
        <4>3. ASSUME NEW l \in 1..k, queue[l].kind = "read", queue[l].slot = queue[k + 1].slot
              PROVE  \E n \in 1..(k - 1) : queue'[n].kind = "read" /\ queue'[n].slot = queue'[k].slot
          <5>1. l # 1
            BY <1>3, <3>1, <3>3, <4>3
          <5>2. l - 1 \in 1..(k - 1) /\ l - 1 \in 1..Len(queue') /\ queue'[l - 1] = queue[l]
            BY <1>3, <4>3, <5>1
          <5> QED BY <3>1, <4>3, <5>2
        <4> QED BY <4>1, <4>2, <4>3
      <3> QED BY <3>2, <3>3
    <2> QED BY <2>1, <2>2 DEF Matches
  <1> QED BY <1>2, <1>5, <1>6, <1>10

\* The tags a frame is presented with.
LEMMA TagStep ==
  ASSUME BaseInv, PresentTagged
  PROVE  /\ vendorDone' = vendorDone /\ vendorIssued' \in {vendorIssued, vendorIssued + 1}
         /\ \A i \in SlotIndex : i # SlotOf(Presenting) => vendorRead'[i] = vendorRead[i] /\ slots'[i] = slots[i]
         /\ vendorRead'[SlotOf(Presenting)] \in {vendorRead[SlotOf(Presenting)], vendorIssued'}
         /\ UNCHANGED <<joinIssued, joinDone, state, render, abandoned, restores, rendered, presented, generation>>
         /\ present' = [at |-> "retire", tagged |-> SlotOf(Presenting), join |-> 0]
         /\ slots'[SlotOf(Presenting)] \in
               {[slots[SlotOf(Presenting)] EXCEPT !.prepared = FALSE], [slots[SlotOf(Presenting)] EXCEPT !.prepared = TRUE]}
         /\ queue' = Append(queue, [kind |-> "read", slot |-> SlotOf(Presenting), after |-> serial, signal |-> 0])
         /\ present.at = "idle" /\ presented < rendered /\ slots[SlotOf(Presenting)].source = Presenting
  <1>1. TypeOK /\ SlotOf(Presenting) \in SlotIndex
    BY BaseParts, CurrentSlot
  <1>2. PICK ok \in BOOLEAN : /\ slots' = [slots EXCEPT ![SlotOf(Presenting)].prepared = ok]
                              /\ vendorIssued' = IF ok THEN vendorIssued + 1 ELSE vendorIssued
                              /\ vendorRead' = IF ok THEN [vendorRead EXCEPT ![SlotOf(Presenting)] = vendorIssued']
                                               ELSE vendorRead
    BY Zenon DEF PresentTagged
  <1>3. /\ vendorDone' = vendorDone /\ UNCHANGED <<joinIssued, joinDone, state, render, abandoned, restores, rendered, presented, generation>>
        /\ present' = [at |-> "retire", tagged |-> SlotOf(Presenting), join |-> 0]
        /\ queue' = Append(queue, [kind |-> "read", slot |-> SlotOf(Presenting), after |-> serial, signal |-> 0])
        /\ present.at = "idle" /\ presented < rendered /\ slots[SlotOf(Presenting)].source = Presenting
    BY DEF PresentTagged, Upload, renderVars, waitVars
  <1>4. \A i \in SlotIndex : i # SlotOf(Presenting) => vendorRead'[i] = vendorRead[i] /\ slots'[i] = slots[i]
    BY <1>1, <1>2 DEF TypeOK
  <1>5. vendorIssued' \in {vendorIssued, vendorIssued + 1}
        /\ vendorRead'[SlotOf(Presenting)] \in {vendorRead[SlotOf(Presenting)], vendorIssued'}
    BY <1>1, <1>2 DEF TypeOK
  <1>6. slots'[SlotOf(Presenting)] \in
               {[slots[SlotOf(Presenting)] EXCEPT !.prepared = FALSE], [slots[SlotOf(Presenting)] EXCEPT !.prepared = TRUE]}
    <2>1. CASE ok = TRUE
      BY <1>1, <1>2, <2>1 DEF TypeOK
    <2>2. CASE ok = FALSE
      BY <1>1, <1>2, <2>2 DEF TypeOK
    <2> QED BY <2>1, <2>2
  <1> QED BY <1>3, <1>4, <1>5, <1>6

\* A slot whose restoring list is next on the interop queue was given to it, and is used nowhere else.
LEMMA HeadIsGiven ==
  ASSUME RingInv, InteropRestores
  PROVE  LET h == restores[1].slot IN
         /\ h \in SlotIndex /\ Restored(restores, h) /\ Given(h)
         /\ Unqueued(queue, h) /\ vendorRead[h] <= vendorDone /\ slots[h].readState /\ ~slots[h].unknown /\ present.tagged # h
  <1> DEFINE h == restores[1].slot
  <1>1. BaseInv
    BY RingHeads
  <1>2. h \in SlotIndex /\ Len(restores) > 0 /\ Len(restores) \in Nat
    BY <1>1, InteropStep, SignalTypes
  <1>3. Restored(restores, h)
    <2>1. 1 \in 1..Len(restores)
      BY <1>2
    <2> QED BY <2>1 DEF Restored
  <1>4. SlotGiven(h)
    BY <1>2, RingParts
  <1> HIDE DEF h
  <1>5. /\ Given(h) /\ Unqueued(queue, h) /\ vendorRead[h] <= vendorDone /\ slots[h].readState /\ ~slots[h].unknown
        /\ present.tagged # h
    BY <1>3, <1>4 DEF SlotGiven
  <1> QED BY <1>2, <1>3, <1>5 DEF h

\* Every step keeps the queue's invariant.
LEMMA QueueStep == RingInv /\ [Next]_vars => QueueInv'
  <1> SUFFICES ASSUME RingInv, [Next]_vars PROVE QueueInv'
    OBVIOUS
  <1>0. BaseInv /\ TypeOK /\ QueueInv
    BY RingHeads
  <1>1. vendorDone \in Nat /\ vendorIssued \in Nat /\ SlotOf(Presenting) \in SlotIndex
        /\ Current \in SlotIndex /\ (\A i \in SlotIndex : vendorRead[i] \in Nat)
    BY <1>0, CurrentSlot DEF TypeOK
  <1>2. vendorDone' <= vendorIssued' /\ (\A i \in SlotIndex : vendorRead'[i] <= vendorIssued')
    <2>1. CASE PresentTagged
      <3>1. \A i \in SlotIndex : vendorRead'[i] \in {vendorRead[i], vendorIssued'}
        BY <1>0, <2>1, TagStep
      <3> QED BY <1>0, <1>1, <2>1, <3>1, TagStep DEF QueueInv
    <2>2. CASE VendorFinishes
      BY <1>0, <1>1, <2>2 DEF VendorFinishes, QueueInv
    <2>3. CASE UNCHANGED <<vendorDone, vendorIssued, vendorRead>>
      BY <1>0, <2>3 DEF QueueInv
    <2>4. PresentTagged \/ VendorFinishes \/ UNCHANGED <<vendorDone, vendorIssued, vendorRead>>
      BY QueueMovers
    <2> QED BY <2>1, <2>2, <2>3, <2>4
  <1>3. OneRound(queue') /\ Matches(queue', state')
    <2>1. CASE InteropRestores
      <3> DEFINE h == restores[1].slot
      <3>1. UNCHANGED queue /\ (\A s \in SlotIndex : s # h => state'[s] = state[s])
        BY <1>0, <2>1, InteropStep
      <3>2. Unqueued(queue, h) /\ queue \in Seq(Entry)
        BY <2>1, HeadIsGiven, RingHeads
      <3> HIDE DEF h
      <3>3. \A k \in 1..Len(queue) : queue[k].slot # h /\ (queue[k].slot \in 0 .. Slots)
        <4>1. \A k \in 1..Len(queue) : queue[k] \in Entry
          BY <3>2
        <4> QED BY <3>2, <4>1 DEF Entry, Unqueued
      <3>4. \A s \in 0 .. Slots : s # NoSlot => s \in SlotIndex
        BY SlotsAssumption DEF NoSlot, SlotIndex
      <3>5. \A k \in 1..Len(queue) : queue[k].slot # NoSlot => state'[queue[k].slot] = state[queue[k].slot]
        BY <3>1, <3>3, <3>4
      <3>6. Matches(queue, state')
        BY <1>0, <3>5 DEF Matches, QueueInv
      <3> QED BY <1>0, <3>1, <3>6 DEF QueueInv
    <2>2. CASE UNCHANGED <<queue, state>>
      BY <1>0, <2>2 DEF QueueInv
    <2>3. InteropRestores => queue' = queue
      BY DEF InteropRestores, queueVars
    <2>4. PresentTagged \/ (Retire /\ queue' # queue) \/ StartReads \/ Join \/ InteropRestores \/ UNCHANGED <<queue, state>>
      BY QueueMovers
    <2> QED BY <2>1, <2>2, <2>4, ReadAppended, JoinAppended, QueuePopped
  <1> QED BY <1>2, <1>3 DEF QueueInv

-------------------------------------------------------------------------------
\* Joins.

\* What is covered stays covered, but for a slot that is tagged anew or joined.
LEMMA CoversKept ==
  ASSUME RingInv, [Next]_vars, NEW i \in SlotIndex, NEW v, Covers(queue, vendorRead[i], vendorDone, i, v),
         PresentTagged => i # SlotOf(Presenting), Retire => i # present.tagged
  PROVE  Covers(queue', vendorRead'[i], vendorDone', i, v)
  <1>0. BaseInv /\ TypeOK /\ ThreadInv /\ queue \in Seq(Entry) /\ SlotOf(Presenting) \in SlotIndex
    BY RingHeads
  <1>1. vendorDone \in Nat /\ vendorRead[i] \in Nat /\ vendorIssued \in Nat
    BY <1>0 DEF TypeOK
  <1>2. CASE PresentTagged
    <2> DEFINE e == [kind |-> "read", slot |-> SlotOf(Presenting), after |-> serial, signal |-> 0]
    <2>1. queue' = Append(queue, e) /\ UNCHANGED vendorDone /\ vendorRead'[i] = vendorRead[i]
      BY <1>0, <1>2, TagStep
    <2>2. e \in Entry
      <3>1. SlotOf(Presenting) \in 0 .. Slots
        BY <1>0, SlotsAssumption DEF SlotIndex
      <3> QED BY <1>0, <3>1 DEF Entry, TypeOK
    <2>3. e.slot # i
      BY <1>2
    <2> HIDE DEF e
    <2> QED BY <1>0, <2>1, <2>2, <2>3, AppendedElsewhere
  <1>3. CASE Retire /\ queue' # queue
    <2> DEFINE e == [kind |-> "join", slot |-> present.tagged, after |-> vendorIssued, signal |-> joinIssued + 1]
    <2>1. queue' = Append(queue, e) /\ UNCHANGED <<vendorDone, vendorRead>>
      BY <1>3 DEF Retire, vendorVars
    <2>2. e \in Entry
      BY <1>0 DEF Entry, TypeOK
    <2>3. e.slot # i
      BY <1>3
    <2> HIDE DEF e
    <2> QED BY <1>0, <2>1, <2>2, <2>3, AppendedElsewhere
  <1>4. CASE StartReads \/ Join
    <2>1. UNCHANGED <<vendorDone, vendorRead>>
      BY <1>4 DEF StartReads, Join, vendorVars
    <2>2. queue # <<>> /\ queue' = Tail(queue) /\ (Head(queue).kind = "join" => vendorDone >= Head(queue).after)
      BY <1>4, QueuePopped
    <2> QED BY <1>0, <1>1, <2>1, <2>2, CoversPopped
  <1>5. CASE VendorFinishes
    <2>1. UNCHANGED <<queue, vendorRead>> /\ vendorDone' = vendorDone + 1
      BY <1>5 DEF VendorFinishes, queueVars
    <2> QED BY <1>1, <2>1, CoversOn
  <1>6. CASE UNCHANGED <<queue, vendorRead, vendorDone>>
    BY <1>6
  <1> QED BY <1>2, <1>3, <1>4, <1>5, <1>6, QueueMovers

\* Every step keeps what a queued retirement covers.
LEMMA RecordStep == RingInv /\ [Next]_vars => RecordInv'
  <1> SUFFICES ASSUME RingInv, [Next]_vars, present'.join # 0, NEW i \in SlotIndex
               PROVE  Covers(queue', vendorRead'[i], vendorDone', i, present'.join)
    BY DEF RecordInv
  <1>0. BaseInv /\ TypeOK /\ ThreadInv /\ QueueInv /\ RecordInv /\ queue \in Seq(Entry)
    BY RingHeads
  <1>1. CASE Retire /\ queue' # queue
    <2> DEFINE e == [kind |-> "join", slot |-> present.tagged, after |-> vendorIssued, signal |-> joinIssued + 1]
    <2>1. queue' = Append(queue, e) /\ UNCHANGED <<vendorDone, vendorRead>> /\ present'.join = joinIssued + 1
      BY <1>0, <1>1 DEF Retire, vendorVars, TypeOK
    <2>2. e \in Entry /\ e.kind = "join" /\ e.signal = joinIssued + 1
      BY <1>0 DEF Entry, TypeOK
    <2>3. e.after >= vendorRead[i] /\ vendorRead[i] \in Nat
      BY <1>0 DEF QueueInv, TypeOK
    <2> HIDE DEF e
    <2> QED BY <1>0, <2>1, <2>2, <2>3, JoinCovers
  <1>2. CASE ~(Retire /\ queue' # queue)
    <2>1. present'.join = present.join /\ ~PresentTagged /\ ~Retire
      <3>1. Retire => present'.join = present.join /\ present.at = "retire"
        <4> SUFFICES ASSUME Retire PROVE present'.join = present.join /\ present.at = "retire"
          OBVIOUS
        <4>1. queue' = queue
          BY <1>2
        <4>2. queue' # Append(queue, [kind |-> "join", slot |-> present.tagged,
                                      after |-> vendorIssued, signal |-> joinIssued'])
          BY <1>0, <4>1 DEF TypeOK
        <4>3. present' = [present EXCEPT !.at = "record"] /\ present.at = "retire"
          BY <4>2 DEF Retire
        <4> QED BY <1>0, <4>3 DEF TypeOK
      <3>2. Retire => FALSE
        BY <1>0, <3>1 DEF ThreadInv
      <3>3. present'.join \in {present.join, 0}
        <4>1. CASE PresentUntagged \/ PresentTagged \/ Record \/ EndPresent
          BY <4>1 DEF PresentUntagged, PresentTagged, Record, RecordAs, EndPresent, Waiting
        <4>2. CASE NothingToRetire
          BY <1>0, <4>2 DEF NothingToRetire, TypeOK
        <4>3. PresentUntagged \/ PresentTagged \/ Record \/ EndPresent \/ NothingToRetire \/ present' = present
          BY <3>2, Steps, MovesKeep DEF vars, presentVars, Ask, AskFor, Restore, Copy, Final,
                 EndRender, D3D11Signals, InteropRestores, StartReads, Join, VendorFinishes
        <4> QED BY <4>1, <4>2, <4>3
      <3>4. ~PresentTagged
        BY <1>0, TagStep
      <3> QED BY <3>2, <3>3, <3>4
    <2>2. Covers(queue, vendorRead[i], vendorDone, i, present.join)
      BY <1>0, <2>1 DEF RecordInv
    <2> QED BY <2>1, <2>2, CoversKept
  <1> QED BY <1>1, <1>2

\* A slot that nothing on the provider queue uses stays so, but for one that is tagged.
LEMMA UnqueuedKept ==
  ASSUME RingInv, [Next]_vars, NEW i \in SlotIndex, Unqueued(queue, i), vendorRead[i] <= vendorDone,
         PresentTagged => i # SlotOf(Presenting), Retire => i # present.tagged
  PROVE  /\ Unqueued(queue', i) /\ vendorRead'[i] <= vendorDone'
         /\ InteropRestores \/ state'[i] = state[i]
  <1>0. BaseInv /\ TypeOK /\ queue \in Seq(Entry) /\ SlotOf(Presenting) \in SlotIndex /\ vendorRead[i] \in Nat /\ vendorDone \in Nat
    BY RingHeads DEF FenceTypes
  <1>1. CASE PresentTagged
    <2> DEFINE e == [kind |-> "read", slot |-> SlotOf(Presenting), after |-> serial, signal |-> 0]
    <2>1. queue' = Append(queue, e) /\ UNCHANGED <<state, vendorDone>> /\ vendorRead'[i] = vendorRead[i]
      BY <1>0, <1>1, TagStep
    <2>2. e \in Entry
      <3>1. SlotOf(Presenting) \in 0 .. Slots
        BY <1>0, SlotsAssumption DEF SlotIndex
      <3> QED BY <1>0, <3>1 DEF Entry, TypeOK
    <2>3. e.slot # i
      BY <1>1
    <2> HIDE DEF e
    <2> QED BY <1>0, <2>1, <2>2, <2>3, AppendedElsewhere
  <1>2. CASE Retire /\ queue' # queue
    <2> DEFINE e == [kind |-> "join", slot |-> present.tagged, after |-> vendorIssued, signal |-> joinIssued + 1]
    <2>1. queue' = Append(queue, e) /\ UNCHANGED <<state, vendorDone, vendorRead>>
      BY <1>2 DEF Retire, vendorVars
    <2>2. e \in Entry
      BY <1>0 DEF Entry, TypeOK
    <2>3. e.slot # i
      BY <1>2
    <2> HIDE DEF e
    <2> QED BY <1>0, <2>1, <2>2, <2>3, AppendedElsewhere
  <1>3. CASE StartReads \/ Join
    <2>1. UNCHANGED <<vendorDone, vendorRead>>
      BY <1>3 DEF StartReads, Join, vendorVars
    <2>2. queue # <<>> /\ queue' = Tail(queue) /\ (Head(queue).slot # i => state'[i] = state[i])
      BY <1>3, QueuePopped
    <2>3. Head(queue).slot # i /\ Unqueued(queue', i)
      BY <1>0, <2>2, Popped DEF Unqueued
    <2> QED BY <2>1, <2>2, <2>3
  <1>4. CASE VendorFinishes
    <2>1. UNCHANGED <<queue, state, vendorRead>> /\ vendorDone' = vendorDone + 1
      BY <1>4 DEF VendorFinishes, queueVars
    <2> QED BY <1>0, <2>1
  <1>5. CASE UNCHANGED <<queue, vendorRead, vendorDone>> /\ (InteropRestores \/ state' = state)
    BY <1>5
  <1>6. /\ InteropRestores => UNCHANGED <<queue, vendorRead, vendorDone>>
        /\ ~PresentTagged /\ ~(Retire /\ queue' # queue) /\ ~StartReads /\ ~Join => queue' = queue
    <2>1. InteropRestores => UNCHANGED <<queue, vendorRead, vendorDone>>
      BY DEF InteropRestores, queueVars, vendorVars
    <2> QED BY <2>1, QueueMovers
  <1> QED BY <1>1, <1>2, <1>3, <1>4, <1>5, <1>6, QueueMovers

-------------------------------------------------------------------------------
\* The render thread.

\* Once a wait was ended early, it has been.
LEMMA EarlyStays ==
  ASSUME [Next]_vars, ~early' PROVE ~early
  <1>1. Moves => Wake \/ early' = early
    BY DEF Moves, Pass, Block, TimeOut, Refused, waitVars
  <1>2. Moves \/ early' = early
    BY Steps DEF vars, renderVars, waitVars, Ask, AskFor, Restore, Copy, Final, EndRender, PresentUntagged, PresentTagged,
           Retire, NothingToRetire, Record, RecordAs, EndPresent, D3D11Signals, InteropRestores, StartReads, Join, VendorFinishes
  <1>3. Wake => (early => early')
    BY DEF Wake
  <1> QED BY <1>1, <1>2, <1>3

\* Every step keeps what the render thread has found out, unless the event of an earlier wait ends one.
LEMMA RenderStep == RingInv /\ [Next]_vars /\ ~early' => RenderInv'
  <1> SUFFICES ASSUME RingInv, [Next]_vars, ~early', render'.at \in {"restore", "restoring", "copy"}
               PROVE  Unqueued(queue', Current') /\ vendorRead'[Current'] <= vendorDone'
    BY DEF RenderInv
  <1>0. /\ BaseInv /\ TypeOK /\ ThreadInv /\ WaitInv /\ QueueInv /\ RenderInv /\ JoinsInv /\ Current \in SlotIndex
        /\ SlotTruth(Current) /\ queue \in Seq(Entry) /\ slots[Current] \in Slot
    BY RingHeads, RingParts
  <1>1. CASE Ask \/ Copy \/ Final \/ EndRender
    <2>1. render'.at \in {"complete", "idle"}
      <3>1. Ask => render'.at = "complete"
        BY DEF Ask, AskFor
      <3>2. Copy => render'.at = "idle"
        BY IdleTypes DEF Copy
      <3>3. Final => render'.at = "idle"
        BY DEF Final, MayCopyHudless, renderVars
      <3>4. EndRender => render'.at = "idle"
        BY DEF EndRender
      <3> QED BY <1>1, <3>1, <3>2, <3>3, <3>4
    <2> QED BY <2>1
  <1>2. CASE Moves
    <2>1. UNCHANGED <<queue, vendorRead, vendorDone>> /\ Current' = Current
      BY <1>2, MovesKeep DEF Current
    <2>2. CASE render.at = "join" /\ joinDone >= render.join
      <3>1. ~slots[Current].unknown /\ render.join = slots[Current].join /\ present.tagged # Current
        BY <1>0, <2>2, TaggedApart DEF WaitInv
      <3>2. Covers(queue, vendorRead[Current], vendorDone, Current, slots[Current].join)
        BY <1>0, <3>1 DEF SlotTruth
      <3>3. InOrder(queue, joinDone) /\ joinDone \in Nat /\ slots[Current].join \in Nat /\ slots[Current].join <= joinDone
        BY <1>0, <2>2, <3>1 DEF JoinsInv, TypeOK, Slot
      <3> QED BY <1>0, <2>1, <3>2, <3>3, CoveredIsQuiet
    <2>3. CASE render.at \in {"restore", "restoring", "copy"}
      BY <1>0, <2>1, <2>3 DEF RenderInv
    <2>4. (render.at = "join" /\ joinDone >= render.join) \/ render.at \in {"restore", "restoring", "copy"}
      BY <1>0, <1>2, MoveCases, IdleTypes DEF Advances, Waits
    <2> QED BY <2>2, <2>3, <2>4
  <1>3. CASE Restore
    <2>1. UNCHANGED <<rendered, queue, vendorRead, vendorDone>> /\ render.at = "restore" /\ Current' = Current
      BY <1>0, <1>3, RestoreCases DEF Current
    <2> QED BY <1>0, <2>1 DEF RenderInv
  <1>4. CASE ~RenderSteps /\ ~EndRender
    <2>1. render' = render /\ Current' = Current
      BY <1>0, <1>4, CurrentKept
    <2>2. Unqueued(queue, Current) /\ vendorRead[Current] <= vendorDone /\ render.at # "idle"
      BY <1>0, <2>1 DEF RenderInv
    <2>3. present.tagged # Current
      BY <1>0, <2>2, TaggedApart
    <2>4. PresentTagged => Current # SlotOf(Presenting)
      <3>1. PresentTagged => presented < rendered
        BY DEF PresentTagged, Upload
      <3> QED BY <1>0, <2>2, <3>1, CurrentApart DEF ThreadInv
    <2> QED BY <1>0, <2>1, <2>2, <2>3, <2>4, UnqueuedKept
  <1> QED BY <1>1, <1>2, <1>3, <1>4 DEF RenderSteps

-------------------------------------------------------------------------------
\* Restores that were queued.

\* The render thread takes its slot back: it has waited for the restore.
TakenBack(i) == Moves /\ render.at = "restoring" /\ render'.at = "copy" /\ i = Current

\* What a slot that was given to the interop queue keeps; only restores and their waits change who was.
GivenKept(i) == Given(i) => /\ Unqueued(queue', i) /\ vendorRead'[i] <= vendorDone'
                            /\ slots'[i].readState = slots[i].readState /\ ~slots'[i].unknown /\ present'.tagged # i
                            /\ InteropRestores \/ state'[i] = state[i]

\* What the render thread does to a slot it has not given away, or has.
LEMMA RenderGivenKept ==
  ASSUME RingInv, RenderSteps \/ EndRender, NEW i \in SlotIndex, ~TakenBack(i)
  PROVE  GivenKept(i)
  <1>0. RingInv /\ TypeOK /\ SlotGiven(i) /\ ThreadInv /\ SlotTypes /\ Current \in SlotIndex
    BY RingParts
  <1>1. UNCHANGED <<queue, vendorRead, vendorDone, present, state>>
    BY <1>0, RenderAlone DEF EndRender, presentVars, queueVars, vendorVars
  <1>2. slots'[i].readState = slots[i].readState /\ (slots'[i].unknown => slots[i].unknown)
    <2>1. CASE Ask
      BY <1>0, <2>1, AskWrites
    <2>2. CASE Restore \/ Final
      BY <1>0, <2>2, ValueWrites DEF SameBooks
    <2>3. CASE Copy
      BY <1>0, <2>3, CopyWrites
    <2>4. CASE Moves
      <3>1. CASE slots' = slots
        BY <3>1
      <3>2. CASE slots' = [slots EXCEPT ![Current].readState = FALSE] /\ i # Current
        BY <1>0, <3>2, ClearWrites
      <3> QED BY <1>0, <2>4, <3>1, <3>2, MoveCases DEF TakenBack, Advances
    <2>5. CASE EndRender
      BY <2>5 DEF EndRender
    <2> QED BY <2>1, <2>2, <2>3, <2>4, <2>5 DEF RenderSteps
  <1> QED BY <1>0, <1>1, <1>2 DEF GivenKept, SlotGiven

\* What the present thread and the GPU do to it.
LEMMA PresentGivenKept ==
  ASSUME RingInv, [Next]_vars, ~RenderSteps, ~EndRender, NEW i \in SlotIndex
  PROVE  GivenKept(i)
  <1> SUFFICES ASSUME Given(i)
               PROVE  /\ Unqueued(queue', i) /\ vendorRead'[i] <= vendorDone'
                      /\ slots'[i].readState = slots[i].readState /\ ~slots'[i].unknown /\ present'.tagged # i
                      /\ InteropRestores \/ state'[i] = state[i]
    BY DEF GivenKept
  <1>0. /\ BaseInv /\ TypeOK /\ SlotGiven(i) /\ SlotReady(i) /\ ThreadInv /\ SlotTypes /\ ThreadTypes /\ i # NoSlot
        /\ SlotOf(Presenting) \in SlotIndex
    BY RingParts
  <1>1. Unqueued(queue, i) /\ vendorRead[i] <= vendorDone /\ slots[i].readState /\ ~slots[i].unknown /\ present.tagged # i
    BY <1>0 DEF SlotGiven
  <1>2. PresentTagged => i # SlotOf(Presenting)
    BY <1>0, <1>1, TaggedIsReady DEF SlotReady
  <1>3. Unqueued(queue', i) /\ vendorRead'[i] <= vendorDone' /\ (InteropRestores \/ state'[i] = state[i])
    BY <1>1, <1>2, UnqueuedKept
  <1>4. slots'[i] = slots[i]
    <2>1. CASE PresentTagged
      BY <1>0, <1>2, <2>1, TagStep
    <2>2. CASE Record
      <3>1. slots' = RecordAll
        BY <2>2 DEF Record, RecordAs
      <3> QED BY <1>1, <3>1 DEF RecordAll, AfterJoin, AfterFailure
    <2>3. PresentTagged \/ Record \/ slots' = slots
      BY Steps DEF RenderSteps, vars, PresentUntagged, Retire, NothingToRetire,
                EndPresent, D3D11Signals, InteropRestores, StartReads, Join, VendorFinishes
    <2> QED BY <2>1, <2>2, <2>3
  <1>5. present'.tagged # i
    <2>1. CASE PresentTagged
      BY <1>0, <1>2, <2>1, TagStep
    <2>2. CASE PresentUntagged \/ Record \/ EndPresent
      BY <1>0, <2>2 DEF PresentUntagged, Record, RecordAs, EndPresent, Waiting
    <2>3. CASE Retire \/ NothingToRetire
      BY <1>0, <1>1, <2>3 DEF Retire, NothingToRetire, ThreadTypes
    <2>4. \/ PresentTagged \/ PresentUntagged \/ Record \/ EndPresent \/ Retire \/ NothingToRetire \/ present' = present
      BY Steps DEF RenderSteps, vars, presentVars, D3D11Signals, InteropRestores, StartReads, Join, VendorFinishes
    <2> QED BY <1>1, <2>1, <2>2, <2>3, <2>4
  <1> QED BY <1>1, <1>3, <1>4, <1>5

\* Only a restore gives a slot, only its wait takes one back.
LEMMA GivenAlone ==
  ASSUME RingInv, [Next]_vars, ~Restore, NEW i \in SlotIndex, ~TakenBack(i)
  PROVE  Given(i)' = Given(i) /\ (i \notin abandoned' => i \notin abandoned)
  <1>0. RingInv /\ BaseInv /\ TypeOK /\ ThreadInv /\ WaitInv /\ SlotTypes /\ Current \in SlotIndex
    BY RingHeads
  <1>1. CASE Moves
    <2>1. Current' = Current
      BY <1>1, MovesKeep DEF Current
    <2>2. CASE abandoned' = abandoned /\ ((Advances(render.at) /\ render.at \in Waits) \/ (render.at = "complete" /\ Advances("join"))
                \/ (render.at = "join" /\ Advances(IF render.readState THEN "restore" ELSE "copy")))
      <3>1. (render'.at = "restoring") <=> (render.at = "restoring")
        BY <2>2 DEF Advances
      <3> QED BY <2>1, <2>2, <3>1 DEF Given
    <2>3. CASE render.at = "restoring" /\ Advances("copy") /\ slots' = [slots EXCEPT ![Current].readState = FALSE]
               /\ abandoned' = abandoned \ {Current}
      <3>1. i # Current /\ render'.at = "copy"
        BY <1>1, <2>3 DEF Advances, TakenBack
      <3> QED BY <2>1, <2>3, <3>1 DEF Given
    <2>4. CASE render' = Idle /\ abandoned' = IF render.at = "restoring" THEN abandoned \cup {Current} ELSE abandoned
      BY <2>1, <2>4, IdleTypes DEF Given
    <2> QED BY <1>0, <1>1, <2>2, <2>3, <2>4, MoveCases
  <1>2. CASE Ask \/ Copy \/ Final \/ EndRender
    <2>1. abandoned' = abandoned /\ render.at # "restoring" /\ render'.at # "restoring"
      <3>1. CASE Ask
        BY <3>1 DEF Ask, AskFor, waitVars
      <3>2. CASE Copy
        BY <3>2, IdleTypes DEF Copy, waitVars
      <3>3. CASE Final
        BY <3>3 DEF Final, MayCopyHudless, renderVars, waitVars
      <3>4. CASE EndRender
        BY <3>4 DEF EndRender, waitVars
      <3> QED BY <1>2, <3>1, <3>2, <3>3, <3>4
    <2> QED BY <2>1 DEF Given
  <1>3. CASE ~RenderSteps /\ ~EndRender
    <2>1. UNCHANGED <<render, abandoned>> /\ Current' = Current
      BY <1>0, <1>3, CurrentKept
    <2> QED BY <2>1 DEF Given
  <1> QED BY <1>1, <1>2, <1>3 DEF RenderSteps

\* A step that gives no slot and takes none back.
LEMMA GivenOn ==
  ASSUME RingInv, [Next]_vars, ~Restore, NEW i \in SlotIndex, ~TakenBack(i)
  PROVE  SlotGiven(i)'
  <1>0. BaseInv /\ SlotGiven(i) /\ GivenKept(i) /\ Given(i)' = Given(i) /\ (i \notin abandoned' => i \notin abandoned)
    BY RingParts, RenderGivenKept, PresentGivenKept, GivenAlone
  <1>1. CASE InteropRestores
    <2> DEFINE h == restores[1].slot
    <2>1. /\ Len(restores) > 0 /\ Len(restores) \in Nat /\ Len(restores') = Len(restores) - 1
          /\ \A k \in 1..Len(restores') : restores'[k] = restores[k + 1]
          /\ state'[h] = "common" /\ (i # h => state'[i] = state[i])
      BY <1>0, <1>1, InteropStep, SignalTypes
    <2> HIDE DEF h
    <2>2. \A k \in 1..Len(restores') : k + 1 \in 1..Len(restores)
      BY <2>1
    <2>3. Restored(restores', i) => Restored(restores, i)
      BY <2>1, <2>2 DEF Restored
    <2>4. Restored(restores, i) => i = h \/ Restored(restores', i)
      <3> SUFFICES ASSUME NEW k \in 1..Len(restores), restores[k].slot = i, i # h PROVE Restored(restores', i)
        BY DEF Restored
      <3>1. k # 1
        BY DEF h
      <3>2. k - 1 \in 1..Len(restores') /\ restores'[k - 1] = restores[k]
        BY <2>1, <3>1
      <3> QED BY <3>2 DEF Restored
    <2>5. ASSUME Restored(restores', i), i \notin abandoned'
          PROVE  /\ state'[i] = "read"
                 /\ \A k, m \in 1..Len(restores') : restores'[k].slot = i /\ restores'[m].slot = i => k = m
      <3>1. i \notin abandoned /\ state[i] = "read"
            /\ \A k, m \in 1..Len(restores) : restores[k].slot = i /\ restores[m].slot = i => k = m
        BY <1>0, <2>3, <2>5 DEF SlotGiven
      <3>2. PICK n \in 1..Len(restores') : restores'[n].slot = i
        BY <2>5 DEF Restored
      <3>3. i # h
        <4>1. restores[n + 1].slot = i /\ n + 1 \in 1..Len(restores) /\ n + 1 # 1 /\ 1 \in 1..Len(restores)
          BY <2>1, <2>2, <3>2
        <4> QED BY <3>1, <4>1 DEF h
      <3>4. ASSUME NEW k \in 1..Len(restores'), NEW m \in 1..Len(restores'), restores'[k].slot = i, restores'[m].slot = i
            PROVE  k = m
        <4>1. k + 1 = m + 1
          BY <2>1, <2>2, <3>1, <3>4
        <4> QED BY <4>1
      <3> QED BY <2>1, <3>1, <3>3, <3>4
    <2> QED BY <1>0, <2>1, <2>3, <2>4, <2>5 DEF SlotGiven, GivenKept
  <1>2. CASE ~InteropRestores
    <2>1. restores' = restores
      <3>1. (Copy \/ Final) => restores' = restores
        BY <1>0, CopyStep
      <3>2. D3D11Signals => restores' = restores
        BY <1>0, SignalReached
      <3> QED BY <1>2, <3>1, <3>2, SignalsElsewhere
    <2> QED BY <1>0, <1>2, <2>1 DEF SlotGiven, GivenKept
  <1> QED BY <1>1, <1>2

\* A restore gives the current slot.
LEMMA GivenNew ==
  ASSUME RingInv, Restore, NEW i \in SlotIndex
  PROVE  /\ SlotGiven(i)'
         /\ i = Current => Given(i)' /\ Unqueued(queue, i) /\ present.tagged # i
         /\ i # Current => Given(i)' = Given(i)
  <1>0. /\ RingInv /\ BaseInv /\ TypeOK /\ ThreadInv /\ WaitInv /\ RenderInv /\ SlotGiven(i) /\ SlotTruth(i) /\ Current \in SlotIndex
        /\ Len(restores) \in Nat
    BY RingParts, SignalTypes
  <1>1. /\ render.at = "restore" /\ Current' = Current /\ Len(restores') = Len(restores) + 1
        /\ restores'[Len(restores) + 1].slot = Current /\ (\A k \in 1..Len(restores) : restores'[k] = restores[k])
        /\ (render'.at = "restoring" /\ abandoned' = abandoned) \/ (render'.at = "idle" /\ abandoned' = abandoned \cup {Current})
    BY <1>0, RestoreStep DEF Current
  <1>2. UNCHANGED <<queue, vendorRead, vendorDone, state, present>>
    BY <1>0, RestoreCases
  <1>3. \A k \in 1..Len(restores') : k \in 1..Len(restores) \/ k = Len(restores) + 1
    BY <1>0, <1>1
  <1>4. SameBooks(i)
    BY <1>0, ValueWrites
  <1>5. CASE i = Current
    <2>1. Unqueued(queue, i) /\ vendorRead[i] <= vendorDone /\ slots[i].readState /\ ~slots[i].unknown /\ present.tagged # i
      BY <1>0, <1>1, <1>5, TaggedApart DEF RenderInv, WaitInv
    <2>2. Restored(restores', i) /\ Given(i)'
      <3>1. Len(restores) + 1 \in 1..Len(restores')
        BY <1>0, <1>1
      <3> QED BY <1>1, <1>5, <3>1 DEF Restored, Given
    <2>3. ASSUME i \notin abandoned'
          PROVE  /\ state[i] = "read"
                 /\ \A k, m \in 1..Len(restores') : restores'[k].slot = i /\ restores'[m].slot = i => k = m
      <3>1. ~Given(i)
        BY <1>1, <2>3 DEF Given
      <3>2. ~Restored(restores, i)
        BY <1>0, <3>1 DEF SlotGiven
      <3>3. Outcome(queue, state[i], i) = StateFor(slots[i].readState)
        BY <1>0, <2>1, <3>1 DEF SlotTruth
      <3>4. state[i] = "read"
        BY <2>1, <3>3, UnqueuedOutcome DEF StateFor
      <3> QED BY <1>0, <1>1, <1>3, <3>2, <3>4 DEF Restored
    <2> QED BY <1>2, <1>4, <1>5, <2>1, <2>2, <2>3 DEF SlotGiven, SameBooks
  <1>6. CASE i # Current
    <2>1. (Given(i)' <=> Given(i)) /\ (i \notin abandoned' => i \notin abandoned)
      BY <1>1, <1>6 DEF Given
    <2>2. Restored(restores', i) <=> Restored(restores, i)
      BY <1>0, <1>1, <1>3, <1>6 DEF Restored
    <2>3. (\A k, m \in 1..Len(restores) : restores[k].slot = i /\ restores[m].slot = i => k = m)
              => (\A k, m \in 1..Len(restores') : restores'[k].slot = i /\ restores'[m].slot = i => k = m)
      BY <1>0, <1>1, <1>3, <1>6
    <2>4. SlotGiven(i)'
      BY <1>0, <1>2, <1>4, <2>1, <2>2, <2>3 DEF SlotGiven, SameBooks
    <2>5. Given(i)' = Given(i)
      BY <2>1 DEF Given
    <2> QED BY <1>6, <2>4, <2>5
  <1> QED BY <1>5, <1>6

\* A restore that was waited for: its list has run, unless an earlier event ended the wait.
LEMMA GivenBack ==
  ASSUME RingInv, ~early', NEW i \in SlotIndex, TakenBack(i)
  PROVE  /\ SlotGiven(i)' /\ ~Given(i)' /\ Given(i) /\ state[i] = "common"
         /\ Unqueued(queue, i) /\ present.tagged # i /\ slots[i].readState
  <1>0. /\ RingInv /\ BaseInv /\ TypeOK /\ RestoreLast /\ SlotGiven(i) /\ Current \in SlotIndex
        /\ Len(restores) \in Nat /\ fence \in Nat /\ serial \in Nat
    BY RingParts, RingHeads, SignalTypes
  <1>1. /\ render.at = "restoring" /\ i = Current /\ render'.at = "copy"
        /\ abandoned' = abandoned \ {i} /\ fence >= slots[i].complete
        /\ Current' = i /\ restores' = restores
    BY <1>0, MoveCases, MovesKeep, IdleTypes DEF Current, TakenBack, Advances
  <1>2. Len(restores) = 0
    BY <1>0, <1>1 DEF RestoreLast
  <1>3. ~Restored(restores, i) /\ ~Restored(restores', i)
    BY <1>1, <1>2 DEF Restored
  <1>4. Given(i) /\ ~Given(i)'
    BY <1>1 DEF Given
  <1>5. /\ state[i] = "common" /\ Unqueued(queue, i) /\ present.tagged # i /\ slots[i].readState
    BY <1>0, <1>3, <1>4 DEF SlotGiven
  <1>6. SlotGiven(i)'
    BY <1>3, <1>4 DEF SlotGiven
  <1> QED BY <1>4, <1>5, <1>6

\* What has been given, and what has not.
LEMMA GivenStep ==
  ASSUME RingInv, [Next]_vars, ~early', NEW i \in SlotIndex
  PROVE  SlotGiven(i)'
  <1>1. CASE Restore
    BY <1>1, GivenNew
  <1>2. CASE ~Restore /\ ~TakenBack(i)
    BY <1>2, GivenOn
  <1>3. CASE TakenBack(i)
    BY <1>3, GivenBack
  <1> QED BY <1>1, <1>2, <1>3

-------------------------------------------------------------------------------
\* The slots.

\* The render thread's steps keep what the slots say.
LEMMA RenderKeepsTruth ==
  ASSUME RingInv, [Next]_vars, ~early', RenderSteps \/ EndRender, NEW i \in SlotIndex
  PROVE  SlotTruth(i)' /\ SlotReady(i)'
  <1>0. /\ RingInv /\ TypeOK /\ ThreadInv /\ WaitInv /\ RenderInv /\ SlotGiven(i) /\ SlotTruth(i) /\ SlotReady(i)
        /\ SlotTypes /\ Current \in SlotIndex /\ slots[i] \in Slot
    BY RingParts
  <1>1. UNCHANGED <<present, presented, generation, queue, vendorRead, vendorDone, state>>
    BY <1>0, RenderAlone DEF EndRender, presentVars, queueVars, vendorVars
  <1>2. CASE Ask
    <2>1. Reusable /\ ~Restore /\ ~TakenBack(i)
      BY <1>2 DEF Ask, AskFor, Restore, TakenBack
    <2>2. /\ slots'[i].join = slots[i].join /\ slots'[i].source = slots[i].source /\ slots'[i].prepared = slots[i].prepared
          /\ slots'[i].readState = slots[i].readState
      BY <1>0, <1>2, AskWrites
    <2>3. ~slots'[i].unknown \/ slots'[i].heldIn # generation => ~slots[i].unknown \/ slots[i].heldIn # generation
      BY <1>0, <1>2, <2>1, AskWrites DEF Reusable
    <2>4. slots'[i].unknown => slots[i].unknown
      BY <1>0, <1>2, AskWrites
    <2>5. Given(i)' = Given(i)
      BY <1>0, <2>1, GivenAlone
    <2>6. SlotTruth(i)'
      BY <1>0, <1>1, <2>2, <2>3, <2>5 DEF SlotTruth
    <2>7. SlotReady(i)'
      BY <1>0, <1>1, <2>2, <2>4 DEF SlotReady, Ready, Presenting
    <2> QED BY <2>6, <2>7
  <1>3. CASE Restore
    <2>1. SameBooks(i)
      BY <1>0, <1>3, ValueWrites
    <2>2. Given(i) => Given(i)'
      BY <1>0, <1>3, GivenNew
    <2>3. SlotTruth(i)'
      BY <1>0, <1>1, <2>1, <2>2 DEF SlotTruth, SameBooks
    <2>4. SlotReady(i)'
      BY <1>0, <1>1, <2>1 DEF SlotReady, Ready, Presenting, SameBooks
    <2> QED BY <2>3, <2>4
  <1>4. CASE TakenBack(i)
    <2>1. ~Given(i)' /\ Given(i) /\ state[i] = "common" /\ Unqueued(queue, i) /\ present.tagged # i /\ slots[i].readState
      BY <1>0, <1>4, GivenBack
    <2>2. slots' = [slots EXCEPT ![Current].readState = FALSE] /\ i = Current
      BY <1>0, <1>4, MoveCases, IdleTypes DEF TakenBack, Advances
    <2>3. /\ slots'[i].source = slots[i].source /\ slots'[i].prepared = slots[i].prepared /\ ~slots'[i].readState
          /\ slots'[i].join = slots[i].join /\ slots'[i].unknown = slots[i].unknown /\ slots'[i].heldIn = slots[i].heldIn
      BY <1>0, <2>2, ClearWrites
    <2>4. Outcome(queue, state[i], i) = "common"
      BY <2>1, UnqueuedOutcome
    <2>5. SlotTruth(i)'
      BY <1>0, <1>1, <2>1, <2>3, <2>4 DEF SlotTruth, StateFor
    <2>6. ~Ready(i)
      BY <1>0, <2>1 DEF SlotReady
    <2>7. SlotReady(i)'
      BY <1>1, <2>3, <2>6 DEF SlotReady, Ready, Presenting
    <2> QED BY <2>5, <2>7
  <1>5. CASE Copy /\ i = Current
    <2>1. render.at = "copy" /\ ~Restore /\ ~TakenBack(i) /\ present.tagged # i
      BY <1>0, <1>5, TaggedApart DEF Restore, Copy, TakenBack
    <2>2. Unqueued(queue, i) /\ vendorRead[i] <= vendorDone /\ ~slots[i].unknown /\ ~slots[i].readState
      BY <1>0, <1>5, <2>1 DEF RenderInv, WaitInv
    <2>3. slots'[i].readState = slots[i].readState /\ slots'[i].unknown = slots[i].unknown
          /\ slots'[i].heldIn = slots[i].heldIn /\ slots'[i].join = slots[i].join
      BY <1>0, <1>5, CopyWrites
    <2>4. ~Given(i)
      BY <1>0, <2>2 DEF SlotGiven
    <2>5. state[i] = "common"
      BY <1>0, <2>1, <2>2, <2>4, UnqueuedOutcome DEF SlotTruth, StateFor
    <2>6. Given(i)' = Given(i)
      BY <1>0, <2>1, GivenAlone
    <2>7. SlotTruth(i)'
      BY <1>0, <1>1, <2>1, <2>3, <2>6 DEF SlotTruth
    <2>8. SlotReady(i)'
      BY <1>1, <2>2, <2>3, <2>5 DEF SlotReady
    <2> QED BY <2>7, <2>8
  <1>6. ASSUME ~Ask, ~Restore, ~TakenBack(i), ~(Copy /\ i = Current)
        PROVE  SlotTruth(i)' /\ SlotReady(i)'
    <2>1. /\ slots'[i].join = slots[i].join
          /\ slots'[i].source = slots[i].source /\ slots'[i].prepared = slots[i].prepared
          /\ slots'[i].readState = slots[i].readState
          /\ slots'[i].unknown = slots[i].unknown /\ slots'[i].heldIn = slots[i].heldIn
      <3>1. CASE Moves
        <4>1. slots' = slots \/ (i # Current /\ slots' = [slots EXCEPT ![Current].readState = FALSE])
          BY <1>0, <1>6, <3>1, MoveCases, IdleTypes DEF TakenBack, Advances
        <4> QED BY <1>0, <4>1, ClearWrites
      <3>2. CASE Copy
        BY <1>0, <1>6, <3>2, CopyWrites
      <3>3. CASE Final
        BY <1>0, <3>3, ValueWrites DEF SameBooks
      <3>4. CASE EndRender
        BY <3>4 DEF EndRender
      <3> QED BY <1>6, <3>1, <3>2, <3>3, <3>4 DEF RenderSteps
    <2>2. Given(i)' = Given(i)
      BY <1>0, <1>6, GivenAlone
    <2>3. SlotTruth(i)'
      BY <1>0, <1>1, <2>1, <2>2 DEF SlotTruth
    <2>4. SlotReady(i)'
      BY <1>0, <1>1, <2>1 DEF SlotReady, Ready, Presenting
    <2> QED BY <2>3, <2>4
  <1> QED BY <1>2, <1>3, <1>4, <1>5, <1>6

\* Nor do the others give a slot or take one back.
LEMMA GivenElsewhere ==
  ASSUME RingInv, [Next]_vars, ~RenderSteps, ~EndRender, NEW i \in SlotIndex
  PROVE  Given(i)' = Given(i)
  <1>1. ~Restore /\ ~TakenBack(i)
    BY DEF RenderSteps, TakenBack
  <1> QED BY <1>1, GivenAlone

\* Tagging a slot.
LEMMA TagKeepsTruth ==
  ASSUME RingInv, PresentTagged, NEW i \in SlotIndex, Given(i)' = Given(i)
  PROVE  SlotTruth(i)' /\ SlotReady(i)'
  <1> DEFINE t == SlotOf(Presenting)
             e == [kind |-> "read", slot |-> t, after |-> serial, signal |-> 0]
  <1>0. /\ TypeOK /\ ThreadInv /\ SlotTruth(i) /\ SlotReady(i) /\ SlotReady(t) /\ Ready(t) /\ t \in SlotIndex /\ t # NoSlot
        /\ queue \in Seq(Entry) /\ (slots[i] \in Slot) /\ (serial \in Nat) /\ (vendorDone \in Nat) /\ BaseInv
    BY RingParts, RingHeads, TaggedIsReady DEF FenceTypes
  <1>1. /\ present' = [at |-> "retire", tagged |-> t, join |-> 0] /\ present.at = "idle"
        /\ queue' = Append(queue, e) /\ UNCHANGED <<state, presented, generation, vendorDone>>
        /\ slots[t].source = Presenting
    BY <1>0, TagStep
  <1>2. e \in Entry
    BY <1>0, SlotsAssumption DEF Entry, SlotIndex
  <1>3. e.slot = t /\ e.kind = "read"
    OBVIOUS
  <1>4. present'.at = "retire" /\ present'.tagged = t
    BY <1>1
  <1>5. CASE i = t
    <2>1. Unqueued(queue, i) /\ state[i] = "common"
      BY <1>0, <1>5 DEF SlotReady
    <2> HIDE DEF e
    <2>2. ~IsQueued(queue', "join", i) /\ IsQueued(queue', "read", i)
      <3>1. /\ Len(queue') = Len(queue) + 1 /\ Len(queue) \in Nat
            /\ \A k \in 1..Len(queue) : queue'[k] = queue[k]
            /\ queue'[Len(queue) + 1] = e
        BY <1>0, <1>1, <1>2, Appended
      <3>2. ~IsQueued(queue', "join", i)
        BY <1>3, <2>1, <3>1 DEF IsQueued, Unqueued
      <3>3. IsQueued(queue', "read", i)
        BY <1>3, <1>5, <3>1 DEF IsQueued
      <3> QED BY <3>2, <3>3
    <2>3. SlotTruth(i)'
      BY <1>4, <1>5, <2>2 DEF SlotTruth, Outcome
    <2>4. slots'[i].source = slots[i].source
      BY <1>0, <1>5, TagStep DEF Slot
    <2>5. SlotReady(i)'
      BY <1>1, <1>4, <1>5, <2>4 DEF SlotReady, Ready, Presenting
    <2> QED BY <2>3, <2>5
  <1>6. CASE i # t
    <2>1. slots'[i] = slots[i] /\ vendorRead'[i] = vendorRead[i]
      BY <1>0, <1>6, TagStep
    <2>2. present.tagged # i
      BY <1>0, <1>1 DEF ThreadInv, SlotIndex, NoSlot
    <2>3. Covers(queue, vendorRead[i], vendorDone, i, slots[i].join)
              => Covers(queue', vendorRead[i], vendorDone, i, slots[i].join)
      BY <1>0, <1>1, <1>2, <1>3, <1>6, AppendedElsewhere
    <2>4. Outcome(queue', state[i], i) = Outcome(queue, state[i], i) /\ (Unqueued(queue, i) => Unqueued(queue', i))
      BY <1>0, <1>1, <1>2, <1>3, <1>6, AppendedElsewhere
    <2>5. SlotTruth(i)'
      BY <1>0, <1>1, <1>4, <1>6, <2>1, <2>2, <2>3, <2>4 DEF SlotTruth
    <2>6. SlotReady(i)'
      BY <1>0, <1>1, <2>1, <2>4 DEF SlotReady, Ready
    <2> QED BY <2>5, <2>6
  <1> QED BY <1>5, <1>6

\* Queueing a retirement, or failing to.
LEMMA RetireKeepsTruth ==
  ASSUME RingInv, Retire, NEW i \in SlotIndex, Given(i)' = Given(i)
  PROVE  SlotTruth(i)' /\ SlotReady(i)'
  <1> DEFINE e == [kind |-> "join", slot |-> present.tagged, after |-> vendorIssued, signal |-> joinIssued + 1]
  <1>0. /\ TypeOK /\ ThreadInv /\ SlotTruth(i) /\ SlotReady(i) /\ queue \in Seq(Entry)
        /\ (joinIssued \in Nat) /\ present.join = 0 /\ i # NoSlot
    <2>1. TypeOK /\ ThreadInv /\ SlotTruth(i) /\ SlotReady(i) /\ queue \in Seq(Entry)
      BY RingParts
    <2>2. present.at # "record" /\ i # NoSlot
      BY SlotsAssumption DEF Retire, SlotIndex, NoSlot
    <2> QED BY <2>1, <2>2 DEF TypeOK, ThreadInv
  <1>1. /\ UNCHANGED <<slots, state, presented, generation, vendorDone, vendorRead>> /\ present.at = "retire"
        /\ present'.at = "record" /\ present'.tagged = present.tagged
    BY <1>0 DEF Retire, vendorVars, TypeOK
  <1>2. e \in Entry
    BY <1>0 DEF Entry, TypeOK
  <1>3. e.slot = present.tagged /\ e.kind = "join"
    OBVIOUS
  <1>4. SlotReady(i)' <=> (Ready(i)' => /\ Unqueued(queue', i) /\ vendorRead[i] <= vendorDone
                                        /\ state[i] = "common" /\ ~slots[i].readState /\ ~slots[i].unknown)
    BY <1>1 DEF SlotReady
  <1>5. Ready(i)' => Ready(i)
    BY <1>1 DEF Ready, Presenting
  <1>6. CASE queue' = Append(queue, e) /\ present'.join = joinIssued + 1
    <2> HIDE DEF e
    <2>1. CASE present.tagged = i
      <3>1. ~Ready(i)
        BY <1>0, <1>1, <2>1 DEF Ready, ThreadInv
      <3>2. IsQueued(queue', "join", i)
        BY <1>0, <1>2, <1>3, <1>6, <2>1, Appended DEF IsQueued
      <3>3. present'.join # 0
        BY <1>0, <1>6
      <3>4. SlotTruth(i)'
        BY <1>1, <2>1, <3>2, <3>3 DEF SlotTruth, Outcome, StateFor
      <3> QED BY <1>4, <1>5, <3>1, <3>4
    <2>2. CASE present.tagged # i
      <3>1. Covers(queue, vendorRead[i], vendorDone, i, slots[i].join)
                => Covers(queue', vendorRead[i], vendorDone, i, slots[i].join)
        BY <1>0, <1>2, <1>3, <1>6, <2>2, AppendedElsewhere
      <3>2. Outcome(queue', state[i], i) = Outcome(queue, state[i], i) /\ (Unqueued(queue, i) => Unqueued(queue', i))
        BY <1>0, <1>2, <1>3, <1>6, <2>2, AppendedElsewhere
      <3>3. SlotTruth(i)'
        BY <1>0, <1>1, <2>2, <3>1, <3>2 DEF SlotTruth
      <3> QED BY <1>0, <1>4, <1>5, <3>2, <3>3 DEF SlotReady
    <2> QED BY <2>1, <2>2
  <1>7. CASE queue' = queue /\ present'.join = 0
    <2>1. SlotTruth(i)'
      BY <1>0, <1>1, <1>7 DEF SlotTruth, StateFor
    <2> QED BY <1>0, <1>4, <1>5, <1>7, <2>1 DEF SlotReady
  <1>8. \/ queue' = Append(queue, e) /\ present'.join = joinIssued + 1
        \/ queue' = queue /\ present'.join = 0
    BY <1>0 DEF Retire, TypeOK
  <1> QED BY <1>6, <1>7, <1>8

\* Recording what the retirement came to.
LEMMA RecordKeepsTruth ==
  ASSUME RingInv, Record, NEW i \in SlotIndex, Given(i)' = Given(i)
  PROVE  SlotTruth(i)' /\ SlotReady(i)'
  <1>0. /\ TypeOK /\ ThreadInv /\ RecordInv /\ SlotTruth(i) /\ SlotReady(i) /\ (slots[i] \in Slot) /\ i # NoSlot
        /\ (present.join \in Nat) /\ (generation \in Nat)
    BY RingParts DEF ThreadTypes
  <1>1. /\ present.at = "record" /\ present' = [Waiting EXCEPT !.at = "boundary"] /\ slots' = RecordAll
        /\ UNCHANGED <<presented, generation, queue, state, vendorRead, vendorDone>>
    BY DEF Record, RecordAs, queueVars, vendorVars
  <1>2. present'.at = "boundary" /\ present'.tagged = NoSlot
    BY <1>1 DEF Waiting
  <1>3. present.tagged = i => slots[i].source = Presenting
    BY <1>0 DEF ThreadInv
  <1>4. CASE present.join # 0
    <2>1. slots'[i] = AfterJoin(i) /\ Covers(queue, vendorRead[i], vendorDone, i, present.join)
      BY <1>0, <1>1, <1>4 DEF RecordAll, RecordInv
    <2>2. CASE i = present.tagged
      <3>1. slots'[i].join = present.join /\ ~slots'[i].unknown /\ ~slots'[i].readState /\ slots'[i].source = slots[i].source
        BY <1>0, <2>1, <2>2 DEF AfterJoin, Joined, Slot
      <3>2. Outcome(queue, state[i], i) = "common"
        BY <1>0, <1>1, <1>4, <2>2 DEF SlotTruth, StateFor
      <3>3. SlotTruth(i)'
        BY <1>0, <1>1, <1>2, <2>1, <3>1, <3>2 DEF SlotTruth, StateFor
      <3>4. SlotReady(i)'
        BY <1>1, <1>2, <1>3, <2>2, <3>1 DEF SlotReady, Ready, Presenting
      <3> QED BY <3>3, <3>4
    <2>3. CASE i # present.tagged /\ slots[i].unknown
      <3>1. slots'[i].join = present.join /\ ~slots'[i].unknown /\ slots'[i].readState = slots[i].readState
            /\ slots'[i].source = slots[i].source /\ slots'[i].prepared = slots[i].prepared
        BY <1>0, <2>1, <2>3 DEF AfterJoin, Joined, Slot
      <3>2. SlotTruth(i)'
        BY <1>0, <1>1, <1>2, <2>1, <2>3, <3>1 DEF SlotTruth
      <3>3. SlotReady(i)'
        BY <1>0, <1>1, <1>2, <2>3, <3>1 DEF SlotReady, Ready, Presenting
      <3> QED BY <3>2, <3>3
    <2>4. CASE i # present.tagged /\ ~slots[i].unknown
      <3>1. slots'[i] = slots[i]
        BY <2>1, <2>4 DEF AfterJoin
      <3>2. SlotTruth(i)'
        BY <1>0, <1>1, <1>2, <2>4, <3>1 DEF SlotTruth
      <3>3. SlotReady(i)'
        BY <1>0, <1>1, <1>2, <3>1 DEF SlotReady, Ready, Presenting
      <3> QED BY <3>2, <3>3
    <2> QED BY <2>2, <2>3, <2>4
  <1>5. CASE present.join = 0
    <2>1. slots'[i] = AfterFailure(i)
      BY <1>1, <1>5 DEF RecordAll
    <2>2. CASE i = present.tagged
      <3>1. slots'[i].heldIn = generation /\ slots'[i].unknown = TRUE /\ slots'[i].readState = TRUE
            /\ slots'[i].source = slots[i].source
        BY <1>0, <2>1, <2>2 DEF AfterFailure, Unjoined, Slot
      <3>2. Outcome(queue, state[i], i) = "read"
        BY <1>0, <1>1, <1>5, <2>2 DEF SlotTruth, StateFor
      <3>3. SlotTruth(i)'
        BY <1>0, <1>1, <1>2, <3>1, <3>2 DEF SlotTruth, StateFor
      <3>4. SlotReady(i)'
        BY <1>1, <1>2, <1>3, <2>2, <3>1 DEF SlotReady, Ready, Presenting
      <3> QED BY <3>3, <3>4
    <2>3. CASE i # present.tagged
      <3>1. slots'[i] = slots[i]
        BY <2>1, <2>3 DEF AfterFailure
      <3>2. SlotTruth(i)'
        BY <1>0, <1>1, <1>2, <2>3, <3>1 DEF SlotTruth
      <3>3. SlotReady(i)'
        BY <1>0, <1>1, <1>2, <3>1 DEF SlotReady, Ready, Presenting
      <3> QED BY <3>2, <3>3
    <2> QED BY <2>2, <2>3
  <1> QED BY <1>4, <1>5

\* The end of a Present, with a switch of the provider or without.
LEMMA EndKeepsTruth ==
  ASSUME RingInv, EndPresent, NEW i \in SlotIndex, Given(i)' = Given(i)
  PROVE  SlotTruth(i)' /\ SlotReady(i)'
  <1>0. /\ TypeOK /\ ThreadInv /\ QueueInv /\ SlotTruth(i) /\ SlotReady(i) /\ (slots[i] \in Slot) /\ i # NoSlot
        /\ (generation \in Nat) /\ (presented \in Nat) /\ (vendorRead[i] \in Nat) /\ (vendorDone \in Nat)
    BY RingParts DEF ThreadTypes, FenceTypes
  <1>1. /\ present.at = "boundary" /\ present' = Waiting /\ presented' = presented + 1
        /\ UNCHANGED <<slots, queue, state, vendorRead, vendorDone>>
    BY DEF EndPresent, Presenting, queueVars, vendorVars
  <1>2. present'.at = "idle" /\ present'.tagged = NoSlot /\ present.tagged = NoSlot
    BY <1>0, <1>1 DEF Waiting, ThreadInv
  <1>3. Covers(queue, vendorRead[i], vendorDone, i, slots[i].join) \/ generation' = generation
    <2>1. CASE queue = <<>> /\ vendorDone = vendorIssued
      <3>1. Unqueued(queue, i) /\ queue \in Seq(Entry)
        BY <2>1 DEF Unqueued
      <3>2. vendorRead[i] <= vendorDone
        BY <1>0, <2>1 DEF QueueInv
      <3> QED BY <1>0, <3>1, <3>2, QuietCovers
    <2> QED BY <2>1 DEF EndPresent
  <1>4. SlotTruth(i)'
    BY <1>0, <1>1, <1>2, <1>3 DEF SlotTruth
  <1>5. Ready(i)' => Ready(i)
    BY <1>0, <1>1, <1>2 DEF Ready, Presenting, Slot
  <1>6. SlotReady(i)'
    BY <1>0, <1>1, <1>5 DEF SlotReady
  <1> QED BY <1>4, <1>6

\* The GPU's steps.
LEMMA GpuKeepsTruth ==
  ASSUME RingInv, StartReads \/ Join \/ VendorFinishes, NEW i \in SlotIndex, Given(i)' = Given(i)
  PROVE  SlotTruth(i)' /\ SlotReady(i)'
  <1>0. /\ TypeOK /\ QueueInv /\ SlotTruth(i) /\ SlotReady(i) /\ queue \in Seq(Entry)
        /\ (vendorRead[i] \in Nat) /\ (vendorDone \in Nat)
    BY RingParts DEF FenceTypes
  <1>1. UNCHANGED <<slots, present, presented, generation, vendorRead>> /\ vendorDone' \in {vendorDone, vendorDone + 1}
    BY DEF StartReads, Join, VendorFinishes, presentVars, vendorVars
  <1>2. Covers(queue, vendorRead[i], vendorDone, i, slots[i].join) => Covers(queue', vendorRead[i], vendorDone', i, slots[i].join)
    <2>1. ~PresentTagged \/ UNCHANGED <<slots, present>>
      BY <1>1
    <2>2. CASE StartReads \/ Join
      <3>1. UNCHANGED vendorDone
        BY <2>2 DEF StartReads, Join, vendorVars
      <3>2. queue # <<>> /\ queue' = Tail(queue) /\ (Head(queue).kind = "join" => vendorDone >= Head(queue).after)
        BY <2>2, QueuePopped
      <3> QED BY <1>0, <3>1, <3>2, CoversPopped
    <2>3. CASE VendorFinishes
      <3>1. UNCHANGED queue /\ vendorDone' = vendorDone + 1
        BY <2>3 DEF VendorFinishes, queueVars
      <3> QED BY <1>0, <3>1, CoversOn
    <2> QED BY <2>2, <2>3
  <1>3. /\ Outcome(queue', state'[i], i) = Outcome(queue, state[i], i)
        /\ IsQueued(queue', "join", i) => IsQueued(queue, "join", i)
        /\ Unqueued(queue, i) => Unqueued(queue', i) /\ state'[i] = state[i]
    <2>1. CASE StartReads \/ Join
      <3>1. /\ queue # <<>> /\ queue' = Tail(queue) /\ OneRound(queue)
            /\ Head(queue).slot # i => state'[i] = state[i]
            /\ Head(queue).slot = i => state'[i] = StateFor(Head(queue).kind = "read")
        BY <1>0, <2>1, QueuePopped DEF QueueInv
      <3>2. Unqueued(queue, i) => Head(queue).slot # i
        BY <1>0, <3>1, Popped DEF Unqueued
      <3> QED BY <1>0, <3>1, <3>2, OutcomePopped
    <2>2. CASE VendorFinishes
      BY <2>2 DEF VendorFinishes, queueVars
    <2> QED BY <2>1, <2>2
  <1>4. SlotTruth(i)'
    BY <1>0, <1>1, <1>2, <1>3 DEF SlotTruth
  <1>5. SlotReady(i)'
    BY <1>0, <1>1, <1>3 DEF SlotReady, Ready, Presenting
  <1> QED BY <1>4, <1>5

\* A restoring list runs.
LEMMA InteropKeepsTruth ==
  ASSUME RingInv, InteropRestores, NEW i \in SlotIndex, Given(i)' = Given(i)
  PROVE  SlotTruth(i)' /\ SlotReady(i)'
  <1> DEFINE h == restores[1].slot
  <1>0. BaseInv /\ SlotTruth(i) /\ SlotReady(i)
    BY RingParts
  <1>1. /\ UNCHANGED <<slots, present, presented, generation, queue, vendorRead, vendorDone>>
        /\ i # h => state'[i] = state[i]
    BY <1>0, InteropStep
  <1>2. Given(h) /\ present.tagged # h /\ slots[h].readState
    BY HeadIsGiven
  <1> HIDE DEF h
  <1>3. CASE i = h
    <2>1. SlotTruth(i)'
      BY <1>0, <1>1, <1>2, <1>3 DEF SlotTruth
    <2>2. ~Ready(i)
      BY <1>0, <1>2, <1>3 DEF SlotReady
    <2>3. SlotReady(i)'
      BY <1>1, <2>2 DEF SlotReady, Ready, Presenting
    <2> QED BY <2>1, <2>3
  <1>4. CASE i # h
    <2>1. SlotTruth(i)'
      BY <1>0, <1>1, <1>4 DEF SlotTruth
    <2>2. SlotReady(i)'
      BY <1>0, <1>1, <1>4 DEF SlotReady, Ready, Presenting
    <2> QED BY <2>1, <2>2
  <1> QED BY <1>3, <1>4

\* The other steps of the present thread and of D3D11.
LEMMA OthersKeepTruth ==
  ASSUME RingInv, PresentUntagged \/ NothingToRetire \/ D3D11Signals \/ UNCHANGED vars, NEW i \in SlotIndex, Given(i)' = Given(i)
  PROVE  SlotTruth(i)' /\ SlotReady(i)'
  <1>0. TypeOK /\ ThreadInv /\ SlotTruth(i) /\ SlotReady(i) /\ i # NoSlot
    BY RingParts
  <1>1. UNCHANGED <<slots, presented, generation, queue, state, vendorRead, vendorDone>>
    BY DEF PresentUntagged, NothingToRetire, D3D11Signals, vars, presentVars, queueVars, vendorVars
  <1>2. CASE PresentUntagged \/ NothingToRetire
    <2>1. present'.tagged = NoSlot /\ present.tagged = NoSlot /\ present'.at # "idle"
      BY <1>0, <1>2 DEF PresentUntagged, NothingToRetire, Upload, Untagged, Waiting, ThreadInv, TypeOK
    <2>2. SlotTruth(i)'
      BY <1>0, <1>1, <2>1 DEF SlotTruth
    <2>3. SlotReady(i)'
      BY <1>0, <1>1, <2>1 DEF SlotReady, Ready, Presenting
    <2> QED BY <2>2, <2>3
  <1>3. CASE UNCHANGED present
    BY <1>0, <1>1, <1>3 DEF SlotTruth, SlotReady, Ready, Presenting
  <1>4. PresentUntagged \/ NothingToRetire \/ UNCHANGED present
    BY DEF D3D11Signals, vars, presentVars
  <1> QED BY <1>2, <1>3, <1>4

-------------------------------------------------------------------------------
\* Theorems.

-------------------------------------------------------------------------------
\* Theorems.

\* It holds at first.
LEMMA RingStart == Init => RingInv
  <1> SUFFICES ASSUME Init PROVE RingInv
    OBVIOUS
  <1>1. BaseInv
    BY BaseStart
  <1>2. QueueInv
    BY DEF Init, QueueInv, OneRound, Matches
  <1>3. RecordInv /\ RenderInv
    BY DEF Init, Waiting, Idle, RecordInv, RenderInv
  <1>4. ASSUME NEW i \in SlotIndex PROVE SlotGiven(i) /\ SlotTruth(i) /\ SlotReady(i)
    <2>1. slots[i] = EmptySlot /\ queue = <<>> /\ vendorRead[i] = 0 /\ vendorDone = 0 /\ state[i] = "common"
          /\ present = Waiting /\ rendered = 0 /\ joinIssued = 0 /\ restores = <<>> /\ abandoned = {} /\ render.at = "idle"
      BY DEF Init, Idle
    <2>2. Unqueued(queue, i) /\ Outcome(queue, state[i], i) = "common" /\ queue \in Seq(Entry)
      BY <2>1 DEF Unqueued, Outcome, IsQueued
    <2>3. Covers(queue, vendorRead[i], vendorDone, i, 0)
      <3>1. vendorRead[i] \in Nat /\ vendorDone \in Nat /\ vendorRead[i] <= vendorDone
        BY <2>1
      <3> QED BY <2>2, <3>1, QuietCovers
    <2>4. present.tagged = NoSlot /\ i # NoSlot
      BY <2>1, SlotsAssumption DEF Waiting, NoSlot, SlotIndex
    <2>5. SlotGiven(i)
      BY <2>1 DEF SlotGiven, Given, Restored
    <2>6. SlotTruth(i)
      BY <2>1, <2>2, <2>3, <2>4 DEF SlotTruth, EmptySlot, StateFor
    <2>7. SlotReady(i)
      BY <2>1 DEF SlotReady, Ready, EmptySlot
    <2> QED BY <2>5, <2>6, <2>7
  <1> QED BY <1>1, <1>2, <1>3, <1>4 DEF RingInv

\* Every step keeps it, unless the event of an earlier wait ends one.
LEMMA RingStep == RingInv /\ [Next]_vars /\ ~early' => RingInv'
  <1> SUFFICES ASSUME RingInv, [Next]_vars, ~early' PROVE RingInv'
    OBVIOUS
  <1>1. BaseInv' /\ QueueInv' /\ RecordInv' /\ RenderInv'
    BY RingHeads, BaseStep, QueueStep, RecordStep, RenderStep
  <1>2. ASSUME NEW i \in SlotIndex PROVE SlotGiven(i)' /\ SlotTruth(i)' /\ SlotReady(i)'
    <2>1. SlotGiven(i)'
      BY GivenStep
    <2>2. CASE RenderSteps \/ EndRender
      BY <2>1, <2>2, RenderKeepsTruth
    <2>3. CASE ~RenderSteps /\ ~EndRender
      <3>1. Given(i)' = Given(i)
        BY <2>3, GivenElsewhere
      <3>2. \/ PresentTagged \/ Retire \/ Record \/ EndPresent \/ InteropRestores
            \/ (StartReads \/ Join \/ VendorFinishes)
            \/ (PresentUntagged \/ NothingToRetire \/ D3D11Signals \/ UNCHANGED vars)
        BY <2>3, Steps DEF RenderSteps
      <3> QED BY <2>1, <3>1, <3>2, TagKeepsTruth, RetireKeepsTruth, RecordKeepsTruth, EndKeepsTruth, InteropKeepsTruth,
                 GpuKeepsTruth, OthersKeepTruth
    <2> QED BY <2>2, <2>3
  <1> QED BY <1>1, <1>2 DEF RingInv

\* The invariant behind both theorems below.
LEMMA Ring == Spec => [](early \/ RingInv)
  <1>1. Init => early \/ RingInv
    BY RingStart
  <1>2. (early \/ RingInv) /\ [Next]_vars => (early \/ RingInv)'
    BY RingStep, EarlyStays
  <1> QED BY <1>1, <1>2, PTL DEF Spec

\* While no wait was ended by the event of one given up before it, the render thread writes a slot
\* only when the vendor has finished with it, nothing on D3D12 is queued for it and its surfaces are
\* in COMMON, however often retirement or a restore failed before.
THEOREM InputsAreWrittenAlone == Spec => []WritesAreAlone
  <1>1. early \/ RingInv => WritesAreAlone
    <2>1. SUFFICES ASSUME RingInv, render.at = "copy" \/ MayCopyHudless
                   PROVE  Quiet(Current) /\ state[Current] = "common"
      BY DEF WritesAreAlone
    <2>2. /\ TypeOK /\ ThreadInv /\ WaitInv /\ RenderInv /\ Current \in SlotIndex /\ SlotGiven(Current)
          /\ SlotTruth(Current) /\ SlotReady(Current) /\ queue \in Seq(Entry) /\ FenceTypes /\ ThreadTypes
      BY <2>1, RingParts, RingHeads
    <2>3. present.tagged # Current /\ (present.at # "idle" => Current # SlotOf(Presenting))
      <3>1. render.at = "copy" => render.at # "idle"
        OBVIOUS
      <3> QED BY <2>1, <2>2, <3>1, TaggedApart
    <2>4. Unqueued(queue, Current) /\ vendorRead[Current] <= vendorDone /\ state[Current] = "common" /\ ~slots[Current].readState
      <3>1. CASE render.at = "copy"
        <4>1. Unqueued(queue, Current) /\ vendorRead[Current] <= vendorDone
          BY <2>2, <3>1 DEF RenderInv
        <4>2. ~slots[Current].readState /\ ~Given(Current)
          BY <2>2, <3>1 DEF WaitInv, SlotGiven
        <4>3. Outcome(queue, state[Current], Current) = "common"
          BY <2>2, <2>3, <4>2 DEF SlotTruth, StateFor
        <4>4. state[Current] = "common"
          BY <2>2, <4>1, <4>3, UnqueuedOutcome
        <4> QED BY <4>1, <4>2, <4>4
      <3>2. CASE MayCopyHudless
        <4>1. slots[Current].prepared /\ slots[Current].source = rendered + 1 /\ presented <= rendered
              /\ rendered \in Nat /\ presented \in Nat
          BY <2>2, <3>2 DEF MayCopyHudless, ThreadInv, ThreadTypes
        <4>2. presented < slots[Current].source /\ (present.at # "idle" => slots[Current].source # presented + 1)
          BY <2>2, <4>1 DEF ThreadInv
        <4>3. Ready(Current)
          BY <4>1, <4>2 DEF Ready, Presenting
        <4> QED BY <2>2, <4>3 DEF SlotReady
      <3> QED BY <2>1, <3>1, <3>2
    <2>5. ~Restored(restores, Current)
      BY <2>2, <2>4 DEF SlotGiven
    <2>6. \A k \in DOMAIN queue : queue[k].slot # Current
      BY <2>2, <2>4 DEF Unqueued
    <2>7. \A k \in DOMAIN restores : restores[k].slot # Current
      <3>1. DOMAIN restores = 1..Len(restores)
        BY <2>2 DEF FenceTypes
      <3> QED BY <2>5, <3>1 DEF Restored
    <2> QED BY <2>4, <2>6, <2>7 DEF Quiet
  <1> QED BY <1>1, Ring, PTL

\* Types; and while no wait was ended by the event of one given up before it, every barrier to or
\* from the read state finds the surfaces in the state it names, unless a restore of the slot was
\* given up once its list was queued.
THEOREM StatesAreTold == Spec => []SlotsInv
  <1>1. BaseInv /\ (early \/ RingInv) => SlotsInv
    <2> SUFFICES ASSUME BaseInv, early \/ RingInv PROVE SlotsInv
      OBVIOUS
    <2>0. TypeOK
      BY BaseParts
    <2> SUFFICES ASSUME RingInv PROVE BarriersMatch
      BY <2>0 DEF SlotsInv
    <2>1. /\ TypeOK /\ ThreadInv /\ QueueInv /\ WaitInv /\ RenderInv /\ Current \in SlotIndex /\ SlotTruth(Current)
          /\ SlotGiven(Current) /\ queue \in Seq(Entry) /\ restores \in Seq(RestoreType) /\ BaseInv
      BY RingParts, RingHeads DEF FenceTypes
    <2>2. ASSUME render.at = "restore", Current \notin abandoned PROVE Quiet(Current) /\ state[Current] = "read"
      <3>1. Unqueued(queue, Current) /\ vendorRead[Current] <= vendorDone
        BY <2>1, <2>2 DEF RenderInv
      <3>2. slots[Current].readState /\ ~Given(Current)
        BY <2>1, <2>2 DEF WaitInv, Given
      <3>3. present.tagged # Current
        BY <2>1, <2>2, TaggedApart
      <3>4. Outcome(queue, state[Current], Current) = "read"
        BY <2>1, <3>2, <3>3 DEF SlotTruth, StateFor
      <3>5. state[Current] = "read"
        BY <2>1, <3>1, <3>4, UnqueuedOutcome
      <3>6. ~Restored(restores, Current)
        BY <2>1, <3>2 DEF SlotGiven
      <3>7. \A k \in DOMAIN queue : queue[k].slot # Current
        BY <2>1, <3>1 DEF Unqueued
      <3>8. \A k \in DOMAIN restores : restores[k].slot # Current
        BY <2>1, <3>6 DEF Restored
      <3> QED BY <3>1, <3>5, <3>7, <3>8 DEF Quiet
    <2>3. ASSUME restores # <<>>, Head(restores).slot \notin abandoned PROVE state[Head(restores).slot] = "read"
      <3> DEFINE h == Head(restores).slot
      <3>1. 1 \in 1..Len(restores) /\ Head(restores) = restores[1] /\ Head(restores) \in RestoreType
        BY <2>1, <2>3
      <3>2. h \in SlotIndex /\ Restored(restores, h)
        BY <3>1 DEF RestoreType, Restored
      <3>3. SlotGiven(h)
        BY <3>2, RingParts
      <3> QED BY <2>3, <3>2, <3>3 DEF SlotGiven
    <2>4. ASSUME queue # <<>>, Head(queue).slot # NoSlot
          PROVE  state[Head(queue).slot] = (IF Head(queue).kind = "read" THEN "common" ELSE "read")
      <3>1. 1 \in 1..Len(queue) /\ Head(queue) = queue[1] /\ Head(queue).kind \in {"read", "join"}
        <4>1. Len(queue) > 0 /\ Head(queue) = queue[1] /\ Head(queue) \in Entry /\ Len(queue) \in Nat
          BY <2>1, <2>4, Popped
        <4> QED BY <4>1 DEF Entry
      <3>2. Matches(queue, state)
        BY <2>1 DEF QueueInv
      <3> QED BY <2>4, <3>1, <3>2 DEF Matches
    <2> QED BY <2>2, <2>3, <2>4 DEF BarriersMatch
  <1> QED BY <1>1, Base, Ring, PTL

-------------------------------------------------------------------------------
\* What the render thread waits for has been submitted.

\* The k-th queued signal, when it ends the work on slot i: the frame in the slot is its own; while
\* the signal is not submitted no Present of that frame has begun; and while the frame is rendered
\* the fence is below the signal and nothing on the interop queue passes it, so that the slot's next
\* use submits it.
SignalTruth(k, i) ==
    signals[k] = slots[i].complete =>
        /\ SlotOf(slots[i].source) = i
        /\ k > flushed => presented < slots[i].source /\ (present.at # "idle" => slots[i].source # Presenting)
        /\ slots[i].source = rendered + 1 =>
              fence < signals[k] /\ \A m \in 1..Len(restores) : restores[m].signal < signals[k]

WaitFlushed ==
    render.at \in Waits => \A k \in 1..Len(signals) : signals[k] = slots[Current].complete => k <= flushed

\* The last join issued is done or queued.
LastJoin == joinDone = joinIssued \/ \E k \in 1..Len(queue) : queue[k].kind = "join" /\ queue[k].signal = joinIssued

SubmitInv ==
    /\ BaseInv /\ WaitFlushed /\ LastJoin
    /\ \A k \in 1..Len(signals), i \in SlotIndex : SignalTruth(k, i)

\* It holds at first.
LEMMA SubmitStart == Init => SubmitInv
  <1>1. ASSUME Init PROVE WaitFlushed /\ LastJoin /\ Len(signals) = 0
    BY <1>1 DEF Init, WaitFlushed, LastJoin, Idle, Waits
  <1> QED BY <1>1, BaseStart DEF SubmitInv

\* Only the present thread's own steps move it, and a Present submits all of D3D11's work when it
\* begins.
LEMMA PresentSubmits ==
  ASSUME [Next]_vars, ~Restore, ~Copy, ~Final, ~D3D11Signals
  PROVE  \/ flushed' = Len(signals)
         \/ UNCHANGED <<presented, present>>
         \/ presented' = presented /\ present.at # "idle"
         \/ presented' = presented + 1 /\ present.at # "idle" /\ present'.at = "idle"
  <1>1. CASE PresentUntagged \/ PresentTagged
    BY <1>1 DEF PresentUntagged, PresentTagged, Upload
  <1>2. CASE Retire \/ NothingToRetire \/ Record
    BY <1>2 DEF Retire, NothingToRetire, Record, RecordAs
  <1>3. CASE EndPresent
    BY <1>3 DEF EndPresent, Waiting, Presenting
  <1>4. CASE UNCHANGED <<presented, present>>
    BY <1>4
  <1>5. \/ PresentUntagged \/ PresentTagged \/ Retire \/ NothingToRetire \/ Record \/ EndPresent
        \/ UNCHANGED <<presented, present>>
    BY Steps, MovesKeep DEF vars, presentVars, Ask, AskFor, EndRender, InteropRestores, StartReads, Join, VendorFinishes
  <1> QED BY <1>1, <1>2, <1>3, <1>4, <1>5

\* A copy's signal is the last one, and says nothing of the other slots.
LEMMA CopySignals ==
  ASSUME SubmitInv, Copy \/ Final, NEW k \in 1..Len(signals'), NEW i \in SlotIndex
  PROVE  SignalTruth(k, i)'
  <1>0. BaseInv /\ SignalsRise /\ ThreadInv /\ (\A l \in 1..Len(signals) : SignalTruth(l, i))
    BY BaseParts DEF SubmitInv
  <1> SUFFICES ASSUME signals'[k] = slots'[i].complete
               PROVE  /\ SlotOf(slots'[i].source) = i
                      /\ k > flushed' => presented' < slots'[i].source /\ (present'.at # "idle" => slots'[i].source # presented' + 1)
                      /\ slots'[i].source = rendered' + 1 =>
                            fence' < signals'[k] /\ \A m \in 1..Len(restores') : restores'[m].signal < signals'[k]
    BY DEF SignalTruth, Presenting
  <1>1. CASE i = Current
    <2>1. signals'[k] = serial + 1 /\ slots'[i].source = rendered + 1
      BY <1>0, <1>1, CopyStep
    <2>2. presented <= rendered /\ (present.at # "idle" => presented < rendered)
      BY <1>0 DEF ThreadInv
    <2>3. fence < serial + 1 /\ \A m \in 1..Len(restores) : restores[m].signal < serial + 1
      BY <1>0, SignalTypes DEF SignalsRise
    <2>4. presented' < slots'[i].source /\ (slots'[i].source # presented' + 1 \/ present'.at = "idle")
      BY <1>0, <2>1, <2>2, CopyStep, SignalTypes
    <2>5. presented' < slots'[i].source
      BY <1>0, <2>1, <2>2, CopyStep, SignalTypes
    <2> QED BY <1>0, <1>1, <2>1, <2>3, <2>4, <2>5, CopyStep DEF Current
  <1>2. CASE i # Current
    <2>1. slots'[i] = slots[i] /\ slots[i].complete <= serial
      BY <1>0, <1>2, CopyStep DEF SignalsRise
    <2>2. k # Len(signals) + 1
      BY <1>0, <2>1, CopyStep, SignalTypes
    <2>3. k \in 1..Len(signals)
      BY <1>0, <2>2, CopyStep, SignalTypes
    <2>4. k \in 1..Len(signals) /\ signals'[k] = signals[k]
      BY <1>0, <2>3, CopyStep
    <2>5. SignalTruth(k, i)
      BY <1>0, <2>4
    <2>6. k > flushed' => k > flushed
      BY <1>0, <2>4, CopyStep, SignalTypes
    <2> QED BY <1>0, <2>1, <2>4, <2>5, <2>6, CopyStep DEF SignalTruth, Presenting
  <1> QED BY <1>1, <1>2

\* What a queued signal says of its slot.
LEMMA SignalTruthStep ==
  ASSUME SubmitInv, [Next]_vars, NEW k \in 1..Len(signals'), NEW i \in SlotIndex
  PROVE  SignalTruth(k, i)'
  <1>0. BaseInv /\ SignalsRise /\ ThreadInv /\ (\A l \in 1..Len(signals) : SignalTruth(l, i))
    BY BaseParts DEF SubmitInv
  <1>1. rendered' \in {rendered, rendered + 1}
    BY Steps, MovesKeep DEF vars, renderVars, Ask, AskFor, Restore, Copy, Final, EndRender,
           PresentUntagged, PresentTagged, Retire, NothingToRetire, Record, RecordAs, EndPresent, D3D11Signals,
           InteropRestores, StartReads, Join, VendorFinishes
  <1>2. CASE Copy \/ Final
    BY <1>2, CopySignals
  <1> SUFFICES ASSUME ~Copy, ~Final, signals'[k] = slots'[i].complete
               PROVE  /\ SlotOf(slots'[i].source) = i
                      /\ k > flushed' => presented' < slots'[i].source /\ (present'.at # "idle" => slots'[i].source # presented' + 1)
                      /\ slots'[i].source = rendered' + 1 =>
                            fence' < signals'[k] /\ \A m \in 1..Len(restores') : restores'[m].signal < signals'[k]
    BY <1>2 DEF SignalTruth, Presenting
  <1>3. CASE Restore
    <2>1. signals' = signals /\ signals[k] <= serial /\ serial \in Nat /\ k \in 1..Len(signals)
      BY <1>0, <1>3, RestoreStep, SignalTypes DEF SignalsRise
    <2>2. i # Current
      BY <1>0, <1>3, <2>1, RestoreStep
    <2>3. slots'[i] = slots[i]
      BY <1>0, <1>3, <2>2, RestoreStep
    <2>4. SignalTruth(k, i) /\ signals[k] = slots[i].complete
      BY <1>0, <2>1, <2>3
    <2>5. slots[i].source # rendered + 1
      BY <2>2, <2>4 DEF SignalTruth, Current
    <2> QED BY <1>0, <1>3, <2>1, <2>3, <2>4, <2>5, RestoreStep DEF SignalTruth, Presenting
  <1>4. CASE D3D11Signals
    <2>1. k + 1 \in 1..Len(signals) /\ 1 \in 1..Len(signals) /\ signals'[k] = signals[k + 1] /\ slots' = slots
      <3>1. Len(signals) > 0 /\ Len(signals') = Len(signals) - 1 /\ Len(signals) \in Nat /\ slots' = slots
            /\ signals'[k] = signals[k + 1]
        BY <1>0, <1>4, SignalReached, SignalTypes
      <3> QED BY <3>1
    <2>2. SignalTruth(k + 1, i) /\ signals[1] < signals[k + 1]
      BY <1>0, <2>1 DEF SignalsRise
    <2>3. k > flushed' => k + 1 > flushed
      BY <1>0, <1>4, SignalReached, SignalTypes
    <2> QED BY <1>0, <1>4, <2>1, <2>2, <2>3, SignalReached DEF SignalTruth, Presenting
  <1>5. CASE InteropRestores
    <2>1. UNCHANGED <<slots, present, presented, rendered, signals, flushed>> /\ k \in 1..Len(signals)
      BY <1>0, <1>5, InteropStep
    <2>2. SignalTruth(k, i) /\ signals[k] = slots[i].complete
      BY <1>0, <2>1
    <2>3. ASSUME slots[i].source = rendered + 1
          PROVE  fence' < signals[k] /\ \A m \in 1..Len(restores') : restores'[m].signal < signals[k]
      <3>1. fence < signals[k] /\ \A m \in 1..Len(restores) : restores[m].signal < signals[k]
        BY <2>2, <2>3 DEF SignalTruth
      <3>2. Len(restores) > 0 /\ Len(restores) \in Nat /\ Len(restores') = Len(restores) - 1
            /\ (fence' = fence \/ fence' = restores[1].signal)
            /\ \A m \in 1..Len(restores') : restores'[m] = restores[m + 1]
        BY <1>0, <1>5, InteropStep, SignalTypes
      <3>3. ASSUME NEW m \in 1..Len(restores') PROVE restores'[m].signal < signals[k]
        <4>1. m + 1 \in 1..Len(restores) /\ restores'[m] = restores[m + 1]
          BY <3>2
        <4> QED BY <3>1, <4>1
      <3>4. 1 \in 1..Len(restores)
        BY <3>2
      <3> QED BY <3>1, <3>2, <3>3, <3>4
    <2> QED BY <2>1, <2>2, <2>3 DEF SignalTruth, Presenting
  <1>6. CASE ~Restore /\ ~D3D11Signals /\ ~InteropRestores
    <2>1. /\ UNCHANGED <<fence, signals, restores>> /\ flushed' \in {flushed, Len(signals)}
          /\ slots'[i].source = slots[i].source /\ slots'[i].complete = slots[i].complete
      BY <1>0, <1>6, SignalsElsewhere, BooksOfSlots
    <2>2. SignalTruth(k, i) /\ signals[k] = slots[i].complete
      BY <1>0, <2>1
    <2>3. slots'[i].source = rendered' + 1 => fence' < signals'[k] /\ \A m \in 1..Len(restores') : restores'[m].signal < signals'[k]
      <3>1. slots[i].source <= rendered + 1 /\ slots[i].source \in Nat /\ rendered \in Nat
        BY <1>0, SignalTypes
      <3>2. slots'[i].source = rendered' + 1 => slots[i].source = rendered + 1
        <4>1. rendered' = rendered \/ rendered' = rendered + 1
          BY <1>1
        <4>2. slots'[i].source = slots[i].source
          BY <2>1
        <4> QED BY <3>1, <4>1, <4>2
      <3> QED BY <2>1, <2>2, <3>2 DEF SignalTruth
    <2>4. k > flushed' => k > flushed /\ flushed' # Len(signals)
      BY <1>0, <2>1, SignalTypes
    <2>5. k > flushed' => presented' < slots[i].source /\ (present'.at # "idle" => slots[i].source # presented' + 1)
      <3> SUFFICES ASSUME k > flushed'
                   PROVE  presented' < slots[i].source /\ (present'.at # "idle" => slots[i].source # presented' + 1)
        OBVIOUS
      <3>1. presented < slots[i].source /\ (present.at # "idle" => slots[i].source # presented + 1)
        BY <2>2, <2>4 DEF SignalTruth, Presenting
      <3>2. \/ UNCHANGED <<presented, present>>
            \/ presented' = presented /\ present.at # "idle"
            \/ presented' = presented + 1 /\ present.at # "idle" /\ present'.at = "idle"
        BY <1>6, <2>4, PresentSubmits
      <3>3. presented \in Nat /\ slots[i].source \in Nat
        BY <1>0, SignalTypes
      <3> QED BY <3>1, <3>2, <3>3
    <2> QED BY <2>1, <2>2, <2>3, <2>5 DEF SignalTruth
  <1> QED BY <1>3, <1>4, <1>5, <1>6

\* A slot is asked for again only when its frame's Present has begun, which submitted its signal, or
\* by the frame itself, whose signal the fence has not passed.
LEMMA AskSubmits ==
  ASSUME SubmitInv, Ask, NEW k \in 1..Len(signals), signals[k] = slots[Current].complete
  PROVE  k <= flushed'
  <1>0. /\ BaseInv /\ SignalTruth(k, Current) /\ Current \in SlotIndex
        /\ rendered < presented + Ahead /\ flushed' = FlushFor
    BY SignalTypes DEF SubmitInv, Ask, AskFor
  <1>1. CASE fence < slots[Current].complete
    BY <1>0, <1>1, SignalTypes DEF FlushFor
  <1>2. CASE ~(fence < slots[Current].complete)
    <2> DEFINE source == slots[Current].source
    <2>1. SlotOf(source) = SlotOf(rendered + 1) /\ source \in Nat /\ source <= rendered + 1
      BY <1>0, SignalTypes DEF SignalTruth, Current
    <2>2. source # rendered + 1
      BY <1>0, <1>2 DEF SignalTruth
    <2>3. Ahead <= Slots /\ Ahead \in Nat /\ Slots \in Nat /\ rendered \in Nat /\ presented \in Nat
      BY <1>0, SignalTypes, SlotsAssumption, AheadAssumption
    <2>4. ~(presented < source)
      <3> HIDE DEF source
      <3>1. ASSUME presented < source PROVE source < rendered + 1 /\ rendered + 1 < source + Slots
        BY <1>0, <2>1, <2>2, <2>3, <3>1
      <3>2. ASSUME presented < source PROVE SlotOf(source) # SlotOf(rendered + 1)
        <4>1. rendered + 1 \in Nat
          BY <2>3
        <4> QED BY <2>1, <3>1, <3>2, <4>1, SlotsDiffer
      <3> QED BY <2>1, <3>2
    <2>5. k <= flushed
      BY <1>0, <2>4, SignalTypes DEF SignalTruth
    <2> QED BY <1>0, <1>2, <2>5 DEF FlushFor
  <1> QED BY <1>1, <1>2

\* The render thread's waits: the restore's own value is past every signal of D3D11's.
LEMMA WaitFlushedStep == SubmitInv /\ [Next]_vars => WaitFlushed'
  <1> SUFFICES ASSUME SubmitInv, [Next]_vars, render'.at \in Waits, NEW k \in 1..Len(signals'),
                      signals'[k] = slots'[Current'].complete
               PROVE  k <= flushed'
    BY DEF WaitFlushed
  <1>0. BaseInv /\ TypeOK /\ WaitFlushed /\ Current \in SlotIndex
    BY BaseParts DEF SubmitInv
  <1>1. CASE Ask
    <2>1. Current' = Current /\ ~Restore /\ ~Copy /\ ~Final /\ ~D3D11Signals /\ ~InteropRestores
      BY <1>1 DEF Current, Ask, AskFor, Restore, Copy, Final, MayCopyHudless, D3D11Signals, InteropRestores, renderVars
    <2>2. signals' = signals /\ slots'[Current].complete = slots[Current].complete
      BY <1>0, <2>1, SignalsElsewhere, BooksOfSlots
    <2> QED BY <1>1, <2>1, <2>2, AskSubmits
  <1>2. CASE render'.at = "restoring"
    <2>1. BaseInv'
      BY <1>0, BaseStep
    <2>2. signals'[k] < serial' /\ slots'[Current'].complete = serial' /\ serial' \in Nat
      <3>1. RestoreLast' /\ TypeOK'
        BY <2>1 DEF BaseInv
      <3> QED BY <1>2, <3>1 DEF RestoreLast, TypeOK
    <2> QED BY <2>2
  <1>3. CASE ~Ask /\ render'.at # "restoring"
    <2>1. render.at \in Waits /\ rendered' = rendered /\ ~Restore /\ ~Copy /\ ~Final
      <3>1. ~Copy /\ ~Restore
        <4>1. Copy => render'.at = "idle"
          BY <1>0, CopyStep
        <4>2. Restore => render'.at \in {"restoring", "idle"}
          BY <1>0, RestoreStep
        <4> QED BY <1>3, <4>1, <4>2 DEF Waits
      <3>2. CASE Moves
        <4>1. rendered' = rendered
          BY <3>2, MovesKeep
        <4>2. render'.at \in {"complete", "join", "restoring"} /\ render'.at \notin {"restore", "copy", "idle"}
          BY DEF Waits
        <4>3. render.at \in {"complete", "join", "restoring"}
          BY <1>0, <3>2, <4>2, MoveCases, IdleTypes DEF Advances, Waits
        <4> QED BY <3>1, <4>1, <4>3 DEF Final, MayCopyHudless, Waits
      <3>3. CASE ~Moves
        <4>1. EndRender \/ Final => render' = render /\ render.at = "idle"
          BY DEF EndRender, Final, MayCopyHudless, renderVars
        <4>2. ~EndRender /\ ~Final
          BY <4>1 DEF Waits
        <4>3. UNCHANGED <<render, rendered>>
          BY <1>3, <3>1, <3>3, <4>2, Steps DEF vars, renderVars, PresentUntagged, PresentTagged, Retire,
                 NothingToRetire, Record, RecordAs, EndPresent, D3D11Signals, InteropRestores, StartReads, Join,
                 VendorFinishes
        <4> QED BY <3>1, <4>2, <4>3
      <3> QED BY <3>2, <3>3
    <2>2. Current' = Current
      BY <2>1 DEF Current
    <2>3. CASE D3D11Signals
      <3>1. k + 1 \in 1..Len(signals) /\ signals[k + 1] = slots[Current].complete
        BY <1>0, <2>2, <2>3, SignalReached, SignalTypes
      <3>2. k + 1 <= flushed
        BY <1>0, <2>1, <3>1 DEF WaitFlushed
      <3> QED BY <1>0, <2>3, <3>2, SignalReached, SignalTypes
    <2>4. CASE InteropRestores
      <3>1. UNCHANGED <<signals, flushed, slots>>
        BY <1>0, <2>4, InteropStep
      <3> QED BY <1>0, <2>1, <2>2, <3>1 DEF WaitFlushed
    <2>5. CASE ~D3D11Signals /\ ~InteropRestores
      <3>1. signals' = signals /\ flushed' \in {flushed, Len(signals)} /\ slots'[Current].complete = slots[Current].complete
        BY <1>0, <2>1, <2>5, SignalsElsewhere, BooksOfSlots
      <3> QED BY <1>0, <2>1, <2>2, <3>1, SignalTypes DEF WaitFlushed
    <2> QED BY <2>3, <2>4, <2>5
  <1> QED BY <1>1, <1>2, <1>3

\* The last join stays queued until it is done.
LEMMA LastJoinStep == BaseInv /\ LastJoin /\ [Next]_vars => LastJoin'
  <1> SUFFICES ASSUME BaseInv, LastJoin, [Next]_vars PROVE LastJoin'
    OBVIOUS
  <1>0. queue \in Seq(Entry)
    BY BaseParts
  <1>1. CASE Retire /\ queue' # queue
    <2> DEFINE e == [kind |-> "join", slot |-> present.tagged, after |-> vendorIssued, signal |-> joinIssued + 1]
    <2>1. queue' = Append(queue, e) /\ joinIssued' = joinIssued + 1
      BY <1>1 DEF Retire
    <2>2. queue'[Len(queue) + 1] = e /\ Len(queue') = Len(queue) + 1 /\ Len(queue) \in Nat
      BY <1>0, <2>1
    <2> QED BY <2>1, <2>2 DEF LastJoin
  <1>2. CASE PresentTagged
    <2>1. PICK e \in Entry : queue' = Append(queue, e)
      <3> DEFINE e == [kind |-> "read", slot |-> SlotOf(Presenting), after |-> serial, signal |-> 0]
      <3>1. queue' = Append(queue, e)
        BY <1>2 DEF PresentTagged
      <3>2. SlotOf(Presenting) \in 0..Slots /\ serial \in Nat
        <4>1. TypeOK /\ SlotOf(Presenting) \in SlotIndex
          BY BaseParts, CurrentSlot
        <4> QED BY <4>1, SlotsAssumption DEF TypeOK, SlotIndex
      <3>3. e \in Entry
        BY <3>2 DEF Entry
      <3> QED BY <3>1, <3>3
    <2>2. UNCHANGED <<joinIssued, joinDone>>
      BY <1>2 DEF PresentTagged
    <2>3. \A k \in 1..Len(queue) : k \in 1..Len(queue') /\ queue'[k] = queue[k]
      BY <1>0, <2>1, Appended
    <2> QED BY <2>2, <2>3 DEF LastJoin
  <1>3. CASE StartReads \/ Join
    <2>1. queue # <<>> /\ queue' = Tail(queue) /\ joinIssued' = joinIssued
      BY <1>3 DEF StartReads, Join
    <2>2. Head(queue) = queue[1] /\ Len(queue) > 0
      BY <1>0, <2>1, Popped
    <2>3. \/ StartReads /\ joinDone' = joinDone /\ queue[1].kind = "read"
          \/ Join /\ joinDone' = queue[1].signal
      BY <1>3, <2>2 DEF StartReads, Join
    <2>4. \A k \in 1..Len(queue) : k # 1 => k - 1 \in 1..Len(queue') /\ queue'[k - 1] = queue[k]
      BY <1>0, <2>1, Popped
    <2>5. CASE joinDone = joinIssued
      <3>1. ~Join
        <4>1. ASSUME Join PROVE queue[1].kind = "join" /\ joinDone < queue[1].signal /\ queue[1].signal <= joinIssued
          <5>1. queue[1].kind = "join"
            BY <2>2, <4>1 DEF Join
          <5> QED BY <2>2, <5>1, BaseParts DEF JoinsInv, InOrder
        <4>2. joinIssued \in Nat /\ queue[1].signal \in Nat
          BY <1>0, <2>1, <2>2, Popped, BaseParts DEF TypeOK, Entry
        <4> QED BY <2>5, <4>1, <4>2
      <3> QED BY <2>1, <2>3, <2>5, <3>1 DEF LastJoin
    <2>6. ASSUME NEW k \in 1..Len(queue), queue[k].kind = "join", queue[k].signal = joinIssued PROVE LastJoin'
      <3>1. CASE k = 1
        BY <2>1, <2>3, <2>6, <3>1 DEF LastJoin
      <3>2. CASE k # 1
        BY <2>1, <2>4, <2>6, <3>2 DEF LastJoin
      <3> QED BY <3>1, <3>2
    <2> QED BY <2>5, <2>6 DEF LastJoin
  <1>4. CASE UNCHANGED <<queue, joinIssued, joinDone>>
    BY <1>4 DEF LastJoin
  <1> QED BY <1>1, <1>2, <1>3, <1>4, QueueMovers

\* Every step keeps it.
LEMMA SubmitStep == SubmitInv /\ [Next]_vars => SubmitInv'
  <1> SUFFICES ASSUME SubmitInv, [Next]_vars PROVE SubmitInv'
    OBVIOUS
  <1>1. BaseInv' /\ WaitFlushed' /\ LastJoin'
    BY BaseStep, WaitFlushedStep, LastJoinStep DEF SubmitInv
  <1>2. \A k \in 1..Len(signals'), i \in SlotIndex : SignalTruth(k, i)'
    BY SignalTruthStep
  <1> QED BY <1>1, <1>2 DEF SubmitInv

\* The render thread never waits in resources() for what it keeps back itself: the signal that ends
\* D3D11's work on the slot has been submitted, and the join it waits for is queued or done,
\* whatever was copied without a flush, whichever retirement or restore failed, and whatever ended
\* an earlier wait.
THEOREM WaitsAreSubmitted == Spec => []SubmittedBeforeWaiting
  <1>1. SubmitInv => SubmittedBeforeWaiting
    <2> SUFFICES ASSUME SubmitInv, render.at \in Waits
                 PROVE  /\ \A k \in DOMAIN signals : signals[k] = slots[Current].complete => k <= flushed
                        /\ joinDone >= render.join \/ \E k \in DOMAIN queue : queue[k].signal >= render.join
      BY DEF SubmittedBeforeWaiting
    <2>1. BaseInv /\ signals \in Seq(Nat) /\ Current \in SlotIndex /\ queue \in Seq(Entry)
          /\ (joinIssued \in Nat) /\ (joinDone \in Nat) /\ slots[Current].join \in Nat
      BY BaseParts DEF SubmitInv, FenceTypes, Slot
    <2>2. \A k \in DOMAIN signals : signals[k] = slots[Current].complete => k <= flushed
      BY <2>1 DEF SubmitInv, WaitFlushed
    <2>3. render.join = slots[Current].join /\ slots[Current].join <= joinIssued
      BY <2>1, BaseParts DEF WaitInv, SlotBooks, Waits
    <2>4. joinDone >= render.join \/ \E k \in DOMAIN queue : queue[k].signal >= render.join
      BY <2>1, <2>3 DEF SubmitInv, LastJoin
    <2> QED BY <2>2, <2>4
  <1> QED BY <1>1, SubmitStart, SubmitStep, PTL DEF Spec

=============================================================================
