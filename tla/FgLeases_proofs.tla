---------------------------- MODULE FgLeases_proofs ----------------------------
(***************************************************************************)
(* Theorems about fg_leases.cpp for every capacity and every number of     *)
(* frames: the fence values kept in a slot bound the real reads, hence     *)
(* whoever reads a frame's inputs finds them still leased, and the leases  *)
(* implement the promise of InputLease.                                    *)
(***************************************************************************)
EXTENDS FgLeases, TLAPS

USE DEF Ids, SlotIndex

\* id % capacity is an index of leases->slots: find() stays inside the array.
LEMMA SlotOfIndex == \A id \in Ids : SlotOf(id) \in SlotIndex
  BY CapacityAssumption, MaxIdAssumption DEF SlotOf

\* An empty ring covers every frame: none has been read yet.
LEMMA InitInv == Init => IInv
  <1> SUFFICES ASSUME Init PROVE IInv
    OBVIOUS
  <1>1. TypeOK
    BY DEF Init, TypeOK, Slot, EmptySlot
  <1>2. ASSUME NEW id \in Ids
        PROVE  /\ slots[SlotOf(id)] = EmptySlot /\ slots[SlotOf(id)].id # id
               /\ gpuRead[id] = 0 /\ vendorRead[id] = 0
               /\ ~Reading(id)
    <2>1. slots[SlotOf(id)] = EmptySlot
      BY SlotOfIndex DEF Init
    <2>2. EmptySlot.id # id
      BY MaxIdAssumption DEF EmptySlot
    <2>3. gpuRead[id] = 0 /\ vendorRead[id] = 0 /\ gpuDone = 0 /\ vendorDone = 0
      BY DEF Init
    <2> QED BY <2>1, <2>2, <2>3 DEF Reading
  <1>3. FencesCoverReads
    BY <1>2 DEF FencesCoverReads
  <1>4. NotYetUsed
    BY <1>2 DEF NotYetUsed, Leased
  <1>5. IssuedBounds
    BY DEF Init, IssuedBounds
  <1>6. FreeSlotsAreClear
    BY DEF Init, FreeSlotsAreClear
  <1> QED BY <1>1, <1>3, <1>4, <1>5, <1>6 DEF IInv

\* Clearing slots whose two fences have passed loses no reader.
LEMMA CollectKeeps ==
  ASSUME IInv,
         slots' = Collected,
         live' = live \/ live' = (\E i \in SlotIndex : Collected[i].id # 0),
         live, UNCHANGED <<lastAcquire, queues, reads>>
  PROVE  IInv'
  <1> USE DEF IInv, lease, queues, reads
  <1>1. TypeOK'
    BY DEF TypeOK, Collected, Slot, EmptySlot
  <1>2. ASSUME NEW id \in Ids
        PROVE  \/ slots'[SlotOf(id)] = slots[SlotOf(id)]
               \/ /\ Retired(slots[SlotOf(id)]) /\ slots'[SlotOf(id)] = EmptySlot
    BY SlotOfIndex DEF Collected
  <1>3. ASSUME NEW id \in Ids, slots'[SlotOf(id)].id = id
        PROVE  live'
    <2>1. Collected[SlotOf(id)].id # 0 /\ SlotOf(id) \in SlotIndex
      BY <1>3, SlotOfIndex
    <2> QED BY <2>1
  <1>4. FencesCoverReads'
    <2> SUFFICES ASSUME NEW id \in Ids
                 PROVE  FencesCoverReads!(id)'
      BY DEF FencesCoverReads
    <2>1. CASE slots'[SlotOf(id)] = slots[SlotOf(id)]
      BY <2>1, <1>3 DEF FencesCoverReads, Reading
    <2>2. CASE /\ Retired(slots[SlotOf(id)]) /\ slots'[SlotOf(id)] = EmptySlot
      <3>1. slots[SlotOf(id)] \in Slot
        BY SlotOfIndex DEF TypeOK
      <3>2. ~Reading(id)
        BY <2>2, <3>1 DEF FencesCoverReads, Reading, Retired, TypeOK, Slot
      <3> QED BY <2>2, <3>2 DEF EmptySlot, Reading
    <2> QED BY <1>2, <2>1, <2>2
  <1>5. NotYetUsed'
    <2> SUFFICES ASSUME NEW id \in Ids, id > lastAcquire
                 PROVE  gpuRead[id] = 0 /\ vendorRead[id] = 0 /\ ~Leased(id)'
      BY DEF NotYetUsed
    <2>1. gpuRead[id] = 0 /\ vendorRead[id] = 0 /\ slots[SlotOf(id)].id # id
      BY DEF NotYetUsed, Leased
    <2>2. slots'[SlotOf(id)].id # id
      BY <1>2, <2>1 DEF EmptySlot
    <2> QED BY <2>1, <2>2 DEF Leased
  <1>6. IssuedBounds'
    BY DEF IssuedBounds
  <1>7. FreeSlotsAreClear'
    BY DEF FreeSlotsAreClear, Collected
  <1> QED BY <1>1, <1>4, <1>5, <1>6, <1>7

\* What submit and seal write into a slot, field by field.
LEMMA SlotUpdates ==
  ASSUME NEW t \in Slot, NEW n \in Nat
  PROVE  /\ Submitted(t, n) \in Slot
         /\ Submitted(t, n).id = t.id /\ Submitted(t, n).gpu = n
         /\ Submitted(t, n).stage = "submitted"
         /\ Sealed(t, n) \in Slot
         /\ Sealed(t, n).id = t.id /\ Sealed(t, n).gpu = t.gpu
         /\ Sealed(t, n).vendor = n /\ Sealed(t, n).stage = "sealed"
  BY DEF Slot, Submitted, Sealed

\* A step on the slot of one frame id, told by what it does to that slot (s) and
\* to the reads of that frame (g by the queue, v by the SDK).
SlotStep(id, s, g, v) ==
    /\ slots' = [slots EXCEPT ![SlotOf(id)] = s]
    /\ slots[SlotOf(id)].id \in {0, id}
    /\ s.id = 0 => s = EmptySlot
    /\ gpuRead' = [gpuRead EXCEPT ![id] = g]
    /\ vendorRead' = [vendorRead EXCEPT ![id] = v]

\* The rest of that step: time does not run backwards.
CountersGrow(id) ==
    /\ live /\ live'
    /\ lastAcquire' \in Nat /\ lastAcquire' >= lastAcquire /\ lastAcquire' >= id
    /\ gpuIssued' \in Nat /\ gpuIssued' >= gpuIssued
    /\ vendorIssued' \in Nat /\ vendorIssued' >= vendorIssued
    /\ gpuDone' = gpuDone /\ vendorDone' = vendorDone /\ removed' = removed

\* What the slot then knows of the reads of its frame.
SlotKnows(id, s, g, v) ==
    /\ v <= vendorIssued'
    /\ \/ s.id = 0 /\ g <= gpuDone /\ v <= vendorDone
       \/ s.id = id /\ s.stage = "open" /\ g = 0 /\ v = 0
       \/ s.id = id /\ s.stage = "submitted" /\ g <= s.gpu
       \/ s.id = id /\ s.stage = "sealed" /\ g <= s.gpu /\ v <= s.vendor

\* The frames that share the slot, or use another one, are as covered as before.
LEMMA SlotStepKeeps ==
  ASSUME IInv, NEW id \in Ids, NEW s \in Slot, NEW g \in Nat, NEW v \in Nat,
         SlotStep(id, s, g, v), CountersGrow(id), SlotKnows(id, s, g, v)
  PROVE  IInv'
  <1> USE DEF SlotStep, CountersGrow, SlotKnows
  <1> USE DEF IInv
  <1>1. TypeOK'
    BY SlotOfIndex DEF TypeOK
  <1>2. ASSUME NEW j \in Ids, j # id
        PROVE  /\ gpuRead'[j] = gpuRead[j] /\ vendorRead'[j] = vendorRead[j]
               /\ Reading(j)' <=> Reading(j)
               /\ SlotOf(j) # SlotOf(id) => slots'[SlotOf(j)] = slots[SlotOf(j)]
               /\ SlotOf(j) = SlotOf(id) =>
                     slots[SlotOf(j)].id # j /\ slots'[SlotOf(j)].id # j
    <2>1. gpuRead'[j] = gpuRead[j] /\ vendorRead'[j] = vendorRead[j]
      BY <1>2 DEF TypeOK
    <2>2. SlotOf(j) # SlotOf(id) => slots'[SlotOf(j)] = slots[SlotOf(j)]
      BY SlotOfIndex DEF TypeOK
    <2>3. slots'[SlotOf(id)] = s
      BY SlotOfIndex DEF TypeOK
    <2>4. j # 0
      BY MaxIdAssumption
    <2>5. SlotOf(j) = SlotOf(id) => slots[SlotOf(j)].id # j /\ slots'[SlotOf(j)].id # j
      BY <1>2, <2>3, <2>4 DEF Leased
    <2> QED BY <2>1, <2>2, <2>5 DEF Reading
  <1>3. FencesCoverReads'
    <2> SUFFICES ASSUME NEW j \in Ids
                 PROVE  FencesCoverReads!(j)'
      BY DEF FencesCoverReads
    <2>1. CASE j = id
      <3>1. slots'[SlotOf(id)] = s /\ gpuRead'[id] = g /\ vendorRead'[id] = v
        BY SlotOfIndex DEF TypeOK
      <3> QED BY <2>1, <3>1 DEF Reading, TypeOK
    <2>2. CASE j # id
      BY <1>2, <2>2 DEF FencesCoverReads
    <2> QED BY <2>1, <2>2
  <1>4. NotYetUsed'
    <2> SUFFICES ASSUME NEW j \in Ids, j > lastAcquire'
                 PROVE  gpuRead'[j] = 0 /\ vendorRead'[j] = 0 /\ ~Leased(j)'
      BY DEF NotYetUsed
    <2>1. j # id /\ j > lastAcquire
      BY MaxIdAssumption DEF TypeOK
    <2>2. gpuRead[j] = 0 /\ vendorRead[j] = 0 /\ slots[SlotOf(j)].id # j
      BY <2>1 DEF NotYetUsed, Leased
    <2> QED BY <1>2, <2>1, <2>2 DEF Leased
  <1>5. IssuedBounds'
    <2>1. gpuDone' <= gpuIssued' /\ vendorDone' <= vendorIssued'
      BY DEF IssuedBounds, TypeOK
    <2>2. ASSUME NEW j \in Ids PROVE vendorRead'[j] <= vendorIssued'
      BY <1>2, MaxIdAssumption DEF IssuedBounds, TypeOK
    <2> QED BY <2>1, <2>2 DEF IssuedBounds
  <1>6. FreeSlotsAreClear'
    BY SlotOfIndex DEF FreeSlotsAreClear, TypeOK
  <1> QED BY <1>1, <1>3, <1>4, <1>5, <1>6

\* Every operation of the ring, and every step of the queues, preserves IInv.
LEMMA StepInv == IInv /\ [Next]_vars => IInv'
  <1> SUFFICES ASSUME IInv, [Next]_vars PROVE IInv'
    OBVIOUS
  <1> USE DEF lease, queues, reads
  <1>0. TypeOK /\ FreeSlotsAreClear /\ FencesCoverReads /\ NotYetUsed /\ IssuedBounds
    BY DEF IInv
  <1>1. \A id \in Ids : slots[SlotOf(id)] \in Slot /\ gpuRead[id] \in Nat /\ vendorRead[id] \in Nat
    BY <1>0, SlotOfIndex DEF TypeOK
  <1>2. /\ lastAcquire \in Nat /\ gpuIssued \in Nat /\ vendorIssued \in Nat
        /\ gpuIssued + 1 \in Nat /\ vendorIssued + 1 \in Nat
    BY <1>0 DEF TypeOK
  <1>a. ASSUME NEW id \in Ids, Acquire(id) PROVE IInv'
    <2> DEFINE s == [EmptySlot EXCEPT !.id = id]
    <2>1. slots[SlotOf(id)] = EmptySlot
      BY <1>a, <1>0, SlotOfIndex DEF Acquire, FreeSlotsAreClear
    <2>2. slots' = [slots EXCEPT ![SlotOf(id)] = s] /\ slots[SlotOf(id)].id = 0
      BY <1>a, <2>1, <1>0, SlotOfIndex DEF Acquire, TypeOK
    <2>3. gpuRead[id] = 0 /\ vendorRead[id] = 0
      BY <1>a, <1>0 DEF Acquire, NotYetUsed
    <2>4. s \in Slot /\ s.id = id /\ s.id # 0 /\ s.stage = "open"
      BY MaxIdAssumption DEF Slot, EmptySlot
    <2>5. gpuRead' = [gpuRead EXCEPT ![id] = 0] /\ vendorRead' = [vendorRead EXCEPT ![id] = 0]
      BY <1>a, <1>0, <2>3 DEF Acquire, TypeOK
    <2> HIDE DEF s
    <2>g. CountersGrow(id)
      BY <1>a, <1>2, MaxIdAssumption DEF CountersGrow, lease, queues, reads, Acquire
    <2>6. SlotStep(id, s, 0, 0)
      BY <2>2, <2>4, <2>5 DEF SlotStep
    <2>7. SlotKnows(id, s, 0, 0)
      BY <1>a, <1>0, <2>4 DEF SlotKnows, Acquire, TypeOK, lease, queues, reads
    <2> QED BY <2>4, <2>6, <2>7, <2>g, SlotStepKeeps
  <1>b. ASSUME NEW id \in Ids, Submit(id) PROVE IInv'
    <2> DEFINE n == gpuIssued + 1
               s == Submitted(slots[SlotOf(id)], n)
    <2>0. n \in Nat /\ n = gpuIssued'
      BY <1>b, <1>2 DEF Submit
    <2> HIDE DEF n
    <2>1. slots' = [slots EXCEPT ![SlotOf(id)] = s] /\ slots[SlotOf(id)].id = id
      BY <1>b, <2>0 DEF Submit, Leased
    <2>2. vendorRead[id] = 0
      BY <1>b, <1>0, <2>1 DEF Submit, FencesCoverReads
    <2>3. /\ s \in Slot /\ s.id = id /\ s.id # 0 /\ s.stage = "submitted"
          /\ s.gpu = n
      <3>1. slots[SlotOf(id)] \in Slot /\ id # 0
        BY <1>1, MaxIdAssumption
      <3> QED BY <3>1, <2>0, <2>1, SlotUpdates
    <2>4. gpuRead' = [gpuRead EXCEPT ![id] = n] /\ vendorRead' = [vendorRead EXCEPT ![id] = 0]
      BY <1>b, <1>0, <2>0, <2>2 DEF Submit, TypeOK
    <2>5. lastAcquire >= id
      BY <2>1, <1>0, MaxIdAssumption DEF NotYetUsed, Leased, TypeOK
    <2> HIDE DEF s
    <2>g. CountersGrow(id)
      BY <1>b, <1>2, MaxIdAssumption, <2>5 DEF CountersGrow, lease, queues, reads, Submit
    <2>6. SlotStep(id, s, n, 0)
      BY <2>1, <2>3, <2>4, <2>5 DEF SlotStep
    <2>8. SlotKnows(id, s, n, 0)
      BY <1>b, <1>2, <2>0, <2>3 DEF SlotKnows, Submit
    <2> QED BY <2>3, <2>0, <2>6, <2>8, <2>g, SlotStepKeeps
  <1>c. ASSUME NEW id \in Ids, VendorTakes(id) PROVE IInv'
    <2> DEFINE s == slots[SlotOf(id)]
    <2>1. /\ slots' = [slots EXCEPT ![SlotOf(id)] = s] /\ slots[SlotOf(id)].id = id
          /\ s.id = id /\ s.id # 0 /\ s \in Slot
      BY <1>c, <1>0, <1>1, MaxIdAssumption DEF VendorTakes, Leased, TypeOK
    <2>2. s.stage = "submitted" /\ gpuRead[id] <= s.gpu
      BY <1>c, <1>0, <2>1 DEF VendorTakes, FencesCoverReads
    <2>3. gpuRead' = [gpuRead EXCEPT ![id] = gpuRead[id]]
          /\ vendorRead' = [vendorRead EXCEPT ![id] = vendorIssued + 1]
      BY <1>c, <1>0 DEF VendorTakes, TypeOK
    <2>4. lastAcquire >= id
      BY <2>1, <1>0, MaxIdAssumption DEF NotYetUsed, Leased, TypeOK
    <2> HIDE DEF s
    <2>g. CountersGrow(id)
      BY <1>c, <1>2, MaxIdAssumption, <2>4 DEF CountersGrow, lease, queues, reads, VendorTakes
    <2>5. SlotStep(id, s, gpuRead[id], vendorIssued + 1)
      BY <2>1, <2>2, <2>3, <2>4 DEF SlotStep
    <2>7. SlotKnows(id, s, gpuRead[id], vendorIssued + 1)
      BY <1>c, <1>0, <2>1, <2>2 DEF SlotKnows, VendorTakes, TypeOK, lease, queues, reads
    <2>6. vendorIssued + 1 \in Nat
      BY <1>0 DEF TypeOK
    <2> QED BY <1>1, <2>1, <2>5, <2>6, <2>7, <2>g, SlotStepKeeps
  <1>d. ASSUME NEW id \in Ids, Seal(id) PROVE IInv'
    <2> PICK value \in {0, vendorIssued} :
              /\ value = 0 => vendorRead[id] = 0
              /\ slots' = [slots EXCEPT ![SlotOf(id)] = Sealed(@, value)]
      BY <1>d DEF Seal
    <2> DEFINE s == Sealed(slots[SlotOf(id)], value)
    <2>1. slots' = [slots EXCEPT ![SlotOf(id)] = s] /\ slots[SlotOf(id)].id = id
      BY <1>d DEF Seal, Leased
    <2>2. slots[SlotOf(id)].stage = "submitted" /\ gpuRead[id] <= slots[SlotOf(id)].gpu
      BY <1>d, <1>0, <2>1 DEF Seal, FencesCoverReads
    <2>3. /\ s \in Slot /\ s.id = id /\ s.id # 0 /\ s.stage = "sealed"
          /\ s.vendor = value /\ s.gpu = slots[SlotOf(id)].gpu
      <3>1. slots[SlotOf(id)] \in Slot /\ id # 0 /\ value \in Nat
        BY <1>1, <1>2, MaxIdAssumption
      <3> QED BY <3>1, <2>1, SlotUpdates
    <2>4. gpuRead' = [gpuRead EXCEPT ![id] = gpuRead[id]]
          /\ vendorRead' = [vendorRead EXCEPT ![id] = vendorRead[id]]
      BY <1>d, <1>0 DEF Seal, TypeOK
    <2>5. vendorRead[id] <= value /\ vendorRead[id] <= vendorIssued
      BY <1>0, <1>1 DEF IssuedBounds, TypeOK
    <2>6. lastAcquire >= id
      BY <2>1, <1>0, MaxIdAssumption DEF NotYetUsed, Leased, TypeOK
    <2> HIDE DEF s
    <2>g. CountersGrow(id)
      BY <1>d, <1>2, MaxIdAssumption, <2>6 DEF CountersGrow, lease, queues, reads, Seal
    <2>7. SlotStep(id, s, gpuRead[id], vendorRead[id])
      BY <2>1, <2>2, <2>3, <2>4, <2>5, <2>6 DEF SlotStep
    <2>8. SlotKnows(id, s, gpuRead[id], vendorRead[id])
      BY <1>d, <1>0, <2>2, <2>3, <2>5 DEF SlotKnows, Seal, TypeOK, lease, queues, reads
    <2> QED BY <1>1, <2>3, <2>7, <2>8, <2>g, SlotStepKeeps
  <1>e. ASSUME NEW id \in Ids, Cancel(id) PROVE IInv'
    <2>1. slots' = [slots EXCEPT ![SlotOf(id)] = EmptySlot] /\ slots[SlotOf(id)].id = id
      BY <1>e DEF Cancel, Leased
    <2>2. EmptySlot \in Slot /\ EmptySlot.id = 0 /\ id # 0
      BY MaxIdAssumption DEF Slot, EmptySlot
    <2>3. gpuRead' = [gpuRead EXCEPT ![id] = gpuRead[id]]
          /\ vendorRead' = [vendorRead EXCEPT ![id] = vendorRead[id]]
      BY <1>e, <1>0 DEF Cancel, TypeOK
    <2>4. gpuRead[id] = 0 /\ vendorRead[id] = 0
      BY <1>e, <1>0, <2>1 DEF Cancel, FencesCoverReads
    <2>5. lastAcquire >= id
      BY <2>1, <1>0, MaxIdAssumption DEF NotYetUsed, Leased, TypeOK
    <2> HIDE DEF EmptySlot
    <2>g. CountersGrow(id)
      BY <1>e, <1>2, MaxIdAssumption, <2>5 DEF CountersGrow, lease, queues, reads, Cancel
    <2>6. SlotStep(id, EmptySlot, gpuRead[id], vendorRead[id])
      BY <2>1, <2>2, <2>3, <2>4, <2>5 DEF SlotStep
    <2>7. SlotKnows(id, EmptySlot, gpuRead[id], vendorRead[id])
      BY <1>e, <1>0, <2>2, <2>4 DEF SlotKnows, Cancel, TypeOK, lease, queues, reads
    <2> QED BY <1>1, <2>2, <2>6, <2>7, <2>g, SlotStepKeeps
  <1>f. CASE Collect
    BY <1>f, CollectKeeps DEF Collect
  <1>g. CASE Destroy
    BY <1>g, CollectKeeps DEF Destroy
  <1>h. CASE GpuSignals
    <2>1. TypeOK' /\ IssuedBounds'
      BY <1>h, <1>0 DEF TypeOK, IssuedBounds, GpuSignals
    <2>2. \A id \in Ids : Reading(id)' => Reading(id)
      BY <1>h, <1>0, <1>1 DEF TypeOK, Reading, GpuSignals
    <2>3. FencesCoverReads'
      BY <1>h, <1>0, <2>2 DEF FencesCoverReads, GpuSignals
    <2>4. NotYetUsed' /\ FreeSlotsAreClear'
      BY <1>h, <1>0 DEF NotYetUsed, Leased, GpuSignals, FreeSlotsAreClear
    <2> QED BY <2>1, <2>3, <2>4 DEF IInv
  <1>j. CASE VendorSignals
    <2>1. TypeOK' /\ IssuedBounds'
      BY <1>j, <1>0 DEF TypeOK, IssuedBounds, VendorSignals
    <2>2. \A id \in Ids : Reading(id)' => Reading(id)
      BY <1>j, <1>0, <1>1 DEF TypeOK, Reading, VendorSignals
    <2>3. FencesCoverReads'
      BY <1>j, <1>0, <2>2 DEF FencesCoverReads, VendorSignals
    <2>4. NotYetUsed' /\ FreeSlotsAreClear'
      BY <1>j, <1>0 DEF NotYetUsed, Leased, VendorSignals, FreeSlotsAreClear
    <2> QED BY <2>1, <2>3, <2>4 DEF IInv
  <1>k. CASE DeviceRemoved
    BY <1>k, <1>0 DEF DeviceRemoved, IInv, TypeOK, FreeSlotsAreClear, FencesCoverReads,
                      NotYetUsed, IssuedBounds, Leased, Reading
  <1>i. CASE UNCHANGED vars
    BY <1>i, <1>0 DEF vars, IInv, TypeOK, FreeSlotsAreClear, FencesCoverReads, NotYetUsed, IssuedBounds, Leased, Reading
  <1> QED BY <1>a, <1>b, <1>c, <1>d, <1>e, <1>f, <1>g, <1>h, <1>i, <1>j, <1>k DEF Next

\* For every capacity and every number of frames the fence values a slot keeps
\* bound the reads of its frame, and a frame without a slot is not read.
THEOREM LeaseInvariant == Spec => []IInv
  BY InitInv, StepInv, PTL DEF Spec

\* Inputs are never given back, by collect, cancel or destroy, while the
\* consuming queue or the vendor SDK still reads them.
THEOREM ReadersKeepLeases == Spec => []ReadsAreLeased
  <1>1. IInv => ReadsAreLeased
    BY DEF IInv, FencesCoverReads, ReadsAreLeased, Leased
  <1> QED BY <1>1, LeaseInvariant, PTL

-------------------------------------------------------------------------------
\* The promise of InputLease, one step of the ring at a time.

HeldIds == {id \in Ids : Leased(id)}
ReadIds == {id \in Ids : Reading(id)}
ClosedIds == {id \in Ids : id <= lastAcquire /\ ~Leased(id)}
promiseVars == <<HeldIds, ReadIds, ClosedIds>>

\* An empty ring holds nothing.
LEMMA PromiseInit == Init => Promise!Init
  <1> SUFFICES ASSUME Init PROVE Promise!Init
    OBVIOUS
  <1>1. ASSUME NEW id \in Ids PROVE ~Leased(id) /\ ~Reading(id) /\ ~(id <= lastAcquire)
    BY SlotOfIndex, MaxIdAssumption DEF Init, Leased, Reading, EmptySlot
  <1> QED BY <1>1 DEF Promise!Init

\* Frames given back are let go of together: those a collect finds retired, or the one canceled.
LEMMA ReleaseStep ==
  ASSUME IInv, UNCHANGED <<lastAcquire, queues, reads>>, NEW F \in SUBSET Ids,
         \A id \in F : Leased(id) /\ ~Reading(id) /\ ~Leased(id)',
         \A id \in Ids \ F : Leased(id)' <=> Leased(id)
  PROVE  Promise!Next
  <1>1. \A id \in Ids : Reading(id)' <=> Reading(id)
    BY DEF Reading, queues, reads
  <1>2. \A id \in F : id <= lastAcquire
    BY MaxIdAssumption DEF IInv, NotYetUsed, TypeOK
  <1>3. Promise!Release(F)
    BY <1>1, <1>2 DEF Promise!Release
  <1> QED BY <1>3 DEF Promise!Next

\* A collect gives back what has retired, and with it no reader.
LEMMA CollectReleases ==
  ASSUME IInv, slots' = Collected, UNCHANGED <<lastAcquire, queues, reads>>
  PROVE  Promise!Next
  <1> DEFINE F == {id \in Ids : Leased(id) /\ Retired(slots[SlotOf(id)])}
  <1>1. ASSUME NEW id \in Ids
        PROVE  slots'[SlotOf(id)] = IF Retired(slots[SlotOf(id)]) THEN EmptySlot ELSE slots[SlotOf(id)]
    BY SlotOfIndex DEF Collected
  <1>2. ASSUME NEW id \in F PROVE Leased(id) /\ ~Reading(id) /\ ~Leased(id)'
    <2>1. id \in Ids /\ slots[SlotOf(id)] \in Slot /\ id # 0
      BY SlotOfIndex, MaxIdAssumption DEF IInv, TypeOK
    <2>2. ~Reading(id)
      BY <2>1 DEF IInv, FencesCoverReads, Leased, Reading, Retired, TypeOK, Slot
    <2> QED BY <1>1, <2>1, <2>2 DEF Leased, EmptySlot
  <1>3. ASSUME NEW id \in Ids \ F PROVE Leased(id)' <=> Leased(id)
    BY <1>1, MaxIdAssumption DEF Leased, EmptySlot
  <1> HIDE DEF F
  <1>4. F \in SUBSET Ids
    BY DEF F
  <1> QED BY <1>2, <1>3, <1>4, ReleaseStep

\* The ids that a step leaves alone are held and closed as before.
LEMMA SameBooks ==
  ASSUME \A id \in Ids : Leased(id)' <=> Leased(id), lastAcquire' = lastAcquire
  PROVE  UNCHANGED <<HeldIds, ClosedIds>>
  BY DEF HeldIds, ClosedIds

\* The queue or the vendor starts to read inputs that are held.
LEMMA ReadStep ==
  ASSUME IInv, NEW id \in Ids, Leased(id),
         \A j \in Ids : Leased(j)' <=> Leased(j), lastAcquire' = lastAcquire,
         \A j \in Ids \ {id} : Reading(j)' <=> Reading(j), Reading(id)'
  PROVE  Promise!Next
  <1>1. Promise!StartRead(id)
    BY SameBooks DEF Promise!StartRead, HeldIds, ClosedIds
  <1> QED BY <1>1 DEF Promise!Next

\* A fence that moves on ends reads, and starts none.
LEMMA FinishStep ==
  ASSUME \A j \in Ids : Leased(j)' <=> Leased(j), lastAcquire' = lastAcquire,
         \A j \in Ids : Reading(j)' => Reading(j)
  PROVE  Promise!Next
  <1> DEFINE F == {j \in Ids : Reading(j) /\ ~Reading(j)'}
  <1>1. Promise!FinishReads(F)
    BY SameBooks DEF Promise!FinishReads, HeldIds, ClosedIds
  <1> QED BY <1>1 DEF Promise!Next

\* The slot of a frame keeps its id when its other fields are written.
LEMMA SameLeases ==
  ASSUME IInv, NEW id \in Ids, NEW s, slots' = [slots EXCEPT ![SlotOf(id)] = s],
         s.id = slots[SlotOf(id)].id
  PROVE  \A j \in Ids : Leased(j)' <=> Leased(j)
  BY SlotOfIndex DEF IInv, TypeOK, Leased

\* Every step of the ring and its queues is a step of InputLease, or none.
LEMMA PromiseStep == IInv /\ [Next]_vars => [Promise!Next]_promiseVars
  <1> SUFFICES ASSUME IInv, [Next]_vars PROVE Promise!Next \/ UNCHANGED promiseVars
    OBVIOUS
  <1> USE DEF lease, queues, reads
  <1>0. \A id \in Ids : slots[SlotOf(id)] \in Slot /\ gpuRead[id] \in Nat /\ vendorRead[id] \in Nat /\ id # 0
    BY SlotOfIndex, MaxIdAssumption DEF IInv, TypeOK
  <1>01. TypeOK
    BY DEF IInv
  <1>a. ASSUME NEW id \in Ids, Acquire(id) PROVE Promise!Next
    <2> PICK skipped \in SUBSET Ids : skipped = {j \in Ids : lastAcquire < j /\ j < id}
      OBVIOUS
    <2>1. slots'[SlotOf(id)].id = id /\ slots[SlotOf(id)].id = 0
      BY <1>a, <1>0, <1>01, SlotOfIndex DEF Acquire, TypeOK, Slot
    <2>2. ASSUME NEW j \in Ids, j # id PROVE Leased(j)' <=> Leased(j)
      BY <1>a, <1>0, <1>01, <2>1, <2>2, SlotOfIndex DEF Acquire, TypeOK, Leased
    <2>3. Leased(id)' /\ ~Leased(id) /\ id > lastAcquire /\ lastAcquire' = id
      BY <1>a, <1>0, <2>1 DEF Acquire, Leased
    <2>4. \A j \in skipped : ~Leased(j)
      BY <1>01 DEF IInv, NotYetUsed, TypeOK
    <2>5. \A j \in Ids : Reading(j)' <=> Reading(j)
      BY <1>a DEF Acquire, Reading
    <2>6. HeldIds' = HeldIds \union {id}
      BY <2>2, <2>3 DEF HeldIds
    <2>7. ClosedIds' = ClosedIds \union skipped
      <3>1. ASSUME NEW j \in Ids PROVE j \in ClosedIds' <=> j \in ClosedIds \/ j \in skipped
        BY <1>01, <2>2, <2>3, <2>4, MaxIdAssumption DEF ClosedIds, TypeOK
      <3> QED BY <3>1 DEF ClosedIds
    <2>8. id \notin HeldIds \union ClosedIds /\ skipped \intersect (HeldIds \union {id}) = {}
      BY <1>01, <2>3, <2>4, MaxIdAssumption DEF HeldIds, ClosedIds, TypeOK
    <2>9. Promise!Hold(id, skipped)
      BY <2>5, <2>6, <2>7, <2>8 DEF Promise!Hold, HeldIds, ClosedIds
    <2> QED BY <2>9, Zenon DEF Promise!Next
  <1>b. ASSUME NEW id \in Ids, Submit(id) PROVE Promise!Next
    <2> DEFINE s == Submitted(slots[SlotOf(id)], gpuIssued')
    <2>1. slots' = [slots EXCEPT ![SlotOf(id)] = s] /\ s.id = slots[SlotOf(id)].id
      BY <1>b, <1>0 DEF Submit, Submitted, Slot
    <2>2. Leased(id) /\ lastAcquire' = lastAcquire
      BY <1>b DEF Submit
    <2>3. \A j \in Ids \ {id} : Reading(j)' <=> Reading(j)
      BY <1>b, <1>01 DEF Submit, Reading, TypeOK
    <2>4. Reading(id)'
      BY <1>b, <1>01 DEF Submit, Reading, TypeOK, IInv, IssuedBounds
    <2> HIDE DEF s
    <2> QED BY <2>1, <2>2, <2>3, <2>4, SameLeases, ReadStep
  <1>c. ASSUME NEW id \in Ids, VendorTakes(id) PROVE Promise!Next
    <2>1. \A j \in Ids : Leased(j)' <=> Leased(j)
      BY <1>c DEF VendorTakes, Leased
    <2>2. Leased(id) /\ lastAcquire' = lastAcquire
      BY <1>c DEF VendorTakes
    <2>3. \A j \in Ids \ {id} : Reading(j)' <=> Reading(j)
      BY <1>c, <1>01 DEF VendorTakes, Reading, TypeOK
    <2>4. Reading(id)'
      BY <1>c, <1>01 DEF VendorTakes, Reading, TypeOK, IInv, IssuedBounds
    <2> QED BY <2>1, <2>2, <2>3, <2>4, ReadStep
  <1>d. ASSUME NEW id \in Ids, Seal(id) PROVE UNCHANGED promiseVars
    <2> PICK value \in {0, vendorIssued} : slots' = [slots EXCEPT ![SlotOf(id)] = Sealed(@, value)]
      BY <1>d DEF Seal
    <2> DEFINE s == Sealed(slots[SlotOf(id)], value)
    <2>1. slots' = [slots EXCEPT ![SlotOf(id)] = s] /\ s.id = slots[SlotOf(id)].id
      BY <1>0 DEF Sealed, Slot
    <2> HIDE DEF s
    <2>2. \A j \in Ids : Leased(j)' <=> Leased(j)
      BY <2>1, SameLeases
    <2>3. lastAcquire' = lastAcquire /\ ReadIds' = ReadIds
      BY <1>d DEF Seal, ReadIds, Reading
    <2> QED BY <2>2, <2>3, SameBooks DEF promiseVars
  <1>e. ASSUME NEW id \in Ids, Cancel(id) PROVE Promise!Next
    <2>1. slots'[SlotOf(id)] = EmptySlot /\ slots[SlotOf(id)].id = id /\ slots[SlotOf(id)].stage = "open"
      BY <1>e, <1>01, SlotOfIndex DEF Cancel, Leased, TypeOK
    <2>2. ~Reading(id)
      BY <2>1, <1>0, <1>01 DEF IInv, FencesCoverReads, Reading, TypeOK
    <2>3. Leased(id) /\ ~Leased(id)'
      BY <2>1, <1>0 DEF Leased, EmptySlot
    <2>4. \A j \in Ids \ {id} : Leased(j)' <=> Leased(j)
      BY <1>e, <1>0, <1>01, <2>1, SlotOfIndex DEF Cancel, Leased, EmptySlot, TypeOK
    <2>5. UNCHANGED <<lastAcquire, queues, reads>> /\ {id} \in SUBSET Ids
      BY <1>e DEF Cancel
    <2> QED BY <2>2, <2>3, <2>4, <2>5, ReleaseStep
  <1>f. CASE Collect \/ Destroy
    BY <1>f, CollectReleases DEF Collect, Destroy
  <1>g. CASE GpuSignals \/ VendorSignals
    <2>1. UNCHANGED <<slots, lastAcquire, gpuRead, vendorRead>>
      BY <1>g DEF GpuSignals, VendorSignals
    <2>2. gpuDone' >= gpuDone /\ vendorDone' >= vendorDone /\ gpuDone' \in Nat /\ vendorDone' \in Nat
      BY <1>g, <1>01 DEF GpuSignals, VendorSignals, TypeOK
    <2>3. ASSUME NEW j \in Ids PROVE (Leased(j)' <=> Leased(j)) /\ (Reading(j)' => Reading(j))
      BY <1>0, <1>01, <2>1, <2>2 DEF Leased, Reading, TypeOK
    <2> QED BY <2>1, <2>3, FinishStep
  <1>h. CASE DeviceRemoved \/ UNCHANGED vars
    BY <1>h DEF DeviceRemoved, vars, promiseVars, HeldIds, ReadIds, ClosedIds, Leased, Reading
  <1> QED BY <1>a, <1>b, <1>c, <1>d, <1>e, <1>f, <1>g, <1>h DEF Next

\* For every capacity and number of frames fg_leases keeps the promise of InputLease: inputs are
\* held from acquire to one release, no release overtakes a reader, and no frame is held twice.
THEOREM LeasesKeepPromise == Spec => PromiseSpec
  BY PromiseInit, PromiseStep, LeaseInvariant, PTL
     DEF Spec, PromiseSpec, Promise!Spec, Promise!vars, promiseVars, HeldIds, ReadIds, ClosedIds
===============================================================================
