------------------------------- MODULE FgLeases -------------------------------
(***************************************************************************)
(* runtime/orchestrator/src/fg_leases.cpp: COM references to the inputs of *)
(* a generated frame, kept in a ring of slots indexed by id % capacity     *)
(* until the queue that consumed them AND the vendor SDK have both         *)
(* signalled.                                                              *)
(*                                                                         *)
(* The operations are "graphics-owner-thread operations" (fg_leases.h), so *)
(* each call is one step; what runs beside them is the GPU queue, the      *)
(* vendor's queue and the loss of the device.  gpuRead and vendorRead say  *)
(* which fence value ends the real reads of a frame: the code never sees   *)
(* them, it sees only the values its caller passed to submit and seal.     *)
(***************************************************************************)
EXTENDS Naturals

CONSTANTS Capacity,   \* slots given to rsf_fg_leases_create
          MaxId       \* bound: frame ids the caller uses are 1 .. MaxId

ASSUME CapacityAssumption == Capacity \in Nat \ {0}
ASSUME MaxIdAssumption == MaxId \in Nat

Ids == 1 .. MaxId
SlotIndex == 0 .. (Capacity - 1)

VARIABLES slots,         \* leases->slots
          lastAcquire,   \* leases->last_acquire
          live,          \* the handle has not been deleted
          gpuIssued,     \* last value the consuming queue was asked to signal
          gpuDone,       \* gpu->GetCompletedValue()
          vendorIssued,  \* last value the SDK was asked to signal
          vendorDone,    \* vendor->GetCompletedValue()
          removed,       \* device lost: both fences report UINT64_MAX
          gpuRead,       \* gpuRead[id]: value that ends the queue's reads of id
          vendorRead     \* vendorRead[id]: value that ends the SDK's reads of id

lease == <<slots, lastAcquire, live>>
queues == <<gpuIssued, gpuDone, vendorIssued, vendorDone, removed>>
reads == <<gpuRead, vendorRead>>
vars == <<lease, queues, reads>>

\* resources[], generation and the fence pointers live exactly as long as id
\* does; a null vendor fence is the value 0.  The flags submitted and sealed,
\* set in that order, are the stage; a free slot has neither.
Slot == [id : Nat, gpu : Nat, vendor : Nat, stage : {"open", "submitted", "sealed"}]
EmptySlot == [id |-> 0, gpu |-> 0, vendor |-> 0, stage |-> "open"]

\* The slot once its queue submission, or its vendor retirement, is recorded.
Submitted(s, value) == [s EXCEPT !.gpu = value, !.stage = "submitted"]
Sealed(s, value) == [s EXCEPT !.vendor = value, !.stage = "sealed"]

SlotOf(id) == id % Capacity
Leased(id) == slots[SlotOf(id)].id = id    \* find() returns the slot of id

Init == /\ slots = [i \in SlotIndex |-> EmptySlot]
        /\ lastAcquire = 0
        /\ live = TRUE
        /\ gpuIssued = 0 /\ gpuDone = 0
        /\ vendorIssued = 0 /\ vendorDone = 0
        /\ removed = FALSE
        /\ gpuRead = [id \in Ids |-> 0]
        /\ vendorRead = [id \in Ids |-> 0]

-------------------------------------------------------------------------------
\* Mutated forms of the definitions below; no specification uses them.
AcquireWithoutOrder(id) ==
    /\ live
    /\ slots[SlotOf(id)].id = 0
    /\ slots' = [slots EXCEPT ![SlotOf(id)] = [@ EXCEPT !.id = id]]
    /\ lastAcquire' = id
    /\ UNCHANGED <<live, queues, reads>>

RetiredByGpuAlone(s) == s.stage = "sealed" /\ ~removed /\ gpuDone >= s.gpu

CancelSubmitted(id) ==
    /\ live /\ Leased(id)
    /\ slots' = [slots EXCEPT ![SlotOf(id)] = EmptySlot]
    /\ UNCHANGED <<lastAcquire, live, queues, reads>>

RetiredOneLate(s) == /\ s.stage = "sealed" /\ ~removed
                     /\ gpuDone > s.gpu /\ vendorDone >= s.vendor

-------------------------------------------------------------------------------
\* rsf_fg_leases_acquire
Acquire(id) ==
    /\ live
    /\ id > lastAcquire
    /\ slots[SlotOf(id)].id = 0
    /\ slots' = [slots EXCEPT ![SlotOf(id)] = [@ EXCEPT !.id = id]]
    /\ lastAcquire' = id
    /\ UNCHANGED <<live, queues, reads>>

\* rsf_fg_leases_submit: the caller has executed the commands that read id and
\* asked the queue to signal the next value.
Submit(id) ==
    /\ live /\ Leased(id)
    /\ slots[SlotOf(id)].stage = "open"
    /\ gpuIssued' = gpuIssued + 1
    /\ gpuRead' = [gpuRead EXCEPT ![id] = gpuIssued']
    /\ slots' = [slots EXCEPT ![SlotOf(id)] = Submitted(@, gpuIssued')]
    /\ UNCHANGED <<lastAcquire, live, gpuDone, vendorIssued, vendorDone, removed, vendorRead>>

\* The application Present hands id to the provider, whose queue reads it.
VendorTakes(id) ==
    /\ live /\ Leased(id)
    /\ slots[SlotOf(id)].stage = "submitted"
    /\ vendorRead[id] = 0
    /\ vendorIssued' = vendorIssued + 1
    /\ vendorRead' = [vendorRead EXCEPT ![id] = vendorIssued']
    /\ UNCHANGED <<lease, gpuIssued, gpuDone, vendorDone, removed, gpuRead>>

\* rsf_fg_leases_seal with what the provider's retirement() returned: its last
\* issued value, or a null fence when it took nothing from this frame.
Seal(id) ==
    /\ live /\ Leased(id)
    /\ slots[SlotOf(id)].stage = "submitted"
    /\ \E value \in {0, vendorIssued} :
          /\ value = 0 => vendorRead[id] = 0
          /\ slots' = [slots EXCEPT ![SlotOf(id)] = Sealed(@, value)]
    /\ UNCHANGED <<lastAcquire, live, queues, reads>>

\* ready() on both fences: a lost device answers FEATURE_FAILED, never OK.
Retired(s) == /\ s.stage = "sealed" /\ ~removed
              /\ gpuDone >= s.gpu /\ vendorDone >= s.vendor

Collected == [i \in SlotIndex |-> IF Retired(slots[i]) THEN EmptySlot ELSE slots[i]]

\* rsf_fg_leases_collect
Collect == /\ live
           /\ slots' = Collected
           /\ UNCHANGED <<lastAcquire, live, queues, reads>>

\* rsf_fg_leases_cancel
Cancel(id) ==
    /\ live /\ Leased(id)
    /\ slots[SlotOf(id)].stage = "open"
    /\ slots' = [slots EXCEPT ![SlotOf(id)] = EmptySlot]
    /\ UNCHANGED <<lastAcquire, live, queues, reads>>

\* rsf_fg_leases_destroy collects first and keeps the handle while a slot is
\* pending; a FEATURE_FAILED collect always leaves one pending.
Destroy == /\ live
           /\ slots' = Collected
           /\ live' = (\E i \in SlotIndex : Collected[i].id # 0)
           /\ UNCHANGED <<lastAcquire, queues, reads>>

\* The queues run in order; the device may go away under all of them.
GpuSignals == /\ gpuDone < gpuIssued /\ ~removed
              /\ gpuDone' = gpuDone + 1
              /\ UNCHANGED <<lease, gpuIssued, vendorIssued, vendorDone, removed, reads>>

VendorSignals == /\ vendorDone < vendorIssued /\ ~removed
                 /\ vendorDone' = vendorDone + 1
                 /\ UNCHANGED <<lease, gpuIssued, gpuDone, vendorIssued, removed, reads>>

DeviceRemoved == /\ ~removed
                 /\ removed' = TRUE
                 /\ UNCHANGED <<lease, gpuIssued, gpuDone, vendorIssued, vendorDone, reads>>

Next == \/ \E id \in Ids : \/ Acquire(id) \/ Submit(id) \/ VendorTakes(id)
                           \/ Seal(id) \/ Cancel(id)
        \/ Collect \/ Destroy
        \/ GpuSignals \/ VendorSignals \/ DeviceRemoved

Spec == Init /\ [][Next]_vars

\* The queues make progress while the device lives, the owner seals what it
\* submitted ("submitted failures must still seal and retire") and collects.
Fairness == /\ WF_vars(GpuSignals) /\ WF_vars(VendorSignals)
            /\ WF_vars(Collect)
            /\ \A id \in Ids : WF_vars(Seal(id))
FairSpec == Spec /\ Fairness

-------------------------------------------------------------------------------
TypeOK ==
    /\ slots \in [SlotIndex -> Slot]
    /\ lastAcquire \in Nat
    /\ live \in BOOLEAN /\ removed \in BOOLEAN
    /\ gpuIssued \in Nat /\ gpuDone \in Nat
    /\ vendorIssued \in Nat /\ vendorDone \in Nat
    /\ gpuRead \in [Ids -> Nat]
    /\ vendorRead \in [Ids -> Nat]

Reading(id) == gpuRead[id] > gpuDone \/ vendorRead[id] > vendorDone

\* Whoever still reads a frame's inputs, a live slot still holds them: neither
\* collect nor cancel nor destroy gives back (and no acquire overwrites) inputs
\* that the consuming queue or the SDK has not finished with.
ReadsAreLeased == \A id \in Ids : Reading(id) => live /\ Leased(id)

\* What makes ReadsAreLeased inductive: a slot's fence values bound the real
\* reads of its frame, and a frame without a slot has no read left.
FencesCoverReads ==
    \A id \in Ids :
        LET s == slots[SlotOf(id)] IN
        IF s.id = id
        THEN /\ live
             /\ IF s.stage = "open" THEN gpuRead[id] = 0 /\ vendorRead[id] = 0
                                    ELSE gpuRead[id] <= s.gpu
             /\ s.stage = "sealed" => vendorRead[id] <= s.vendor
        ELSE ~Reading(id)

NotYetUsed == \A id \in Ids : id > lastAcquire =>
                 gpuRead[id] = 0 /\ vendorRead[id] = 0 /\ ~Leased(id)

IssuedBounds == /\ gpuDone <= gpuIssued /\ vendorDone <= vendorIssued
                /\ \A id \in Ids : vendorRead[id] <= vendorIssued

\* slot = {}: a free slot remembers nothing of the frame it held.
FreeSlotsAreClear == \A i \in SlotIndex : slots[i].id = 0 => slots[i] = EmptySlot

\* The lease bookkeeping after any calls: the inductive strengthening of ReadsAreLeased.
IInv == TypeOK /\ FreeSlotsAreClear /\ FencesCoverReads /\ NotYetUsed /\ IssuedBounds

\* The bookkeeping implements the promise of InputLease: inputs are held from
\* acquire to the one release, and no frame's release overtakes its readers.
Promise == INSTANCE InputLease WITH
    Frames <- Ids,
    held <- {id \in Ids : Leased(id)},
    reading <- {id \in Ids : Reading(id)},
    closed <- {id \in Ids : id <= lastAcquire /\ ~Leased(id)}
\* fg_leases implements InputLease.
PromiseSpec == Promise!Spec

\* A submitted lease does not stay for ever: when the fences keep moving and
\* the owner seals and collects, its inputs are given back or the device is lost.
LeaseRetires == \A id \in Ids :
    (Leased(id) /\ slots[SlotOf(id)].stage # "open") ~> (~Leased(id) \/ removed)
===============================================================================
