---------------------------- MODULE FrameSequencer ----------------------------
(***************************************************************************)
(* runtime/orchestrator/src/frame_sequencer.cpp: the ledger of frames in   *)
(* flight, a ring indexed by id % capacity.  A frame collects the seven    *)
(* latency markers in order; one out of order, or dated before the one it  *)
(* follows, fails the frame for good.                                      *)
(*                                                                         *)
(* Every call holds ledger->guard, so each operation is one step; the      *)
(* session composes them (FgSession).                                      *)
(***************************************************************************)
EXTENDS Naturals

CONSTANTS Capacity,   \* slots given to rsf_frame_sequencer_create
          MaxId       \* bound: frame ids are 1 .. MaxId

ASSUME CapacityAssumption == Capacity \in Nat \ {0}
ASSUME MaxIdAssumption == MaxId \in Nat

Ids == 1 .. MaxId
SlotIndex == 0 .. (Capacity - 1)
Ordinals == 0 .. 6      \* input sample, simulation start .. present end
AllMarks == 7
Failed == 8             \* slot.failed, whatever marker_mask is

VARIABLES ledger,       \* ledger->slots: the frame of a slot and its markers
          lastBegin     \* ledger->last_begin

\* Only a prefix of the markers is ever accepted, so marker_mask is the length
\* of that prefix.  A free slot is {}.
LedgerSlot == [id : Nat, marks : 0 .. Failed]
FreeSlot == [id |-> 0, marks |-> 0]

LedgerType == /\ ledger \in [SlotIndex -> LedgerSlot]
              /\ lastBegin \in Nat

LedgerInit == /\ ledger = [i \in SlotIndex |-> FreeSlot]
              /\ lastBegin = 0

SlotOf(id) == id % Capacity
Live(id) == ledger[SlotOf(id)].id = id
Marks(id) == ledger[SlotOf(id)].marks

\* rsf_frame_sequencer_begin accepts the id
MayBegin(id) == id > lastBegin /\ ledger[SlotOf(id)].id = 0

LedgerBegin(id) ==
    /\ MayBegin(id)
    /\ ledger' = [ledger EXCEPT ![SlotOf(id)] = [id |-> id, marks |-> 0]]
    /\ lastBegin' = id

\* begin undone by finish: the id is spent all the same
LedgerBeginUndone(id) ==
    /\ MayBegin(id)
    /\ lastBegin' = id
    /\ UNCHANGED ledger

\* rsf_frame_sequencer_marker; dated: the timestamp is not before the previous one
LedgerMarker(id, index, dated) ==
    /\ Live(id) /\ Marks(id) # Failed
    /\ ledger' = [ledger EXCEPT ![SlotOf(id)].marks =
                      IF index = @ /\ dated THEN @ + 1 ELSE Failed]
    /\ UNCHANGED lastBegin

\* rsf_frame_sequencer_finish frees the frame's slot whether or not the frame is
\* complete, and answers NOT_READY when the slot is another frame's
LedgerFinish(id) ==
    /\ ledger' = IF Live(id) THEN [ledger EXCEPT ![SlotOf(id)] = FreeSlot] ELSE ledger
    /\ UNCHANGED lastBegin
===============================================================================
