---------------------------- MODULE FgSession_proofs ----------------------------
(***************************************************************************)
(* Theorems about fg_session.cpp and its ledger, for every capacity and    *)
(* every number of frames, selects and reads: in_flight counts the ledger  *)
(* exactly, so the test `in_flight == 0` in select keeps every frame out   *)
(* of a change of provider.                                                *)
(***************************************************************************)
EXTENDS FgSession, FiniteSetTheorems, TLAPS

\* id % capacity is an index of the ledger's slots.
LEMMA SlotOfIndex == \A id \in Ids : SlotOf(id) \in SlotIndex
  BY CapacityAssumption, MaxIdAssumption DEF SlotOf, SlotIndex, Ids

\* Frame ids are never 0, the id of a free slot.
LEMMA IdsArePositive == \A id \in Ids : id \in Nat /\ id # 0
  BY MaxIdAssumption DEF Ids

\* The frames in flight are finitely many.
LEMMA LiveFinite == IsFiniteSet(LiveIds) /\ LiveIds \subseteq Ids
  <1>1. IsFiniteSet(Ids)
    BY FS_Interval, MaxIdAssumption DEF Ids
  <1>2. LiveIds \subseteq Ids
    BY DEF LiveIds
  <1> QED BY <1>1, <1>2, FS_Subset

-------------------------------------------------------------------------------
\* The ledger.

\* An accepted begin adds one frame, which was not in flight.
LEMMA BeginAdds ==
  ASSUME LedgerType, NEW id \in Ids, LedgerBegin(id)
  PROVE  LedgerType' /\ id \notin LiveIds /\ LiveIds' = LiveIds \cup {id}
  <1> USE SlotOfIndex, IdsArePositive
  <1>1. LedgerType'
    BY DEF LedgerType, LedgerBegin, LedgerSlot, Failed
  <1>2. id \notin LiveIds
    BY DEF LedgerBegin, MayBegin, LiveIds, Live
  <1>3. ASSUME NEW j \in Ids
        PROVE  Live(j)' <=> Live(j) \/ j = id
    <2>1. CASE SlotOf(j) = SlotOf(id)
      BY <2>1 DEF LedgerType, LedgerBegin, MayBegin, Live
    <2>2. CASE SlotOf(j) # SlotOf(id)
      BY <2>2 DEF LedgerType, LedgerBegin, Live
    <2> QED BY <2>1, <2>2
  <1> QED BY <1>1, <1>2, <1>3 DEF LiveIds

\* Finishing a frame in flight removes that frame and no other.
LEMMA FinishRemoves ==
  ASSUME LedgerType, NEW id \in Ids, Live(id), LedgerFinish(id)
  PROVE  LedgerType' /\ id \in LiveIds /\ LiveIds' = LiveIds \ {id}
  <1> USE SlotOfIndex, IdsArePositive
  <1>1. LedgerType'
    BY DEF LedgerType, LedgerFinish, LedgerSlot, FreeSlot, Failed
  <1>2. id \in LiveIds
    BY DEF LiveIds
  <1>3. ASSUME NEW j \in Ids
        PROVE  Live(j)' <=> Live(j) /\ j # id
    <2>1. CASE SlotOf(j) = SlotOf(id)
      BY <2>1 DEF LedgerType, LedgerFinish, FreeSlot, Live
    <2>2. CASE SlotOf(j) # SlotOf(id)
      BY <2>2 DEF LedgerType, LedgerFinish, Live
    <2> QED BY <2>1, <2>2
  <1> QED BY <1>1, <1>2, <1>3 DEF LiveIds

\* A marker, accepted or failing the frame, changes no frame's presence.
LEMMA MarkerKeeps ==
  ASSUME LedgerType, NEW id \in Ids, NEW index \in Ordinals, NEW dated \in BOOLEAN,
         LedgerMarker(id, index, dated)
  PROVE  LedgerType' /\ LiveIds' = LiveIds
  <1> USE SlotOfIndex
  <1> DEFINE old == ledger[SlotOf(id)]
             new == [old EXCEPT !.marks = IF index = @ /\ dated THEN @ + 1 ELSE Failed]
  <1>1. old \in LedgerSlot
    BY DEF LedgerType
  <1>2. new \in LedgerSlot /\ new.id = old.id
    BY <1>1 DEF LedgerSlot, Ordinals, Failed
  <1>3. ledger' = [ledger EXCEPT ![SlotOf(id)] = new]
    BY DEF LedgerMarker
  <1> HIDE DEF new
  <1>4. LedgerType'
    BY <1>2, <1>3 DEF LedgerType, LedgerMarker
  <1>5. ASSUME NEW j \in Ids
        PROVE  Live(j)' <=> Live(j)
    BY <1>2, <1>3 DEF LedgerType, Live
  <1> QED BY <1>4, <1>5 DEF LiveIds

-------------------------------------------------------------------------------
\* The session.

\* A session that was just created has no frame, no provider and no transition.
LEMMA InitInv == Init => SessionInv
  <1> SUFFICES ASSUME Init PROVE SessionInv
    OBVIOUS
  <1>1. LedgerType
    BY DEF Init, LedgerInit, LedgerType, LedgerSlot, FreeSlot, Failed
  <1>2. LiveIds = {}
    BY SlotOfIndex, IdsArePositive DEF Init, LedgerInit, FreeSlot, LiveIds, Live
  <1>3. TypeOK
    <2>1. FlagsType
      BY Zenon DEF Init, FlagsType
    <2> QED BY <1>1, <2>1 DEF Init, TypeOK, Phases, Plain, NoContext, NoChain
  <1>4. Cardinality(LiveIds) = 0
    BY <1>2, FS_EmptySet
  <1> QED BY <1>2, <1>3, <1>4 DEF Init, SessionInv, CountIsLedger, QuietSwitch, ProviderTracksFrames

\* A call that leaves the Boolean flags alone leaves them Booleans.
LEMMA FlagsKept ==
  ASSUME TypeOK, UNCHANGED <<lastSwitch, plainAvailable, stopped, removed>>
  PROVE  FlagsType'
  BY Zenon DEF TypeOK, FlagsType

\* A step of a frame: it happens between selects, and the count, the prepared
\* frame and the provider's frames follow the ledger.
LEMMA FrameStepKeeps ==
  ASSUME SessionInv, TypeOK', ~Transition, UNCHANGED switchVars,
         inFlight' = Cardinality(LiveIds'),
         prepared' # 0 => prepared' \in LiveIds',
         tokens' = IF context = NoContext THEN {} ELSE LiveIds'
  PROVE  SessionInv'
  BY DEF SessionInv, CountIsLedger, QuietSwitch, ProviderTracksFrames, Transition, switchVars

\* With nothing in flight, whatever else changes: a select and each of its steps.
LEMMA QuietStepKeeps ==
  ASSUME SessionInv, TypeOK', LiveIds = {}, UNCHANGED <<ledger, inFlight>>,
         prepared' \in {prepared, 0}, tokens' \subseteq tokens
  PROVE  SessionInv'
  <1>1. LiveIds' = {}
    BY DEF LiveIds, Live
  <1>2. tokens' = {}
    BY DEF SessionInv, ProviderTracksFrames
  <1> QED BY <1>1, <1>2 DEF SessionInv, CountIsLedger, QuietSwitch, ProviderTracksFrames

\* rsf_fg_session_begin: accepted, the count and the provider gain the frame; refused, neither does.
LEMMA BeginKeeps ==
  ASSUME SessionInv, NEW id \in Ids, Begin(id)
  PROVE  SessionInv'
  <1> USE DEF SessionInv, CountIsLedger, ProviderTracksFrames
  <1>1. CASE LedgerBegin(id) /\ inFlight' = inFlight + 1
             /\ tokens' = IF context = NoContext THEN tokens ELSE tokens \cup {id}
    <2>1. LedgerType' /\ id \notin LiveIds /\ LiveIds' = LiveIds \cup {id}
      BY <1>1, BeginAdds DEF TypeOK
    <2>2. Cardinality(LiveIds') = Cardinality(LiveIds) + 1
      BY <2>1, LiveFinite, FS_AddElement
    <2>3. TypeOK'
      BY <1>1, <2>1, FlagsKept DEF Begin, TypeOK, switchVars, gpuVars
    <2>4. tokens' = IF context = NoContext THEN {} ELSE LiveIds'
      BY <1>1, <2>1
    <2>5. ~Transition /\ UNCHANGED switchVars /\ prepared' = prepared
      BY DEF Begin
    <2> QED BY <1>1, <2>1, <2>2, <2>3, <2>4, <2>5, FrameStepKeeps
  <1>2. CASE LedgerBeginUndone(id) /\ UNCHANGED <<inFlight, tokens>>
    <2>1. LiveIds' = LiveIds
      BY <1>2 DEF LedgerBeginUndone, LiveIds, Live
    <2>2. TypeOK'
      BY <1>2, IdsArePositive, FlagsKept DEF Begin, LedgerBeginUndone, TypeOK, LedgerType, switchVars, gpuVars
    <2>3. ~Transition /\ UNCHANGED switchVars /\ prepared' = prepared
      BY DEF Begin
    <2> QED BY <1>2, <2>1, <2>2, <2>3, FrameStepKeeps
  <1> QED BY <1>1, <1>2 DEF Begin

\* rsf_fg_session_marker changes a frame's markers and nothing that is counted.
LEMMA MarkerStepKeeps ==
  ASSUME SessionInv, NEW id \in Ids, NEW index \in Ordinals, NEW dated \in BOOLEAN,
         Marker(id, index, dated)
  PROVE  SessionInv'
  <1> USE DEF SessionInv, CountIsLedger, ProviderTracksFrames
  <1>1. LedgerType' /\ LiveIds' = LiveIds
    BY MarkerKeeps DEF Marker, TypeOK
  <1>2. TypeOK'
    BY <1>1, FlagsKept DEF Marker, TypeOK, switchVars, gpuVars
  <1> QED BY <1>1, <1>2, FrameStepKeeps DEF Marker

\* rsf_fg_session_prepare names a frame that is in flight.
LEMMA PrepareKeeps ==
  ASSUME SessionInv, NEW id \in Ids, Prepare(id)
  PROVE  SessionInv'
  <1> USE DEF SessionInv, CountIsLedger, ProviderTracksFrames
  <1>1. LiveIds' = LiveIds /\ id \in LiveIds
    BY DEF Prepare, LiveIds, Live
  <1>2. TypeOK'
    BY IdsArePositive, FlagsKept DEF Prepare, MayRead, TypeOK, LedgerType, switchVars
  <1> QED BY <1>1, <1>2, FrameStepKeeps DEF Prepare

\* after_present and abort: one frame leaves the ledger, the count and the provider.
LEMMA EndOfFrame ==
  ASSUME SessionInv, NEW id \in Ids, Live(id), LedgerFinish(id),
         ~Transition, UNCHANGED switchVars,
         tokens' = tokens \ {id}, inFlight' = inFlight - 1,
         prepared' = (IF prepared = id THEN 0 ELSE prepared),
         readsIssued' \in Nat, UNCHANGED <<readsDone, removed>>
  PROVE  SessionInv'
  <1> USE DEF SessionInv, CountIsLedger, ProviderTracksFrames
  <1>1. LedgerType' /\ id \in LiveIds /\ LiveIds' = LiveIds \ {id}
    BY FinishRemoves DEF TypeOK
  <1>2. Cardinality(LiveIds') = Cardinality(LiveIds) - 1 /\ Cardinality(LiveIds') \in Nat
    BY <1>1, LiveFinite, FS_RemoveElement, FS_CardinalityType, FS_Subset
  <1>3. TypeOK'
    BY <1>1, <1>2, FlagsKept DEF TypeOK, switchVars
  <1>4. tokens' = IF context = NoContext THEN {} ELSE LiveIds'
    BY <1>1
  <1>5. prepared' # 0 => prepared' \in LiveIds'
    BY <1>1
  <1> QED BY <1>2, <1>3, <1>4, <1>5, FrameStepKeeps

\* rsf_fg_session_after_present ends the prepared frame.
LEMMA AfterPresentKeeps ==
  ASSUME SessionInv, NEW id \in Ids, AfterPresent(id)
  PROVE  SessionInv'
  <1>1. Live(id)
    BY IdsArePositive DEF SessionInv, CountIsLedger, AfterPresent, LiveIds
  <1>2. readsIssued' \in Nat
    BY DEF AfterPresent, MayRead, SessionInv, TypeOK
  <1> QED BY <1>1, <1>2, EndOfFrame DEF AfterPresent

\* rsf_fg_session_abort ends a frame in flight, prepared or not.
LEMMA AbortKeeps ==
  ASSUME SessionInv, NEW id \in Ids, Abort(id)
  PROVE  SessionInv'
  BY EndOfFrame DEF Abort, gpuVars, SessionInv, TypeOK

\* select runs only over an empty ledger, because the count is exact.
LEMMA SelectKeeps ==
  ASSUME SessionInv, NEW target \in {"plain", "provider", "destroy"}, Select(target)
  PROVE  SessionInv'
  <1>1. LiveIds = {}
    BY LiveFinite, FS_EmptySet DEF SessionInv, CountIsLedger, Select
  <1>2. TypeOK'
    BY FlagsKept DEF SessionInv, TypeOK, LedgerType, Select, frameVars, gpuVars, Phases
  <1> QED BY <1>1, <1>2, QuietStepKeeps DEF Select, frameVars

\* What the stages of a select may write, but for the flags.
StageWrites ==
    /\ UNCHANGED <<ledger, lastBegin, inFlight, wanted>>
    /\ phase' \in Phases
    /\ prepared' = prepared \/ prepared' = 0
    /\ tokens' = tokens \/ tokens' = {}
    /\ generation' = generation \/ generation' = generation + 1
    /\ context' \in {context, NoChain, ProviderChain(generation)}
    /\ shown' \in {shown, NoChain, Plain, ProviderChain(generation)}
    /\ chains' \subseteq chains \cup {Plain, ProviderChain(generation)}
    /\ readsIssued' = readsIssued \/ readsIssued' = 0
    /\ readsDone' = readsDone \/ readsDone' = 0

\* Every step of a select writes only what StageWrites allows.
LEMMA StageWriting == SwitchStep => StageWrites
  <1> USE DEF StageWrites, Refuse, GoOn, Phases, NoContext, frameVars, gpuVars
  <1>1. Quiesced => StageWrites
    BY Zenon DEF Quiesced
  <1>2. Probe => StageWrites
    BY Zenon DEF Probe
  <1>3. RetireAsked => StageWrites
    BY Zenon DEF RetireAsked
  <1>4. ReadsRetired => StageWrites
    BY Zenon DEF ReadsRetired
  <1>5. Release => StageWrites
    BY Zenon DEF Release
  <1>6. Create => StageWrites
    BY Zenon DEF Create
  <1>7. Adopt => StageWrites
    BY Zenon DEF Adopt
  <1>8. RestorePlain => StageWrites
    BY Zenon DEF RestorePlain
  <1> QED BY <1>1, <1>2, <1>3, <1>4, <1>5, <1>6, <1>7, <1>8 DEF SwitchStep

\* No step of a select touches the ledger or the count, which are empty then.
LEMMA SwitchStepKeeps ==
  ASSUME SessionInv, SwitchStep
  PROVE  SessionInv'
  <1> USE DEF SessionInv, QuietSwitch, Transition
  <1>1. Transition
    BY DEF SwitchStep, Quiesced, Probe, RetireAsked, ReadsRetired, Release, Create, Adopt, RestorePlain
  <1>2. UNCHANGED <<ledger, inFlight>> /\ prepared' \in {prepared, 0} /\ tokens' \subseteq tokens
    BY StageWriting DEF StageWrites
  <1>3. FlagsType'
    <2> USE DEF TypeOK, FlagsType, GoOn, Refuse, gpuVars
    <2>1. CASE Quiesced BY <2>1, Zenon DEF Quiesced
    <2>2. CASE Probe BY <2>2, Zenon DEF Probe
    <2>3. CASE RetireAsked BY <2>3, Zenon DEF RetireAsked
    <2>4. CASE ReadsRetired BY <2>4, Zenon DEF ReadsRetired
    <2>5. CASE Release BY <2>5, Zenon DEF Release
    <2>6. CASE Create BY <2>6, Zenon DEF Create
    <2>7. CASE Adopt BY <2>7, Zenon DEF Adopt
    <2>8. CASE RestorePlain BY <2>8, Zenon DEF RestorePlain
    <2> QED BY <2>1, <2>2, <2>3, <2>4, <2>5, <2>6, <2>7, <2>8 DEF SwitchStep
  <1>4. TypeOK'
    <2>1. StageWrites /\ TypeOK
      BY StageWriting
    <2>2. LedgerType' /\ inFlight' \in Nat /\ prepared' \in Nat /\ phase' \in Phases
      BY <2>1 DEF StageWrites, TypeOK, LedgerType
    <2>3. /\ ProviderChain(generation) \in Nat
          /\ context' \in Nat /\ shown' \in Nat /\ chains' \subseteq Nat /\ generation' \in Nat
      BY <2>1 DEF StageWrites, TypeOK, NoChain, Plain, ProviderChain
    <2>4. /\ readsIssued' \in Nat /\ readsDone' \in Nat /\ tokens' \subseteq Ids
          /\ wanted' \in {"plain", "provider", "destroy"}
      BY <2>1 DEF StageWrites, TypeOK
    <2> QED BY <1>3, <2>2, <2>3, <2>4, Zenon DEF TypeOK
  <1> QED BY <1>1, <1>2, <1>4, QuietStepKeeps

\* The GPU and the device touch neither frames nor the switch.
LEMMA DeviceStepKeeps ==
  ASSUME SessionInv, ReadFinishes \/ DeviceLost \/ UNCHANGED vars
  PROVE  SessionInv'
  <1>1. LiveIds' = LiveIds /\ UNCHANGED <<inFlight, prepared, tokens, context, phase>>
    BY DEF LiveIds, Live, ReadFinishes, DeviceLost, vars, frameVars, switchVars
  <1>2. FlagsType'
    <2> USE DEF SessionInv, TypeOK, FlagsType, switchVars
    <2>1. CASE ReadFinishes BY <2>1, Zenon DEF ReadFinishes
    <2>2. CASE DeviceLost BY <2>2, Zenon DEF DeviceLost
    <2>3. CASE UNCHANGED vars BY <2>3, Zenon DEF vars, gpuVars
    <2> QED BY <2>1, <2>2, <2>3
  <1>3. TypeOK'
    <2> USE <1>2 DEF SessionInv, TypeOK, LedgerType, frameVars, switchVars, gpuVars
    <2>1. CASE ReadFinishes BY <2>1 DEF ReadFinishes
    <2>2. CASE DeviceLost BY <2>2 DEF DeviceLost
    <2>3. CASE UNCHANGED vars BY <2>3 DEF vars
    <2> QED BY <2>1, <2>2, <2>3
  <1> QED BY <1>1, <1>3 DEF SessionInv, CountIsLedger, QuietSwitch, ProviderTracksFrames, Transition

\* Every call, every step of a select and every step of the device preserves SessionInv.
LEMMA StepInv == SessionInv /\ [Next]_vars => SessionInv'
  <1> SUFFICES ASSUME SessionInv, [Next]_vars PROVE SessionInv'
    OBVIOUS
  <1>1. ASSUME NEW id \in Ids, Begin(id) PROVE SessionInv'
    BY <1>1, BeginKeeps
  <1>2. ASSUME NEW id \in Ids, Prepare(id) PROVE SessionInv'
    BY <1>2, PrepareKeeps
  <1>3. ASSUME NEW id \in Ids, AfterPresent(id) PROVE SessionInv'
    BY <1>3, AfterPresentKeeps
  <1>4. ASSUME NEW id \in Ids, Abort(id) PROVE SessionInv'
    BY <1>4, AbortKeeps
  <1>5. ASSUME NEW id \in Ids, NEW index \in Ordinals, NEW dated \in BOOLEAN, Marker(id, index, dated)
        PROVE  SessionInv'
    BY <1>5, MarkerStepKeeps
  <1>6. ASSUME NEW target \in {"plain", "provider", "destroy"}, Select(target) PROVE SessionInv'
    BY <1>6, SelectKeeps
  <1>7. CASE SwitchStep
    BY <1>7, SwitchStepKeeps
  <1>8. CASE ReadFinishes \/ DeviceLost \/ UNCHANGED vars
    BY <1>8, DeviceStepKeeps
  <1> QED BY <1>1, <1>2, <1>3, <1>4, <1>5, <1>6, <1>7, <1>8 DEF Next

\* fg_session.cpp, every call: in_flight is the number of frames in the ledger,
\* none of them crosses a select, and the provider has open the session's frames.
THEOREM SessionInvariant == Spec => []SessionInv
  BY InitInv, StepInv, PTL DEF Spec

-------------------------------------------------------------------------------
\* The stages of a select.

ReadsOver == readsDone >= readsIssued \/ removed

\* What a select has established by each stage: nothing is shown and no context
\* is left once the old owner is released, and a release comes after its reads.
StageInv ==
    /\ generation <= MaxGeneration
    /\ phase \in {"quiesce", "probe", "retire", "readsDone", "release"} => generation < MaxGeneration
    /\ phase \in {"create", "adopt", "restore"} =>
           generation >= 1 /\ shown = NoChain /\ context = NoContext
    /\ shown \in {NoChain, Plain} \cup {ProviderChain(g) : g \in 1 .. MaxGeneration}
    /\ phase = "release" /\ context # NoContext => ReadsOver

\* No select is under way in a session that was just created.
LEMMA StageInit == Init => StageInv
  BY BoundsAssumption DEF Init, StageInv

\* Outside a select there is nothing to establish.
LEMMA StageIdle ==
  ASSUME TypeOK, StageInv, ~Transition, UNCHANGED switchVars
  PROVE  StageInv'
  BY DEF StageInv, Transition, switchVars

\* A select starts from any session, and has established nothing yet.
LEMMA StageSelect ==
  ASSUME TypeOK, StageInv, NEW target \in {"plain", "provider", "destroy"}, Select(target)
  PROVE  StageInv'
  BY DEF StageInv, Select

\* A finished read or a lost device only brings the reads nearer to their end.
LEMMA StageDevice ==
  ASSUME TypeOK, StageInv, ReadFinishes \/ DeviceLost \/ UNCHANGED vars
  PROVE  StageInv'
  <1>1. UNCHANGED <<phase, generation, shown, context>>
    BY DEF ReadFinishes, DeviceLost, vars, switchVars
  <1>2. ReadsOver => ReadsOver'
    <2>1. CASE ReadFinishes
      BY <2>1 DEF ReadFinishes, ReadsOver, TypeOK
    <2>2. CASE DeviceLost
      BY <2>2 DEF DeviceLost, ReadsOver
    <2>3. CASE UNCHANGED vars
      BY <2>3 DEF vars, gpuVars, ReadsOver
    <2> QED BY <2>1, <2>2, <2>3
  <1> QED BY <1>1, <1>2 DEF StageInv

\* Each step of a select hands the next one what it relies on.
LEMMA StageSwitch ==
  ASSUME TypeOK, StageInv, SwitchStep
  PROVE  StageInv'
  <1> USE BoundsAssumption DEF TypeOK, StageInv, NoChain, NoContext, Plain, ProviderChain
  <1> USE DEF Refuse, GoOn, gpuVars
  <1>1. CASE Quiesced
    BY <1>1 DEF Quiesced
  <1>2. CASE Probe
    BY <1>2 DEF Probe
  <1>3. CASE RetireAsked
    BY <1>3 DEF RetireAsked, ReadsOver
  <1>4. CASE ReadsRetired
    BY <1>4 DEF ReadsRetired, ReadsOver
  <1>5. CASE Release
    BY <1>5 DEF Release
  <1>6. CASE Create
    BY <1>6 DEF Create
  <1>7. CASE Adopt
    BY <1>7 DEF Adopt
  <1>8. CASE RestorePlain
    BY <1>8 DEF RestorePlain
  <1> QED BY <1>1, <1>2, <1>3, <1>4, <1>5, <1>6, <1>7, <1>8 DEF SwitchStep

FullInv == SessionInv /\ StageInv

\* Both invariants hold of a session that was just created.
LEMMA FullInit == Init => FullInv
  BY InitInv, StageInit DEF FullInv

\* Both invariants are preserved together: the stages need the types.
LEMMA FullStep == FullInv /\ [Next]_vars => FullInv'
  <1> SUFFICES ASSUME FullInv, [Next]_vars PROVE FullInv'
    OBVIOUS
  <1>1. SessionInv' /\ TypeOK
    BY StepInv DEF FullInv, SessionInv
  <1>2. StageInv'
    <2>1. ASSUME NEW id \in Ids,
                 \/ Begin(id) \/ Prepare(id) \/ AfterPresent(id) \/ Abort(id)
                 \/ \E index \in Ordinals, dated \in BOOLEAN : Marker(id, index, dated)
          PROVE  StageInv'
      <3>1. ~Transition /\ UNCHANGED switchVars
        BY <2>1 DEF Begin, Prepare, AfterPresent, Abort, Marker
      <3> QED BY <1>1, <3>1, StageIdle DEF FullInv
    <2>2. ASSUME NEW target \in {"plain", "provider", "destroy"}, Select(target)
          PROVE  StageInv'
      BY <1>1, <2>2, StageSelect DEF FullInv
    <2>3. CASE SwitchStep
      BY <1>1, <2>3, StageSwitch DEF FullInv
    <2>4. CASE ReadFinishes \/ DeviceLost \/ UNCHANGED vars
      BY <1>1, <2>4, StageDevice DEF FullInv
    <2> QED BY <2>1, <2>2, <2>3, <2>4 DEF Next
  <1> QED BY <1>1, <1>2 DEF FullInv

\* Both invariants hold in every reachable state of the session.
LEMMA FullInvariant == Spec => []FullInv
  BY FullInit, FullStep, PTL DEF Spec

\* A context is destroyed or replaced only when its reads have retired, or with
\* the device gone: the only step away from a context is the release, and select
\* reaches it through retire().
THEOREM ReadsEndFirst == Spec => ContextOutlivesReads
  <1>1. FullInv /\ [Next]_vars =>
            [(context # NoContext /\ context' # context) => (readsDone >= readsIssued \/ removed)]_vars
    <2> SUFFICES ASSUME FullInv, Next, context # NoContext, context' # context
                 PROVE  ReadsOver
      BY DEF ReadsOver
    <2>1. phase = "release"
      BY DEF FullInv, StageInv, Next, Begin, Prepare, AfterPresent, Abort, Marker, Select, SwitchStep,
             Quiesced, Probe, RetireAsked, ReadsRetired, Release, Create, Adopt, RestorePlain, GoOn,
             Refuse, ReadFinishes, DeviceLost, switchVars
    <2> QED BY <2>1 DEF FullInv, StageInv
  <1> QED BY <1>1, FullInvariant, PTL DEF Spec, ContextOutlivesReads

-------------------------------------------------------------------------------
\* The session implements the single presentation owner.

Owners == {Plain} \cup {ProviderChain(g) : g \in 1 .. MaxGeneration}
ownerVars == <<shown, LiveIds, Transition>>

\* The frames in flight change only through begin and the end of a frame.
LEMMA FrameSteps ==
  ASSUME SessionInv, NEW id \in Ids,
         \/ Begin(id) \/ Prepare(id) \/ AfterPresent(id) \/ Abort(id)
         \/ \E index \in Ordinals, dated \in BOOLEAN : Marker(id, index, dated)
  PROVE  /\ ~Transition /\ UNCHANGED <<shown, phase>>
         /\ \/ LiveIds' = LiveIds
            \/ id \notin LiveIds /\ LiveIds' = LiveIds \cup {id}
            \/ id \in LiveIds /\ LiveIds' = LiveIds \ {id}
  <1> USE DEF SessionInv, TypeOK
  <1>1. CASE Begin(id)
    BY <1>1, BeginAdds DEF Begin, switchVars, LedgerBeginUndone, LiveIds, Live
  <1>2. CASE Prepare(id)
    BY <1>2 DEF Prepare, switchVars, LiveIds, Live
  <1>3. CASE AfterPresent(id)
    <2>1. Live(id)
      BY <1>3, IdsArePositive DEF CountIsLedger, AfterPresent, LiveIds
    <2> QED BY <1>3, <2>1, FinishRemoves DEF AfterPresent, switchVars
  <1>4. CASE Abort(id)
    BY <1>4, FinishRemoves DEF Abort, switchVars
  <1>5. ASSUME NEW index \in Ordinals, NEW dated \in BOOLEAN, Marker(id, index, dated)
        PROVE  ~Transition /\ UNCHANGED <<shown, phase>> /\ LiveIds' = LiveIds
    BY <1>5, MarkerKeeps DEF Marker, switchVars
  <1> QED BY <1>1, <1>2, <1>3, <1>4, <1>5

\* What a stage does to the owner: nothing, letting go, taking over from nobody,
\* or the end of the switch.
LEMMA SwitchSteps ==
  ASSUME FullInv, SwitchStep
  PROVE  /\ phase # "idle" /\ LiveIds' = LiveIds
         /\ \/ shown' = shown
            \/ shown' = NoChain /\ phase' # "idle"
            \/ shown = NoChain /\ shown' \in Owners
  <1>1. LiveIds' = LiveIds
    BY StageWriting DEF StageWrites, LiveIds, Live
  <1> USE DEF FullInv, StageInv, SessionInv, Owners, Refuse, GoOn
  <1>2. CASE Quiesced
    BY <1>1, <1>2 DEF Quiesced
  <1>3. CASE Probe
    BY <1>1, <1>3 DEF Probe
  <1>4. CASE RetireAsked
    BY <1>1, <1>4 DEF RetireAsked
  <1>5. CASE ReadsRetired
    BY <1>1, <1>5 DEF ReadsRetired
  <1>6. CASE Release
    BY <1>1, <1>6 DEF Release
  <1>7. CASE Create
    BY <1>1, <1>7 DEF Create
  <1>8. CASE Adopt
    BY <1>1, <1>8 DEF Adopt, TypeOK
  <1>9. CASE RestorePlain
    BY <1>1, <1>9 DEF RestorePlain
  <1> QED BY <1>2, <1>3, <1>4, <1>5, <1>6, <1>7, <1>8, <1>9 DEF SwitchStep

\* A new session is a presentation owner without frames in flight.
LEMMA OwnerInit == Init => Owner!Init
  <1> SUFFICES ASSUME Init PROVE Owner!Init
    OBVIOUS
  <1>1. LiveIds = {}
    BY SlotOfIndex, IdsArePositive DEF Init, LedgerInit, FreeSlot, LiveIds, Live
  <1>2. ~Transition
    BY DEF Init, Transition
  <1> QED BY <1>1, <1>2 DEF Init, Owner!Init

\* A frame's calls begin or end a frame of the owner or change nothing it sees; a select
\* is its switch, and the release comes before the adoption.
LEMMA OwnerStep == FullInv /\ [Next]_vars => [Owner!Next]_ownerVars
  <1> SUFFICES ASSUME FullInv, [Next]_vars
               PROVE  Owner!Next \/ UNCHANGED ownerVars
    BY DEF ownerVars
  <1>1. ASSUME NEW id \in Ids,
               \/ Begin(id) \/ Prepare(id) \/ AfterPresent(id) \/ Abort(id)
               \/ \E index \in Ordinals, dated \in BOOLEAN : Marker(id, index, dated)
        PROVE  Owner!Next \/ UNCHANGED ownerVars
    <2>1. ~Transition /\ Transition' = Transition /\ shown' = shown
      BY <1>1, FrameSteps DEF FullInv, Transition
    <2>2. CASE LiveIds' = LiveIds
      BY <2>1, <2>2 DEF ownerVars
    <2>3. CASE id \notin LiveIds /\ LiveIds' = LiveIds \cup {id}
      <3>1. Owner!BeginFrame(id)
        BY <2>1, <2>3 DEF Owner!BeginFrame
      <3> QED BY <3>1 DEF Owner!Next
    <2>4. CASE id \in LiveIds /\ LiveIds' = LiveIds \ {id}
      <3>1. Owner!EndFrame(id)
        BY <2>1, <2>4 DEF Owner!EndFrame
      <3> QED BY <3>1 DEF Owner!Next
    <2> QED BY <1>1, <2>2, <2>3, <2>4, FrameSteps DEF FullInv
  <1>2. ASSUME NEW target \in {"plain", "provider", "destroy"}, Select(target)
        PROVE  Owner!Next
    <2>1. LiveIds = {} /\ LiveIds' = LiveIds
      BY <1>2, LiveFinite, FS_EmptySet
         DEF FullInv, SessionInv, CountIsLedger, Select, frameVars, LiveIds, Live
    <2>2. ~Transition /\ Transition' /\ shown' = shown
      BY <1>2 DEF Select, Transition
    <2> QED BY <2>1, <2>2 DEF Owner!Next, Owner!StartSwitch, Transition
  <1>3. CASE SwitchStep
    <2>1. /\ Transition /\ LiveIds' = LiveIds
          /\ \/ shown' = shown
             \/ shown' = NoChain /\ Transition'
             \/ shown = NoChain /\ shown' \in Owners
      BY <1>3, SwitchSteps DEF Transition
    <2>2. CASE ~Transition'
      BY <2>1, <2>2 DEF Owner!Next, Owner!EndSwitch, Owners, Transition
    <2>3. CASE Transition' /\ shown' = shown
      BY <2>1, <2>3 DEF ownerVars, Transition
    <2>4. CASE Transition' /\ shown' = NoChain
      BY <2>1, <2>4 DEF Owner!Next, Owner!LetGo, Transition
    <2>5. CASE Transition' /\ shown = NoChain /\ shown' \in Owners
      BY <2>1, <2>5 DEF Owner!Next, Owner!TakeOver, Owners, Transition
    <2> QED BY <2>1, <2>2, <2>3, <2>4, <2>5
  <1>4. CASE ReadFinishes \/ DeviceLost \/ UNCHANGED vars
    BY <1>4 DEF ReadFinishes, DeviceLost, vars, frameVars, switchVars, ownerVars, LiveIds, Live, Transition
  <1> QED BY <1>1, <1>2, <1>3, <1>4 DEF Next

\* fg_session.cpp implements ChainOwner: the presentation has at most one owner,
\* the old one lets go before the new one takes over, and frames never straddle
\* a switch, whichever of its steps fails.
THEOREM SingleOwner == Spec => OwnerSpec
  BY OwnerInit, OwnerStep, FullInvariant, PTL DEF Spec, OwnerSpec, Owner!Spec, Owner!vars, ownerVars

-------------------------------------------------------------------------------
\* The chains on the window and the status.

\* The chains alive are the one shown, but for the one created and not adopted yet.
ChainInv ==
    /\ phase # "adopt" => chains = (IF shown = NoChain THEN {} ELSE {shown})
    /\ phase = "adopt" => chains = {ProviderChain(generation)}
    /\ context # NoContext => shown = context

BeforeRelease == {"idle", "quiesce", "probe", "retire", "readsDone", "release"}

\* The status is true up to the release, and is written anew after it.
StatusInv ==
    /\ phase \in {"idle", "quiesce"} => ~stopped
    /\ plainAvailable => shown = Plain
    /\ phase \in BeforeRelease /\ lastSwitch => shown # NoChain

\* Every step keeps the chains alive to the one shown, or to the one being adopted.
LEMMA ChainStep ==
  ASSUME FullInv, ChainInv, [Next]_vars
  PROVE  ChainInv'
  <1> USE DEF ChainInv
  <1>1. CASE UNCHANGED switchVars
    BY <1>1 DEF switchVars
  <1>2. ASSUME NEW target \in {"plain", "provider", "destroy"}, Select(target)
        PROVE  ChainInv'
    BY <1>2 DEF Select, Transition
  <1>3. CASE SwitchStep
    <2> USE DEF FullInv, StageInv, SessionInv, TypeOK, Refuse, GoOn,
                NoChain, NoContext, Plain, ProviderChain
    <2>1. CASE Quiesced BY <2>1 DEF Quiesced
    <2>2. CASE Probe BY <2>2 DEF Probe
    <2>3. CASE RetireAsked BY <2>3 DEF RetireAsked
    <2>4. CASE ReadsRetired BY <2>4 DEF ReadsRetired
    <2>5. CASE Release BY <2>5 DEF Release
    <2>6. CASE Create BY <2>6 DEF Create
    <2>7. CASE Adopt BY <2>7 DEF Adopt
    <2>8. CASE RestorePlain
      <3>1. chains = {} /\ context = NoContext /\ UNCHANGED context /\ phase' # "adopt"
        BY <2>8 DEF RestorePlain
      <3>2. \/ shown' = Plain /\ chains' = {} \cup {Plain}
            \/ shown' = NoChain /\ chains' = {}
        BY <2>8, <3>1 DEF RestorePlain
      <3> QED BY <3>1, <3>2
    <2> QED BY <1>3, <2>1, <2>2, <2>3, <2>4, <2>5, <2>6, <2>7, <2>8 DEF SwitchStep
  <1> QED BY <1>1, <1>2, <1>3 DEF Next, Begin, Prepare, AfterPresent, Abort, Marker, ReadFinishes,
             DeviceLost, vars

\* A select that refuses leaves what is shown; its callers run and its result is
\* an error.
LEMMA StatusRefuse == ASSUME StatusInv, Refuse PROVE StatusInv'
  BY Zenon DEF StatusInv, Refuse

\* A step of a select that only goes on, before the release, leaves the status as it was.
LEMMA StatusGoOn ==
  ASSUME StatusInv, phase \in BeforeRelease,
         NEW next \in BeforeRelease \ {"idle", "quiesce"}, GoOn(next)
  PROVE  StatusInv'
  <1>1. phase' \notin {"idle", "quiesce"} /\ UNCHANGED <<lastSwitch, plainAvailable, shown>>
    BY DEF GoOn
  <1> QED BY <1>1, Zenon DEF StatusInv

\* Past the release lastSwitch is stale and not read before the select ends.
LEMMA StatusLater ==
  ASSUME StatusInv, phase' \notin BeforeRelease, plainAvailable' => shown' = Plain
  PROVE  StatusInv'
  <1>1. phase' \notin {"idle", "quiesce"}
    BY DEF BeforeRelease
  <1> QED BY <1>1, Zenon DEF StatusInv, BeforeRelease

\* Every way a select ends writes a status that is true of what is shown then.
LEMMA StatusStep ==
  ASSUME FullInv, StatusInv, [Next]_vars
  PROVE  StatusInv'
  <1>0. /\ ProviderChain(generation) # NoChain /\ Plain # NoChain
        /\ phase \in {"create", "adopt", "restore"} => shown = NoChain
    BY DEF FullInv, StageInv, SessionInv, TypeOK, ProviderChain, Plain, NoChain
  <1>1. CASE UNCHANGED switchVars
    BY <1>1, Zenon DEF switchVars, StatusInv
  <1>2. ASSUME NEW target \in {"plain", "provider", "destroy"}, Select(target)
        PROVE  StatusInv'
    <2>1. /\ phase = "idle" /\ phase' = "quiesce"
          /\ UNCHANGED <<stopped, plainAvailable, shown, lastSwitch>>
      BY <1>2 DEF Select, Transition
    <2> QED BY <2>1, Zenon DEF StatusInv, BeforeRelease
  <1>3. CASE Probe \/ RetireAsked \/ ReadsRetired
    <2>1. phase \in BeforeRelease
      BY <1>3 DEF Probe, RetireAsked, ReadsRetired, BeforeRelease
    <2>2. Refuse \/ \E next \in BeforeRelease \ {"idle", "quiesce"} : GoOn(next)
      BY <1>3 DEF Probe, RetireAsked, ReadsRetired, BeforeRelease
    <2> QED BY <2>1, <2>2, StatusRefuse, StatusGoOn
  <1>4. CASE Quiesced
    <2>1. phase = "quiesce" /\ UNCHANGED <<plainAvailable, shown>>
      BY <1>4 DEF Quiesced
    <2>2. CASE phase' = "idle" /\ lastSwitch' = FALSE /\ UNCHANGED stopped
      BY <2>1, <2>2, Zenon DEF StatusInv
    <2>3. CASE phase' \in {"probe", "retire"} /\ UNCHANGED lastSwitch
      <3>1. phase' \notin {"idle", "quiesce"} /\ phase \in BeforeRelease
        BY <2>1, <2>3 DEF BeforeRelease
      <3> QED BY <2>1, <2>3, <3>1, Zenon DEF StatusInv
    <2>4. \/ phase' = "idle" /\ lastSwitch' = FALSE /\ UNCHANGED stopped
          \/ phase' \in {"probe", "retire"} /\ UNCHANGED lastSwitch
      BY <1>4, Zenon DEF Quiesced
    <2> QED BY <2>2, <2>3, <2>4
  <1>5. CASE Release
    <2>1. CASE Refuse
      BY <2>1, StatusRefuse
    <2>2. CASE ~plainAvailable' /\ phase' \in {"create", "restore"}
      BY <2>2, StatusLater DEF BeforeRelease
    <2> QED BY <1>5, <2>1, <2>2, Zenon DEF Release
  <1>6. CASE Create
    <2>1. phase' \in {"adopt", "restore"} /\ UNCHANGED <<plainAvailable, shown>>
      BY <1>6 DEF Create
    <2>2. plainAvailable' => shown' = Plain
      BY <2>1, Zenon DEF StatusInv
    <2> QED BY <2>1, <2>2, StatusLater DEF BeforeRelease
  <1>7. CASE Adopt
    <2>1. ~plainAvailable /\ ~plainAvailable'
      BY <1>0, <1>7, Zenon DEF Adopt, StatusInv
    <2>2. CASE phase' = "restore"
      BY <2>1, <2>2, StatusLater DEF BeforeRelease
    <2>3. CASE shown' = ProviderChain(generation) /\ stopped' = FALSE
      BY <1>0, <2>1, <2>3, Zenon DEF StatusInv
    <2> QED BY <1>7, <2>2, <2>3 DEF Adopt
  <1>8. CASE RestorePlain
    <2>1. PICK ok \in BOOLEAN :
              /\ plainAvailable' = ok
              /\ shown' = IF ok THEN Plain ELSE NoChain
              /\ lastSwitch' = (ok /\ wanted # "provider")
      BY <1>8 DEF RestorePlain
    <2>2. stopped' = FALSE
      BY <1>8 DEF RestorePlain
    <2> QED BY <1>0, <2>1, <2>2, Zenon DEF StatusInv
  <1>9. SwitchStep => Probe \/ RetireAsked \/ ReadsRetired \/ Quiesced \/ Release
                      \/ Create \/ Adopt \/ RestorePlain
    BY DEF SwitchStep
  <1>10. \/ UNCHANGED switchVars \/ SwitchStep
         \/ \E target \in {"plain", "provider", "destroy"} : Select(target)
    BY DEF Next, Begin, Prepare, AfterPresent, Abort, Marker, ReadFinishes, DeviceLost, vars
  <1> QED BY <1>1, <1>2, <1>3, <1>4, <1>5, <1>6, <1>7, <1>8, <1>9, <1>10

\* At first the application's own chain is alive and shown.
LEMMA ChainInit == Init => ChainInv /\ StatusInv
  BY DEF Init, ChainInv, StatusInv, NoChain, NoContext, Plain

\* Chains and status are as stated in every reachable state of the session.
LEMMA ChainInvariant == Spec => [](ChainInv /\ StatusInv)
  BY ChainInit, ChainStep, StatusStep, FullInvariant, PTL DEF Spec

\* One physical chain on the window at any time, also between the release of the
\* old owner and the adoption of the new one.
THEOREM OneChainAtATime == Spec => []OnePhysicalChain
  <1>1. FullInv /\ ChainInv => OnePhysicalChain
    BY DEF FullInv, StageInv, ChainInv, OnePhysicalChain
  <1> QED BY <1>1, FullInvariant, ChainInvariant, PTL

\* Between selects the callers run and the status is that of the chain shown.
THEOREM StatusIsTold == Spec => []StatusIsTrue
  <1>1. ChainInv /\ StatusInv => StatusIsTrue
    BY DEF ChainInv, StatusInv, StatusIsTrue, BeforeRelease
  <1> QED BY <1>1, ChainInvariant, PTL
===============================================================================
