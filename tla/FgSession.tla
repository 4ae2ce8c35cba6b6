------------------------------- MODULE FgSession -------------------------------
(***************************************************************************)
(* runtime/orchestrator/src/fg_session.cpp: one frame-generation session,  *)
(* its frame ledger (FrameSequencer), the active provider, and the switch  *)
(* between providers.                                                      *)
(*                                                                         *)
(* Calls hold session->guard, except that select drops it for the host's   *)
(* quiesce: `transition` refuses every other call meanwhile.  A select is  *)
(* the walk of `phase` below, so that the GPU and the device move between  *)
(* its steps; phase # "idle" is session->transition.                       *)
(*                                                                         *)
(* A refused call changes nothing but last_frame and is not a step.  The   *)
(* host and the provider are external: each of their calls may fail.       *)
(***************************************************************************)
EXTENDS FrameSequencer, FiniteSets

CONSTANTS MaxGeneration,  \* bound: selects stop at this chain_generation
          MaxReads        \* bound: retirement values the provider hands out

ASSUME BoundsAssumption == MaxGeneration \in Nat /\ MaxReads \in Nat

\* A chain is a number: none, the application's own, or that of the provider
\* context created in a generation (detach counts generations from 1).
NoChain == 0
Plain == 1
ProviderChain(g) == g + 1
NoContext == NoChain

Phases == {"idle", "quiesce", "probe", "retire", "readsDone", "release",
           "create", "adopt", "restore", "deleted"}

VARIABLES prepared,     \* self->prepared: the frame whose inputs are tagged, or 0
          inFlight,     \* self->in_flight
          phase,        \* where select is; "idle" between selects
          wanted,       \* what select was asked for
          context,      \* self->context, named by its chain; NoContext = no provider
          generation,   \* state.chain_generation
          lastSwitch,   \* state.last_switch = RSF_BACKEND_OK
          plainAvailable, \* state.plain_available
          shown,        \* the chain the host presents through
          chains,       \* swap chains alive on the window
          stopped,      \* host callers stopped by quiesce
          readsIssued, readsDone,  \* the provider's retirement fence
          removed,      \* device lost: the fence reports UINT64_MAX
          tokens        \* frames the context has begun and not ended

frameVars == <<ledger, lastBegin, prepared, inFlight, tokens>>
switchVars == <<phase, wanted, context, generation, lastSwitch, plainAvailable,
                shown, chains, stopped>>
gpuVars == <<readsIssued, readsDone, removed>>
vars == <<frameVars, switchVars, gpuVars>>

LiveIds == {id \in Ids : Live(id)}
Transition == phase # "idle"

Init == /\ LedgerInit
        /\ prepared = 0 /\ inFlight = 0
        /\ phase = "idle" /\ wanted = "plain"
        /\ context = NoContext /\ generation = 0
        /\ lastSwitch = TRUE /\ plainAvailable = FALSE
        /\ shown = Plain /\ chains = {Plain} /\ stopped = FALSE
        /\ readsIssued = 0 /\ readsDone = 0 /\ removed = FALSE
        /\ tokens = {}

-------------------------------------------------------------------------------
\* Mutated forms of the definitions below; no specification uses them.
BeginDuringSwitch(id) ==
    /\ LedgerBegin(id)
    /\ inFlight' = inFlight + 1
    /\ tokens' = IF context = NoContext THEN tokens ELSE tokens \cup {id}
    /\ UNCHANGED <<prepared, switchVars, gpuVars>>

SelectOverFrames(target) ==
    /\ ~Transition /\ generation < MaxGeneration
    /\ phase' = "quiesce" /\ wanted' = target
    /\ UNCHANGED <<frameVars, context, generation, lastSwitch, plainAvailable, shown, chains,
                   stopped, gpuVars>>

RefuseWithoutResume ==
    /\ phase' = "idle" /\ lastSwitch' = FALSE
    /\ UNCHANGED <<frameVars, wanted, context, generation, plainAvailable, shown, chains,
                   stopped, gpuVars>>

ReadsAssumedRetired ==
    /\ phase = "readsDone" /\ phase' = "release"
    /\ UNCHANGED <<frameVars, wanted, context, generation, lastSwitch, plainAvailable, shown,
                   chains, stopped, gpuVars>>

AdoptKeepsFailedContext ==
    /\ phase = "adopt" /\ phase' = "restore"
    /\ UNCHANGED <<frameVars, wanted, context, generation, lastSwitch, plainAvailable, shown,
                   chains, stopped, gpuVars>>

-------------------------------------------------------------------------------
\* Frames.  Each call returns NOT_READY during a transition.

\* rsf_fg_session_begin: the provider may refuse the frame, which spends its id.
Begin(id) ==
    /\ ~Transition
    /\ \/ /\ LedgerBegin(id)
          /\ inFlight' = inFlight + 1
          /\ tokens' = IF context = NoContext THEN tokens ELSE tokens \cup {id}
       \/ /\ context # NoContext
          /\ LedgerBeginUndone(id)
          /\ UNCHANGED <<inFlight, tokens>>
    /\ UNCHANGED <<prepared, switchVars, gpuVars>>

\* rsf_fg_session_marker, from any thread; the provider's answer changes nothing here.
Marker(id, index, dated) ==
    /\ ~Transition
    /\ LedgerMarker(id, index, dated)
    /\ UNCHANGED <<prepared, inFlight, tokens, switchVars, gpuVars>>

\* An SDK call that reads inputs may extend what the retirement fence covers.
MayRead == readsIssued' \in IF context # NoContext /\ readsIssued < MaxReads
                            THEN {readsIssued, readsIssued + 1} ELSE {readsIssued}

\* rsf_fg_session_prepare: input sample to render submit start (or its end) are
\* marked, and no other frame is prepared.
Prepare(id) ==
    /\ ~Transition
    /\ Live(id) /\ Marks(id) \in {4, 5}
    /\ prepared = 0
    /\ prepared' = id
    /\ MayRead
    /\ UNCHANGED <<ledger, lastBegin, inFlight, tokens, switchVars, readsDone, removed>>

\* rsf_fg_session_after_present
AfterPresent(id) ==
    /\ ~Transition
    /\ prepared = id
    /\ LedgerFinish(id)
    /\ tokens' = tokens \ {id}
    /\ prepared' = 0
    /\ inFlight' = inFlight - 1
    /\ MayRead
    /\ UNCHANGED <<switchVars, readsDone, removed>>

\* rsf_fg_session_abort, when the provider drops the frame too
Abort(id) ==
    /\ ~Transition
    /\ Live(id)
    /\ LedgerFinish(id)
    /\ tokens' = tokens \ {id}
    /\ prepared' = IF prepared = id THEN 0 ELSE prepared
    /\ inFlight' = inFlight - 1
    /\ UNCHANGED <<switchVars, gpuVars>>

-------------------------------------------------------------------------------
\* rsf_fg_session_select(target); destroy is select of plain, then the delete.
Select(target) ==
    /\ ~Transition /\ inFlight = 0
    /\ generation < MaxGeneration
    /\ phase' = "quiesce" /\ wanted' = target
    /\ UNCHANGED <<frameVars, context, generation, lastSwitch, plainAvailable, shown, chains,
                   stopped, gpuVars>>

\* host.quiesce, with the session unlocked
Quiesced ==
    /\ phase = "quiesce"
    /\ \/ /\ stopped' = TRUE
          /\ phase' = IF wanted = "provider" THEN "probe" ELSE "retire"
          /\ UNCHANGED lastSwitch
       \/ phase' = "idle" /\ lastSwitch' = FALSE /\ UNCHANGED stopped
    /\ UNCHANGED <<frameVars, wanted, context, generation, plainAvailable, shown, chains, gpuVars>>

\* The early returns: resume, keep what is presented now.
Refuse == /\ phase' = "idle" /\ lastSwitch' = FALSE /\ stopped' = FALSE
          /\ UNCHANGED <<frameVars, wanted, context, generation, plainAvailable, shown, chains, gpuVars>>

GoOn(next) == /\ phase' = next
              /\ UNCHANGED <<frameVars, wanted, context, generation, lastSwitch, plainAvailable,
                             shown, chains, stopped, gpuVars>>

\* A throwaway provider without a window answers what it supports.
Probe == phase = "probe" /\ (GoOn("retire") \/ Refuse)

\* retire(), up to the first GetCompletedValue
RetireAsked ==
    /\ phase = "retire"
    /\ \/ context = NoContext /\ GoOn("release")
       \/ context # NoContext /\ Refuse     \* provider->retirement fails, or device lost
       \/ context # NoContext /\ readsIssued = 0 /\ GoOn("release")   \* null fence
       \/ context # NoContext /\ ~removed /\ GoOn("readsDone")

\* retire(), the second GetCompletedValue; UINT64_MAX is past every value
ReadsRetired ==
    /\ phase = "readsDone"
    /\ IF removed \/ readsDone >= readsIssued THEN GoOn("release") ELSE Refuse

\* The rest of detach: host.release, then provider->destroy takes its chain along.
Release ==
    /\ phase = "release"
    /\ \/ Refuse
       \/ /\ chains' = {} /\ shown' = NoChain
          /\ context' = NoContext /\ prepared' = 0
          /\ generation' = generation + 1
          /\ plainAvailable' = FALSE
          /\ readsIssued' = 0 /\ readsDone' = 0
          /\ tokens' = {}
          /\ phase' = IF wanted = "provider" THEN "create" ELSE "restore"
          /\ UNCHANGED <<ledger, lastBegin, inFlight, wanted, lastSwitch, stopped, removed>>

\* provider->create with the window, then configure
Create ==
    /\ phase = "create"
    /\ \/ phase' = "adopt" /\ chains' = chains \cup {ProviderChain(generation)}
       \/ phase' = "restore" /\ UNCHANGED chains
    /\ UNCHANGED <<frameVars, wanted, context, generation, lastSwitch, plainAvailable, shown,
                   stopped, gpuVars>>

\* host.adopt, the end of a successful select; a failure destroys the context
Adopt ==
    /\ phase = "adopt"
    /\ \/ /\ context' = ProviderChain(generation) /\ shown' = ProviderChain(generation)
          /\ lastSwitch' = TRUE /\ stopped' = FALSE /\ phase' = "idle"
          /\ UNCHANGED chains
       \/ /\ chains' = chains \ {ProviderChain(generation)} /\ phase' = "restore"
          /\ UNCHANGED <<context, shown, lastSwitch, stopped>>
    /\ UNCHANGED <<frameVars, wanted, generation, plainAvailable, gpuVars>>

\* host.restore_plain, resume, and for destroy the delete
RestorePlain ==
    /\ phase = "restore"
    /\ \E ok \in BOOLEAN :
          /\ plainAvailable' = ok
          /\ shown' = IF ok THEN Plain ELSE NoChain
          /\ chains' = IF ok THEN chains \cup {Plain} ELSE chains
          /\ lastSwitch' = (ok /\ wanted # "provider")
          /\ phase' = IF ok /\ wanted = "destroy" THEN "deleted" ELSE "idle"
    /\ stopped' = FALSE
    /\ UNCHANGED <<frameVars, wanted, context, generation, gpuVars>>

SwitchStep == \/ Quiesced \/ Probe \/ RetireAsked \/ ReadsRetired \/ Release
              \/ Create \/ Adopt \/ RestorePlain

-------------------------------------------------------------------------------
ReadFinishes == /\ readsDone < readsIssued /\ ~removed
                /\ readsDone' = readsDone + 1
                /\ UNCHANGED <<frameVars, switchVars, readsIssued, removed>>

DeviceLost == /\ ~removed /\ removed' = TRUE
              /\ UNCHANGED <<frameVars, switchVars, readsIssued, readsDone>>

Next == \/ \E id \in Ids : \/ Begin(id) \/ Prepare(id) \/ AfterPresent(id) \/ Abort(id)
                           \/ \E index \in Ordinals, dated \in BOOLEAN : Marker(id, index, dated)
        \/ \E target \in {"plain", "provider", "destroy"} : Select(target)
        \/ SwitchStep
        \/ ReadFinishes \/ DeviceLost

Spec == Init /\ [][Next]_vars

-------------------------------------------------------------------------------
FlagsType == /\ lastSwitch \in BOOLEAN /\ plainAvailable \in BOOLEAN
             /\ stopped \in BOOLEAN /\ removed \in BOOLEAN

TypeOK ==
    /\ LedgerType
    /\ prepared \in Nat /\ inFlight \in Nat
    /\ phase \in Phases /\ wanted \in {"plain", "provider", "destroy"}
    /\ context \in Nat /\ generation \in Nat
    /\ shown \in Nat /\ chains \subseteq Nat
    /\ readsIssued \in Nat /\ readsDone \in Nat
    /\ tokens \subseteq Ids
    /\ FlagsType

\* in_flight, by which select decides that nothing is in flight, is the number of
\* frames in the ledger; the prepared frame is one of them.  If the count drifted
\* a select would never run again, or would run over a frame in flight.
CountIsLedger == /\ inFlight = Cardinality(LiveIds)
                 /\ prepared # 0 => prepared \in LiveIds

\* No frame in flight while the presentation owner changes.
QuietSwitch == Transition => LiveIds = {}

\* The provider has open exactly the frames the session has open: no marker,
\* prepare or abort reaches a context that did not begin that frame, and no
\* context is destroyed with a frame the SDK still tracks.
ProviderTracksFrames == tokens = IF context = NoContext THEN {} ELSE LiveIds

\* Ledger, count, transition and provider agree after any calls and failures.
SessionInv == TypeOK /\ CountIsLedger /\ QuietSwitch /\ ProviderTracksFrames

\* One physical chain on the window at any time, even while the old owner leaves
\* and the new one is created; and what the host presents through is that chain.
OnePhysicalChain == /\ \A c, d \in chains : c = d
                    /\ shown # NoChain => shown \in chains
                    /\ context # NoContext => shown = context

\* Between selects the host's callers run again, and the status does not name a
\* chain that is gone.
StatusIsTrue ==
    phase = "idle" => /\ ~stopped
                      /\ plainAvailable => shown = Plain
                      /\ lastSwitch => shown # NoChain
                      /\ shown = NoChain => chains = {}

\* "Keep the context and leases alive when the SDK has not yet finished reading":
\* a context is destroyed only when its reads have retired or the device is lost.
ContextOutlivesReads ==
    [][(context # NoContext /\ context' # context) => (readsDone >= readsIssued \/ removed)]_vars

\* The session implements the single presentation owner: frames never straddle a
\* switch, whichever of its steps fails.
Owner == INSTANCE ChainOwner WITH
    Frames <- Ids, Owners <- {Plain} \cup {ProviderChain(g) : g \in 1 .. MaxGeneration},
    Nobody <- NoChain, owner <- shown, inFlight <- LiveIds, switching <- Transition
\* fg_session implements ChainOwner.
OwnerSpec == Owner!Spec
===============================================================================
