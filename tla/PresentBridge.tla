----------------------------- MODULE PresentBridge -----------------------------
(***************************************************************************)
(* runtime/presentation/src/d3d11_present_bridge.cpp, with runtime         *)
(* switching and a Streamline host: the proxy swap chain, the one          *)
(* generation provider behind it, and the latency calls other threads make *)
(* into that provider.                                                     *)
(*                                                                         *)
(* The application's presenting thread is the walk of `pc`: creation of    *)
(* the physical chain on first use, Present, the switch at the boundary    *)
(* after it, and the destructor.  Callers hold provider_guard shared from  *)
(* Enter to Leave; the switch holds it exclusively.  An overlay asks for   *)
(* another backend without any lock.  Every shared variable is an atomic   *)
(* of its own, so each load and store is a step.                           *)
(*                                                                         *)
(* External and free to fail: the SDKs, DXGI, the GPU.                     *)
(***************************************************************************)
EXTENDS Naturals

CONSTANTS HostBackends,  \* paced through the Streamline host: DLSS-G
          OwnBackends,   \* pace themselves: FSR, XeSS
          Off,           \* backend 0: the plain chain
          None,          \* UINT32_MAX in requested_backend
          Callers,       \* threads that make latency calls
          MaxGeneration, \* bound: requests stop at this chain_generation
          MaxCreated     \* bound: no new bridge after this many sessions

ASSUME BackendsAssumption == /\ Off \notin HostBackends \cup OwnBackends
                             /\ HostBackends \cap OwnBackends = {}
                             /\ None \notin HostBackends \cup OwnBackends \cup {Off}
ASSUME BoundsAssumption == MaxGeneration \in Nat /\ MaxCreated \in Nat

Backends == HostBackends \cup OwnBackends \cup {Off}

\* A provider session, told apart from every other one by its number.
Session == [backend : Backends, n : Nat]
NoSession == [backend |-> Off, n |-> 0]     \* nullptr

VARIABLES
    bridge,          \* active_chain: whether a bridge exists
    pc,              \* where the presenting thread is
    pending,         \* physical_pending
    chain,           \* physical: the backend it was created for, or None
    provider,        \* provider
    faulted,         \* faulted
    wanted, outcome, \* backend and result (= OK) of the switch under way
    activeBackend, activeSession, hostPaced, chainGeneration,   \* the globals
    requested, switchOk,  \* requested_backend; switch_result = 0
    asking,          \* the overlay between its two stores: the backend, or None
    accepted,        \* the last backend a request of this bridge stored
    call,            \* the latency call each caller is in
    frame,           \* the frame each caller has begun: its generation and session
    created, live,   \* sessions made so far; those not destroyed
    gpuBusy,         \* queued work or reads of the physical chain or the session
    stale            \* completion_event is registered, or set, for a wait that was given up

bridgeVars == <<bridge, pending, chain, provider, faulted, created, live>>
switchVars == <<wanted, outcome, activeBackend, activeSession, hostPaced, chainGeneration>>
requestVars == <<requested, switchOk, asking, accepted>>
callVars == <<call, frame>>
gpuVars == <<gpuBusy, stale>>
vars == <<pc, bridgeVars, switchVars, requestVars, callVars, gpuVars>>

NoCall == [at |-> "out", kind |-> "begin", api |-> None, session |-> NoSession, read |-> FALSE]
NoFrame == [generation |-> 0, session |-> NoSession]

\* The switch holds provider_guard exclusively; callers hold it shared.
Exclusive == pc \in {"drain", "probe", "drop", "load", "replace", "fallback", "lastResort", "conclude"}
Inside(c) == call[c].at # "out"

\* paced_by_host(): the session exists and reports RSF_PACING_REFLEX
PacedByHost == provider.backend \in HostBackends

\* What create_physical leaves when it succeeds: a chain and, but for the plain
\* one, a new session.
Created(b) ==
    /\ chain' = b
    /\ IF b = Off
       THEN provider' = NoSession /\ UNCHANGED <<created, live>>
       ELSE /\ created' = created + 1
            /\ provider' = [backend |-> b, n |-> created']
            /\ live' = live \cup {provider'}

-------------------------------------------------------------------------------
\* Mutated forms of the definitions below; no specification uses them.
LockOverCallers == /\ pc = "lock" /\ pc' = "drain"
                   /\ UNCHANGED <<bridgeVars, switchVars, requestVars, callVars, gpuVars>>

BoundaryKeepsRequest ==
    /\ pc = "boundary"
    /\ wanted' = requested
    /\ pc' = IF requested \in {None, activeBackend} THEN "idle" ELSE "lock"
    /\ UNCHANGED <<bridgeVars, outcome, activeBackend, activeSession, hostPaced,
                   chainGeneration, requestVars, callVars, gpuVars>>

TeardownUndrained ==
    /\ pc = "retire" /\ pc' = "idle"
    /\ chain' = None /\ provider' = NoSession
    /\ live' = live \ {provider}
    /\ UNCHANGED <<bridge, pending, faulted, created, switchVars, requestVars, callVars, gpuVars>>

DropKeepsProvider ==
    /\ pc = "drop" /\ pc' = "load"
    /\ chain' = None
    /\ activeSession' = NoSession /\ hostPaced' = FALSE
    /\ live' = live \ {provider} /\ UNCHANGED provider
    /\ UNCHANGED <<bridge, pending, faulted, created, wanted, outcome, activeBackend,
                   chainGeneration, requestVars, callVars, gpuVars>>

-------------------------------------------------------------------------------
\* create_bridge, one at a time (active_chain, creation_guard).  AUTO chooses the
\* backend anew; the session of the last bridge and its pacing are gone already.
CreateBridge ==
    /\ ~bridge /\ pc = "idle" /\ created < MaxCreated
    /\ bridge' = TRUE /\ pending' = TRUE /\ faulted' = FALSE
    /\ activeBackend' \in Backends
    /\ activeSession' = NoSession /\ hostPaced' = FALSE
    /\ accepted' = None /\ stale' = FALSE
    /\ UNCHANGED <<pc, chain, provider, created, live, wanted, outcome, chainGeneration,
                   requested, switchOk, asking, callVars, gpuBusy>>

\* ensure_physical, from Present, GetBuffer, ResizeBuffers ...: only the first
\* call creates.  Loading the Streamline feature off may fail.
Ensure ==
    /\ bridge /\ pc = "idle" /\ ~faulted /\ pending
    /\ pending' = FALSE
    /\ \/ pc' = "ensureCreate"
       \/ activeBackend \notin HostBackends /\ pc' = pc
    /\ UNCHANGED <<bridge, chain, provider, faulted, created, live, switchVars, requestVars,
                   callVars, gpuVars>>

EnsureCreate ==
    /\ pc = "ensureCreate"
    /\ \/ /\ Created(activeBackend) /\ pc' = "publish"
          /\ UNCHANGED <<activeBackend, switchOk>>
       \/ /\ switchOk' = FALSE /\ activeBackend' = Off /\ pc' = "ensurePlain"
          /\ UNCHANGED <<chain, provider, created, live>>
    /\ UNCHANGED <<bridge, pending, faulted, wanted, outcome, activeSession, hostPaced,
                   chainGeneration, requested, asking, accepted, callVars, gpuVars>>

EnsurePlain ==
    /\ pc = "ensurePlain"
    /\ \/ Created(Off) /\ pc' = "publish" /\ UNCHANGED faulted
       \/ faulted' = TRUE /\ pc' = "idle" /\ UNCHANGED <<chain, provider, created, live>>
    /\ UNCHANGED <<bridge, pending, switchVars, requestVars, callVars, gpuVars>>

\* active_session.store, unless the fullscreen mode cannot be restored
PublishSession ==
    /\ pc = "publish"
    /\ \/ activeSession' = provider /\ pc' = "publishPacing"
       \/ pc' = "idle" /\ UNCHANGED activeSession
    /\ UNCHANGED <<bridgeVars, wanted, outcome, activeBackend, hostPaced, chainGeneration,
                   requestVars, callVars, gpuVars>>

PublishPacing ==
    /\ pc = "publishPacing" /\ pc' = "idle"
    /\ hostPaced' = PacedByHost
    /\ UNCHANGED <<bridgeVars, wanted, outcome, activeBackend, activeSession, chainGeneration,
                   requestVars, callVars, gpuVars>>

-------------------------------------------------------------------------------
\* wait_fence, on the one auto-reset event: the wait runs to its end and may take an older event
\* along; or an older one ends it at once, and its own is left behind in turn; or it fails, given
\* up after ten seconds or refused.
Waited == stale' \in {stale, FALSE}
EndedEarly == stale /\ UNCHANGED stale
WaitFails == stale' \in {stale, TRUE}

\* Present: refused when faulted or without a chain; a failure faults the bridge, also the one to
\* wait for its command slot.
Present ==
    /\ bridge /\ pc = "idle" /\ ~faulted /\ ~pending /\ chain # None
    /\ gpuBusy' = TRUE
    /\ \/ pc' = "boundary" /\ UNCHANGED faulted
       \/ faulted' = TRUE /\ UNCHANGED pc
    /\ Waited \/ (gpuBusy /\ (EndedEarly \/ (WaitFails /\ faulted')))
    /\ UNCHANGED <<bridge, pending, chain, provider, created, live, switchVars, requestVars, callVars>>

\* drain(): both queues, then what the session still reads.
Drained == (~gpuBusy /\ Waited) \/ (gpuBusy /\ EndedEarly)
DrainFails == UNCHANGED stale \/ (gpuBusy /\ WaitFails)

\* ResizeBuffers and SetFullscreenState drain as well, and destroy nothing here.
DrainElsewhere == /\ bridge /\ pc = "idle" /\ ~pending
                  /\ Drained \/ DrainFails
                  /\ UNCHANGED <<pc, bridgeVars, switchVars, requestVars, callVars, gpuBusy>>

\* switch_if_requested, and the early returns of switch_provider
Boundary ==
    /\ pc = "boundary"
    /\ requested' = None
    /\ wanted' = requested
    /\ pc' = IF requested \in {None, activeBackend} THEN "idle" ELSE "lock"
    /\ switchOk' = (switchOk \/ requested = activeBackend)
    /\ UNCHANGED <<bridgeVars, outcome, activeBackend, activeSession, hostPaced, chainGeneration,
                   asking, accepted, callVars, gpuVars>>

LockProvider ==
    /\ pc = "lock" /\ \A c \in Callers : ~Inside(c)
    /\ pc' = "drain"
    /\ UNCHANGED <<bridgeVars, switchVars, requestVars, callVars, gpuVars>>

\* The switch gives up before it has let go of anything.
GiveUp == /\ pc' = "idle" /\ switchOk' = FALSE
          /\ UNCHANGED <<bridgeVars, switchVars, requested, asking, accepted, callVars, gpuBusy>>

GoOn(next) == /\ pc' = next
              /\ UNCHANGED <<bridgeVars, switchVars, requestVars, callVars, gpuBusy>>

Drain == /\ pc = "drain"
         /\ \/ Drained /\ GoOn(IF wanted \in OwnBackends THEN "probe" ELSE "drop")
            \/ DrainFails /\ GiveUp

\* A throwaway session without a window
Probe == pc = "probe" /\ (GoOn("drop") \/ GiveUp) /\ UNCHANGED stale

Drop ==
    /\ pc = "drop" /\ pc' = "load"
    /\ chain' = None
    /\ activeSession' = NoSession /\ hostPaced' = FALSE
    /\ provider' = NoSession /\ live' = live \ {provider}
    /\ UNCHANGED <<bridge, pending, faulted, created, wanted, outcome, activeBackend,
                   chainGeneration, requestVars, callVars, gpuVars>>

\* rsf_streamline_host_generation_load
Load == pc = "load" /\ (GoOn("replace") \/ GoOn("fallback")) /\ UNCHANGED stale

Replace ==
    /\ pc = "replace"
    /\ \/ Created(wanted) /\ outcome' = TRUE /\ pc' = "conclude"
       \/ pc' = "fallback" /\ UNCHANGED <<outcome, chain, provider, created, live>>
    /\ UNCHANGED <<bridge, pending, faulted, wanted, activeBackend, activeSession, hostPaced,
                   chainGeneration, requestVars, callVars, gpuVars>>

\* Back to the previous backend, and when that fails too to the plain chain.
FallBackWith(ok) ==
    /\ pc = "fallback"
    /\ outcome' = ok
    /\ \/ Created(activeBackend) /\ pc' = "conclude"
       \/ pc' = "lastResort" /\ UNCHANGED <<chain, provider, created, live>>
    /\ UNCHANGED <<bridge, pending, faulted, wanted, activeBackend, activeSession, hostPaced,
                   chainGeneration, requestVars, callVars, gpuVars>>

FallBackAsSuccess == FallBackWith(TRUE)     \* mutated form
FallBack == FallBackWith(FALSE)

LastResort ==
    /\ pc = "lastResort" /\ pc' = "conclude"
    /\ \/ Created(Off) /\ UNCHANGED faulted
       \/ faulted' = TRUE /\ UNCHANGED <<chain, provider, created, live>>
    /\ UNCHANGED <<bridge, pending, switchVars, requestVars, callVars, gpuVars>>

ConcludeWith(effective, paced, nextGeneration) ==
    /\ pc = "conclude" /\ pc' = "idle"
    /\ activeBackend' = effective
    /\ activeSession' = provider
    /\ hostPaced' = paced
    /\ chainGeneration' = nextGeneration
    /\ switchOk' = outcome
    /\ UNCHANGED <<bridgeVars, wanted, outcome, requested, asking, accepted, callVars, gpuVars>>

\* `effective`: the backend the chain was made for, Off when there is none
Effective == IF chain = None THEN Off ELSE chain

\* Mutated forms
ConcludeAsWanted == ConcludeWith(wanted, PacedByHost, chainGeneration + 1)
ConcludeWithStaleOwner == ConcludeWith(Effective, activeBackend \in HostBackends, chainGeneration + 1)
ConcludeSameGeneration == ConcludeWith(Effective, PacedByHost, chainGeneration)

Conclude == ConcludeWith(Effective, PacedByHost, chainGeneration + 1)

-------------------------------------------------------------------------------
\* ~Bridge, at the last Release: the globals first, then the drain.
Unpublish ==
    /\ bridge /\ pc = "idle" /\ pc' = "unpace"
    /\ bridge' = FALSE /\ activeSession' = NoSession
    /\ UNCHANGED <<pending, chain, provider, faulted, created, live, wanted, outcome, activeBackend, hostPaced, chainGeneration,
                   requestVars, callVars, gpuVars>>

Unpace ==
    /\ pc = "unpace" /\ pc' = "retire"
    /\ hostPaced' = FALSE
    /\ UNCHANGED <<bridgeVars, wanted, outcome, activeBackend, activeSession, chainGeneration,
                   requestVars, callVars, gpuVars>>

\* A failed drain keeps chain and session for the life of the process.
Teardown ==
    /\ pc = "retire" /\ pc' = "idle"
    /\ chain' = None /\ provider' = NoSession
    /\ \/ Drained /\ live' = live \ {provider}
       \/ DrainFails /\ UNCHANGED live
    /\ UNCHANGED <<bridge, pending, faulted, created, switchVars, requestVars, callVars, gpuBusy>>

-------------------------------------------------------------------------------
\* rsf_d3d11_present_request: two stores, without a lock
RequestReset(b) ==
    /\ bridge /\ asking = None /\ chainGeneration < MaxGeneration
    /\ switchOk' = TRUE /\ asking' = b
    /\ UNCHANGED <<pc, bridgeVars, switchVars, requested, accepted, callVars, gpuVars>>

RequestStore ==
    /\ asking # None
    /\ requested' = asking /\ accepted' = asking /\ asking' = None
    /\ UNCHANGED <<pc, bridgeVars, switchVars, switchOk, callVars, gpuVars>>

\* a backend outside backend_choices
RequestUnsupported ==
    /\ bridge /\ asking = None /\ switchOk' = FALSE
    /\ UNCHANGED <<pc, bridgeVars, switchVars, requested, asking, accepted, callVars, gpuVars>>

-------------------------------------------------------------------------------
\* Latency calls.  with_provider: a caller that meets the exclusive lock is turned
\* away.  "begin" is rsf_d3d11_present_begin, "marker" rsf_d3d11_present_marker.
CallStep(c, update) ==
    /\ call' = [call EXCEPT ![c] = update]
    /\ UNCHANGED <<pc, bridgeVars, switchVars, requestVars, gpuVars>>

Enter(c, kind) ==
    /\ bridge /\ ~Inside(c) /\ ~Exclusive
    /\ CallStep(c, [NoCall EXCEPT !.at = "read", !.kind = kind])
    /\ UNCHANGED frame

\* The arguments of call(): generation_api() and active_session, in either order
ReadApi(c) ==
    /\ call[c].at = "read" /\ call[c].api = None
    /\ CallStep(c, [call[c] EXCEPT !.api = activeBackend,
                                   !.at = IF call[c].read THEN "go" ELSE @])
    /\ UNCHANGED frame

ReadSession(c) ==
    /\ call[c].at = "read" /\ ~call[c].read
    /\ CallStep(c, [call[c] EXCEPT !.session = activeSession, !.read = TRUE,
                                   !.at = IF call[c].api # None THEN "go" ELSE @])
    /\ UNCHANGED frame

\* A marker of another generation is refused; the host may refuse it as well.
HostMarker(c) ==
    /\ call[c].at = "go" /\ call[c].kind = "marker"
    /\ \/ frame[c].generation = chainGeneration /\ CallStep(c, [call[c] EXCEPT !.at = "pace"])
       \/ CallStep(c, NoCall)
    /\ UNCHANGED frame

\* begin takes the generation, then looks who paces
BeginFrame(c) ==
    /\ call[c].at = "go" /\ call[c].kind = "begin"
    /\ CallStep(c, [call[c] EXCEPT !.at = "pace"])
    /\ frame' = [frame EXCEPT ![c] = [generation |-> chainGeneration, session |-> call[c].session]]

\* host_paced.load(): the host has it, there is no provider, or the provider gets it
Pace(c) ==
    /\ call[c].at = "pace"
    /\ CallStep(c, IF hostPaced \/ call[c].api = Off \/ call[c].session = NoSession
                   THEN NoCall ELSE [call[c] EXCEPT !.at = "provider"])
    /\ UNCHANGED frame

\* The call into the provider returns, and the shared lock with it.
Leave(c) == /\ call[c].at = "provider"
            /\ CallStep(c, NoCall)
            /\ UNCHANGED frame

GpuFinishes == /\ gpuBusy /\ gpuBusy' = FALSE
               /\ UNCHANGED <<pc, bridgeVars, switchVars, requestVars, callVars, stale>>

-------------------------------------------------------------------------------
\* A bridge that has presented through b.
Presenting(b) ==
    /\ bridge = TRUE /\ pending = FALSE /\ chain = b
    /\ provider = IF b = Off THEN NoSession ELSE [backend |-> b, n |-> 1]
    /\ live = {provider} \ {NoSession} /\ created = 1
    /\ activeSession = provider /\ hostPaced = PacedByHost

\* The process before the game creates its swap chain.
NoBridge == /\ bridge = FALSE /\ pending = FALSE /\ chain = None
            /\ provider = NoSession /\ live = {} /\ created = 0
            /\ activeSession = NoSession /\ hostPaced = FALSE

Common == /\ pc = "idle" /\ faulted = FALSE
          /\ wanted = Off /\ outcome = TRUE
          /\ activeBackend \in Backends
          /\ chainGeneration = 1
          /\ requested = None /\ switchOk = TRUE /\ asking = None /\ accepted = None
          /\ call = [c \in Callers |-> NoCall] /\ frame = [c \in Callers |-> NoFrame]
          /\ gpuBusy = FALSE /\ stale = FALSE

Init == Common /\ NoBridge
SteadyInit == Common /\ Presenting(activeBackend)

CallNext(c) == \/ \E kind \in {"begin", "marker"} : Enter(c, kind)
               \/ ReadApi(c) \/ ReadSession(c) \/ HostMarker(c) \/ BeginFrame(c)
               \/ Pace(c) \/ Leave(c)

SwitchNext == \/ Drain \/ Probe \/ Drop \/ Load \/ Replace \/ FallBack \/ LastResort \/ Conclude

SteadyNext == \/ Present \/ Boundary \/ LockProvider \/ SwitchNext
              \/ \E b \in Backends : RequestReset(b)
              \/ RequestStore \/ RequestUnsupported
              \/ \E c \in Callers : CallNext(c)
              \/ GpuFinishes

LifeNext == \/ CreateBridge \/ Ensure \/ EnsureCreate \/ EnsurePlain \/ DrainElsewhere
            \/ PublishSession \/ PublishPacing
            \/ Unpublish \/ Unpace \/ Teardown

Next == SteadyNext \/ LifeNext

Spec == Init /\ [][Next]_vars

\* The game presents as long as Present is accepted, every thread runs, the GPU
\* finishes, and the waiting switch is not overtaken by callers for ever.
SteadySpec == /\ SteadyInit /\ [][SteadyNext]_vars
              /\ WF_vars(Present) /\ WF_vars(Boundary) /\ WF_vars(SwitchNext)
              /\ SF_vars(LockProvider)
              /\ \A c \in Callers : WF_vars(Inside(c) /\ CallNext(c))
              /\ WF_vars(GpuFinishes)
-------------------------------------------------------------------------------
PresentingAt == {"idle", "ensureCreate", "ensurePlain", "publish", "publishPacing", "boundary",
                 "lock", "drain", "probe", "drop", "load", "replace", "fallback", "lastResort",
                 "conclude", "unpace", "retire"}
Call == [at : {"out", "read", "go", "pace", "provider"}, kind : {"begin", "marker"},
         api : Backends \cup {None}, session : Session, read : BOOLEAN]

TypeOK ==
    /\ bridge \in BOOLEAN /\ pending \in BOOLEAN /\ faulted \in BOOLEAN
    /\ pc \in PresentingAt
    /\ chain \in Backends \cup {None} /\ provider \in Session
    /\ wanted \in Backends \cup {None} /\ outcome \in BOOLEAN
    /\ activeBackend \in Backends /\ activeSession \in Session
    /\ hostPaced \in BOOLEAN /\ chainGeneration \in Nat
    /\ requested \in Backends \cup {None} /\ switchOk \in BOOLEAN
    /\ asking \in Backends \cup {None} /\ accepted \in Backends \cup {None}
    /\ call \in [Callers -> Call]
    /\ frame \in [Callers -> [generation : Nat, session : Session]]
    /\ created \in Nat /\ live \subseteq Session
    /\ gpuBusy \in BOOLEAN /\ stale \in BOOLEAN

\* The chain and the session behind it were made together and go together: the
\* application never presents a chain whose provider is destroyed, whichever of
\* the creations in ensure_physical, switch_provider and ~Bridge fails.
ChainHasItsSession ==
    /\ provider.backend = (IF chain = None THEN Off ELSE chain)
    /\ provider # NoSession => provider \in live
    /\ activeSession \in {NoSession, provider}

\* The invariant of a bridge's whole life, from creation to the destructor.
BridgeInv == TypeOK /\ ChainHasItsSession

\* "A requested provider change happens here, at a drained Present boundary", and
\* a failed drain retains: no session is destroyed while the GPU may use it, as
\* long as no wait that was given up has left its event behind.
DestroyedAfterDrain == [][live \subseteq live' \/ ~gpuBusy \/ stale]_vars

\* switch_result tells the overlay the truth: when no request is pending and it
\* reads OK, the backend in effect is the one last asked of this bridge.
ResultIsTruth ==
    (bridge /\ pc = "idle" /\ asking = None /\ requested = None /\ switchOk /\ accepted # None)
        => activeBackend = accepted

\* Between frames, what the globals tell other threads is what there is: chain,
\* session, backend and pacing agree after every way a switch can end.
Published ==
    pc = "idle" =>
        /\ activeSession = provider /\ live = {provider} \ {NoSession}
        /\ hostPaced = (provider.backend \in HostBackends)
        /\ activeBackend = provider.backend
        /\ chain = None => faulted

\* "latency calls go to the host once rather than to both": no call is passed on
\* to a session that paces through the host.
LatencyOnce == \A c \in Callers : call[c].at = "provider" => call[c].session.backend \notin HostBackends

\* "Main-thread latency calls share the provider lifetime": the session a call is
\* in exists until the call returns, and it is a session of the API called.
CallsShareLifetime ==
    \A c \in Callers : call[c].at = "provider" => /\ call[c].session \in live
                                                  /\ call[c].session.backend = call[c].api

\* A frame ends where it began: a marker that carries the generation its frame
\* was begun in reaches no other session than the one of that frame.
MarkersKeepTheirSession ==
    \A c \in Callers : call[c].at = "provider" => call[c].session = frame[c].session

\* A request is taken up, and the switch it starts ends: the exclusive lock is
\* obtained in spite of the callers and every failure path gives it back.
RequestServed == []<>(requested = None \/ faulted) /\ []<>(pc = "idle")
===============================================================================
