-------------------------- MODULE PresentBridge_proofs --------------------------
(***************************************************************************)
(* Theorems about the D3D11 presentation bridge, for any set of backends,  *)
(* any number of latency callers and any number of switches: the chain and *)
(* its session go together through the bridge's whole life, sessions are   *)
(* destroyed behind a drain, the overlay is told the truth, and while the  *)
(* bridge only presents and switches, latency calls keep to the session    *)
(* that their frame began in.                                              *)
(***************************************************************************)
EXTENDS PresentBridge, TLAPS

Switching == {"lock", "drain", "probe", "drop", "load", "replace", "fallback", "lastResort", "conclude"}

\* Where the presenting thread stands: what a switch wants is a backend, a chain that is still
\* to be created has no published session, and a chain is dropped behind a drain.
PhaseInv ==
    /\ pc \in Switching => wanted \in Backends
    /\ pc \notin {"idle", "unpace", "retire"} => ~pending
    /\ pending \/ pc \in {"ensureCreate", "ensurePlain", "publish", "load", "replace", "fallback", "lastResort",
                          "conclude", "unpace", "retire"} => activeSession = NoSession
    /\ pc \in {"probe", "drop"} => ~gpuBusy \/ stale

WalkInv == BridgeInv /\ PhaseInv

\* No session is a session of the plain chain.
LEMMA NoSessionIs == NoSession \in Session /\ NoSession.backend = Off /\ NoSession.n = 0
  BY DEF NoSession, Session, Backends

\* What a successful creation leaves.
LEMMA Creation ==
  ASSUME TypeOK, NEW b \in Backends, Created(b)
  PROVE  /\ chain' = b /\ provider' \in Session /\ provider'.backend = b /\ created' \in Nat
         /\ live' = live \union ({provider'} \ {NoSession}) /\ live' \subseteq Session
  <1>1. CASE b = Off
    BY <1>1, NoSessionIs DEF Created, TypeOK
  <1>2. CASE b # Off
    <2>1. provider' = [backend |-> b, n |-> created + 1] /\ created' = created + 1 /\ live' = live \union {provider'}
          /\ chain' = b
      BY <1>2 DEF Created
    <2>2. provider' \in Session /\ provider'.backend = b
      BY <2>1 DEF Session, TypeOK
    <2>3. provider' # NoSession
      BY <1>2, <2>2, NoSessionIs
    <2> QED BY <2>1, <2>2, <2>3 DEF TypeOK
  <1> QED BY <1>1, <1>2

\* Creations of ensure_physical and of a switch.
LEMMA WalkCreates ==
  ASSUME WalkInv, EnsureCreate \/ EnsurePlain \/ Replace \/ FallBack \/ LastResort
  PROVE  WalkInv'
  <1> USE DEF WalkInv, BridgeInv, PhaseInv, TypeOK, Switching, bridgeVars, switchVars, requestVars, callVars, gpuVars
  <1>1. pc \in {"ensureCreate", "ensurePlain", "replace", "fallback", "lastResort"} /\ activeSession = NoSession
    BY DEF EnsureCreate, EnsurePlain, Replace, FallBack, FallBackWith, LastResort
  <1>2. activeBackend \in Backends /\ Off \in Backends /\ (pc = "replace" => wanted \in Backends)
    BY DEF Backends
  <1>3. /\ UNCHANGED <<bridge, pending, wanted, activeSession, hostPaced, chainGeneration, requested, asking,
                       accepted, call, frame, gpuBusy, stale>>
        /\ outcome' \in BOOLEAN /\ activeBackend' \in Backends /\ faulted' \in BOOLEAN /\ switchOk' \in BOOLEAN
        /\ pc' \in {"idle", "publish", "ensurePlain", "conclude", "fallback", "lastResort"}
        /\ (pc' \in Switching => pc \in Switching)
    BY DEF EnsureCreate, EnsurePlain, Replace, FallBack, FallBackWith, LastResort, Backends
  <1>4. \/ \E b \in Backends : Created(b)
        \/ UNCHANGED <<chain, provider, created, live>>
    BY <1>2 DEF EnsureCreate, EnsurePlain, Replace, FallBack, FallBackWith, LastResort
  <1>5. CASE \E b \in Backends : Created(b)
    <2>1. PICK b \in Backends : Created(b)
      BY <1>5
    <2>2. /\ chain' = b /\ provider' \in Session /\ provider'.backend = b /\ created' \in Nat
          /\ live' = live \union ({provider'} \ {NoSession}) /\ live' \subseteq Session
      BY <2>1, Creation
    <2>3. chain' # None
      BY <2>2, BackendsAssumption DEF Backends
    <2>4. ChainHasItsSession'
      BY <1>1, <1>3, <2>2, <2>3 DEF ChainHasItsSession
    <2>5. TypeOK'
      BY <1>3, <2>2 DEF PresentingAt
    <2>6. PhaseInv'
      BY <1>1, <1>3
    <2> QED BY <2>4, <2>5, <2>6
  <1>6. CASE UNCHANGED <<chain, provider, created, live>>
    <2>1. ChainHasItsSession'
      BY <1>3, <1>6 DEF ChainHasItsSession
    <2>2. TypeOK'
      BY <1>3, <1>6 DEF PresentingAt
    <2>3. PhaseInv'
      BY <1>1, <1>3
    <2> QED BY <2>1, <2>2, <2>3
  <1> QED BY <1>4, <1>5, <1>6

\* The bridge's other steps around its creation and its end.
LEMMA WalkLife ==
  ASSUME WalkInv,
         \/ CreateBridge \/ Ensure \/ PublishSession \/ PublishPacing
         \/ DrainElsewhere \/ Unpublish \/ Unpace \/ Teardown
  PROVE  WalkInv'
  <1> USE NoSessionIs DEF WalkInv, BridgeInv, PhaseInv, TypeOK, Switching, ChainHasItsSession, PresentingAt,
           bridgeVars, switchVars, requestVars, callVars, gpuVars
  <1>1. CASE CreateBridge
    BY <1>1 DEF CreateBridge
  <1>2. CASE Ensure
    <2>1. TypeOK'
      BY <1>2, ZenonT(40) DEF Ensure
    <2>2. ChainHasItsSession'
      BY <1>2 DEF Ensure
    <2>3. PhaseInv'
      BY <1>2 DEF Ensure
    <2> QED BY <2>1, <2>2, <2>3
  <1>3. CASE PublishSession
    BY <1>3 DEF PublishSession
  <1>4. CASE PublishPacing
    BY <1>4 DEF PublishPacing, PacedByHost
  <1>5. CASE Unpublish
    <2>1. TypeOK'
      BY <1>5, ZenonT(40) DEF Unpublish
    <2>2. ChainHasItsSession'
      BY <1>5 DEF Unpublish
    <2>3. PhaseInv'
      BY <1>5 DEF Unpublish
    <2> QED BY <2>1, <2>2, <2>3
  <1>6. CASE Unpace
    <2>1. TypeOK'
      BY <1>6, ZenonT(40) DEF Unpace
    <2>2. ChainHasItsSession'
      BY <1>6 DEF Unpace
    <2>3. PhaseInv'
      BY <1>6 DEF Unpace
    <2> QED BY <2>1, <2>2, <2>3
  <1>7. ASSUME Teardown \/ DrainElsewhere PROVE stale' \in BOOLEAN
    BY <1>7 DEF Teardown, DrainElsewhere, Drained, DrainFails, Waited, EndedEarly, WaitFails
  <1>8. CASE Teardown
    BY <1>7, <1>8 DEF Teardown
  <1>9. CASE DrainElsewhere
    <2>1. TypeOK'
      BY <1>7, <1>9, ZenonT(40) DEF DrainElsewhere
    <2>2. ChainHasItsSession' /\ PhaseInv'
      BY <1>9 DEF DrainElsewhere
    <2> QED BY <2>1, <2>2
  <1> QED BY <1>1, <1>2, <1>3, <1>4, <1>5, <1>6, <1>8, <1>9

\* Present and the switch's other steps.
LEMMA WalkSwitch ==
  ASSUME WalkInv, Present \/ Boundary \/ LockProvider \/ Drain \/ Probe \/ Drop \/ Load \/ Conclude
  PROVE  WalkInv'
  <1> USE NoSessionIs DEF WalkInv, BridgeInv, PhaseInv, TypeOK, Switching, ChainHasItsSession, PresentingAt,
           bridgeVars, switchVars, requestVars, callVars, gpuVars
  <1>1. CASE Present
    <2>1. stale' \in BOOLEAN
      BY <1>1 DEF Present, Waited, EndedEarly, WaitFails
    <2>2. faulted' \in BOOLEAN /\ pc' \in {"idle", "boundary"} /\ gpuBusy' \in BOOLEAN /\ ~pending
          /\ UNCHANGED <<bridge, pending, chain, provider, created, live, switchVars, requestVars, callVars>>
      BY <1>1 DEF Present
    <2>3. TypeOK'
      BY <2>1, <2>2
    <2>4. ChainHasItsSession'
      BY <2>2
    <2>5. PhaseInv'
      BY <2>2
    <2> QED BY <2>3, <2>4, <2>5
  <1>2. CASE Boundary
    BY <1>2 DEF Boundary
  <1>3. CASE LockProvider
    BY <1>3 DEF LockProvider
  <1>4. CASE Drain
    <2>1. TypeOK'
      BY <1>4 DEF Drain, GoOn, GiveUp, Drained, DrainFails, Waited, EndedEarly, WaitFails
    <2>2. ChainHasItsSession'
      BY <1>4 DEF Drain, GoOn, GiveUp, Drained, DrainFails, Waited, EndedEarly, WaitFails
    <2>3. PhaseInv'
      <3>1. CASE GiveUp
        BY <1>4, <3>1 DEF Drain, GiveUp
      <3>2. CASE Drained /\ GoOn(IF wanted \in OwnBackends THEN "probe" ELSE "drop")
        <4>1. gpuBusy' = gpuBusy /\ (~gpuBusy \/ stale')
          BY <3>2 DEF GoOn, Drained, EndedEarly
        <4>2. pc = "drain" /\ pc' \in {"probe", "drop"} /\ UNCHANGED <<bridgeVars, switchVars>>
          BY <1>4, <3>2 DEF Drain, GoOn
        <4> QED BY <4>1, <4>2
      <3> QED BY <1>4, <3>1, <3>2 DEF Drain
    <2> QED BY <2>1, <2>2, <2>3
  <1>5. CASE Probe
    <2>1. TypeOK'
      BY <1>5 DEF Probe, GoOn, GiveUp
    <2>2. ChainHasItsSession'
      BY <1>5 DEF Probe, GoOn, GiveUp
    <2>3. PhaseInv'
      BY <1>5 DEF Probe, GoOn, GiveUp
    <2> QED BY <2>1, <2>2, <2>3
  <1>6. CASE Drop
    BY <1>6 DEF Drop
  <1>7. CASE Load
    BY <1>7 DEF Load, GoOn
  <1>8. CASE Conclude
    BY <1>8 DEF Conclude, ConcludeWith, PacedByHost, Effective, Backends
  <1> QED BY <1>1, <1>2, <1>3, <1>4, <1>5, <1>6, <1>7, <1>8

\* The other threads.
LEMMA WalkOthers ==
  ASSUME WalkInv,
         \/ \E b \in Backends : RequestReset(b)
         \/ RequestStore \/ RequestUnsupported \/ GpuFinishes
         \/ \E c \in Callers : CallNext(c)
  PROVE  WalkInv'
  <1>1. CASE \/ \E b \in Backends : RequestReset(b)
             \/ RequestStore \/ RequestUnsupported \/ GpuFinishes
    <2>1. /\ UNCHANGED <<pc, bridgeVars, switchVars, callVars, stale>> /\ (gpuBusy' => gpuBusy) /\ gpuBusy' \in BOOLEAN
          /\ requested' \in Backends \union {None} /\ switchOk' \in BOOLEAN
          /\ asking' \in Backends \union {None} /\ accepted' \in Backends \union {None}
      <3> USE DEF WalkInv, BridgeInv, TypeOK, requestVars, gpuVars
      <3>1. CASE \E b \in Backends : RequestReset(b)
        BY <3>1 DEF RequestReset
      <3>2. CASE RequestStore
        BY <3>2 DEF RequestStore
      <3>3. CASE RequestUnsupported
        BY <3>3 DEF RequestUnsupported
      <3>4. CASE GpuFinishes
        BY <3>4 DEF GpuFinishes
      <3> QED BY <1>1, <3>1, <3>2, <3>3, <3>4
    <2>2. TypeOK'
      BY <2>1 DEF WalkInv, BridgeInv, TypeOK, bridgeVars, switchVars, callVars
    <2>3. ChainHasItsSession' /\ PhaseInv'
      BY <2>1 DEF WalkInv, BridgeInv, PhaseInv, ChainHasItsSession, bridgeVars, switchVars
    <2> QED BY <2>2, <2>3 DEF WalkInv, BridgeInv
  <1>2. ASSUME NEW c \in Callers, CallNext(c) PROVE WalkInv'
    <2>1. UNCHANGED <<pc, bridgeVars, switchVars, requestVars, gpuVars>>
      BY <1>2 DEF CallNext, Enter, ReadApi, ReadSession, HostMarker, BeginFrame, Pace, Leave, CallStep
    <2>2. NoCall \in Call
      BY NoSessionIs DEF NoCall, Call
    <2>3. call[c] \in Call /\ activeBackend \in Backends /\ activeSession \in Session /\ chainGeneration \in Nat
      BY DEF WalkInv, BridgeInv, TypeOK
    <2>4. \A u \in Call : CallStep(c, u) => call' \in [Callers -> Call]
      BY DEF CallStep, WalkInv, BridgeInv, TypeOK
    <2>5. call' \in [Callers -> Call]
      <3>1. CASE \E kind \in {"begin", "marker"} : Enter(c, kind)
        <4>1. PICK kind \in {"begin", "marker"} : Enter(c, kind)
          BY <3>1
        <4>2. [NoCall EXCEPT !.at = "read", !.kind = kind] \in Call
          BY <2>2 DEF Call
        <4> QED BY <2>4, <4>1, <4>2 DEF Enter
      <3>2. CASE ReadApi(c)
        <4>1. [call[c] EXCEPT !.api = activeBackend, !.at = IF call[c].read THEN "go" ELSE @] \in Call
          BY <2>3 DEF Call
        <4> QED BY <2>4, <3>2, <4>1 DEF ReadApi
      <3>3. CASE ReadSession(c)
        <4>1. [call[c] EXCEPT !.session = activeSession, !.read = TRUE,
                              !.at = IF call[c].api # None THEN "go" ELSE @] \in Call
          BY <2>3 DEF Call
        <4> QED BY <2>4, <3>3, <4>1 DEF ReadSession
      <3>4. CASE HostMarker(c) \/ BeginFrame(c) \/ Pace(c) \/ Leave(c)
        <4>1. [call[c] EXCEPT !.at = "pace"] \in Call /\ [call[c] EXCEPT !.at = "provider"] \in Call
          BY <2>3 DEF Call
        <4> QED BY <2>2, <2>4, <3>4, <4>1 DEF HostMarker, BeginFrame, Pace, Leave
      <3> QED BY <1>2, <3>1, <3>2, <3>3, <3>4 DEF CallNext
    <2>6. frame' \in [Callers -> [generation : Nat, session : Session]]
      <3>1. CASE BeginFrame(c)
        <4>1. [generation |-> chainGeneration, session |-> call[c].session] \in [generation : Nat, session : Session]
          BY <2>3 DEF Call
        <4> QED BY <3>1, <4>1 DEF BeginFrame, WalkInv, BridgeInv, TypeOK
      <3>2. CASE frame' = frame
        BY <3>2 DEF WalkInv, BridgeInv, TypeOK
      <3> QED BY <1>2, <3>1, <3>2 DEF CallNext, Enter, ReadApi, ReadSession, HostMarker, Pace, Leave
    <2> QED BY <2>1, <2>5, <2>6 DEF WalkInv, BridgeInv, PhaseInv, TypeOK, ChainHasItsSession, bridgeVars, switchVars,
                                   requestVars, gpuVars
  <1> QED BY <1>1, <1>2

\* Every step keeps the walk's invariant.
LEMMA WalkStep == WalkInv /\ [Next]_vars => WalkInv'
  <1>1. WalkInv /\ UNCHANGED vars => WalkInv'
    BY DEF vars, bridgeVars, switchVars, requestVars, callVars, gpuVars, WalkInv, BridgeInv, PhaseInv, TypeOK, ChainHasItsSession
  <1> QED BY <1>1, WalkCreates, WalkLife, WalkSwitch, WalkOthers DEF Next, SteadyNext, LifeNext, SwitchNext

\* It holds before the game creates its swap chain, and in a bridge that has presented.
LEMMA WalkStart == (Init => WalkInv) /\ (SteadyInit => WalkInv)
  <1>1. NoCall \in Call /\ NoFrame \in [generation : Nat, session : Session]
    BY NoSessionIs DEF NoCall, NoFrame, Call
  <1>2. Init => WalkInv
    <2> SUFFICES ASSUME Init PROVE WalkInv
      OBVIOUS
    <2>1. call \in [Callers -> Call] /\ frame \in [Callers -> [generation : Nat, session : Session]]
      BY <1>1, Zenon DEF Init, Common
    <2>2. TypeOK
      BY <2>1, NoSessionIs DEF Init, Common, NoBridge, TypeOK, PresentingAt, Backends
    <2>3. ChainHasItsSession /\ PhaseInv
      BY NoSessionIs DEF Init, Common, NoBridge, ChainHasItsSession, PhaseInv, Switching
    <2> QED BY <2>2, <2>3 DEF WalkInv, BridgeInv
  <1>3. ASSUME SteadyInit PROVE WalkInv
    <2>1. provider \in Session /\ provider.backend = activeBackend /\ activeBackend \in Backends
          /\ chain = activeBackend /\ chain # None /\ live \subseteq Session
          /\ (provider # NoSession => provider \in live)
      BY <1>3, NoSessionIs, BackendsAssumption DEF SteadyInit, Common, Presenting, Session, Backends
    <2>2. TypeOK
      <3>1. call \in [Callers -> Call] /\ frame \in [Callers -> [generation : Nat, session : Session]]
        BY <1>1, <1>3, Zenon DEF SteadyInit, Common
      <3>2. hostPaced \in BOOLEAN
        <4>1. hostPaced = (provider.backend \in HostBackends)
          BY <1>3 DEF SteadyInit, Presenting, PacedByHost
        <4>2. CASE provider.backend \in HostBackends
          BY <4>1, <4>2
        <4>3. CASE provider.backend \notin HostBackends
          BY <4>1, <4>3
        <4> QED BY <4>2, <4>3
      <3> QED BY <1>3, <2>1, <3>1, <3>2, NoSessionIs DEF SteadyInit, Common, Presenting, TypeOK, PresentingAt, Backends
    <2>3. ChainHasItsSession /\ PhaseInv
      BY <1>3, <2>1 DEF SteadyInit, Common, Presenting, ChainHasItsSession, PhaseInv, Switching
    <2> QED BY <2>2, <2>3 DEF WalkInv, BridgeInv
  <1> QED BY <1>2, <1>3

\* The chain and the session behind it were made together and go together, in the bridge's
\* whole life and whichever creation fails.
THEOREM ChainKeepsItsSession == Spec => []BridgeInv
  <1>1. WalkInv => BridgeInv
    BY DEF WalkInv
  <1> QED BY <1>1, WalkStart, WalkStep, PTL DEF Spec

\* "A requested provider change happens here, at a drained Present boundary": unless the event of
\* a wait given up before may have ended the drain, no session is destroyed while the GPU uses it.
THEOREM SessionsAreDrained == Spec => DestroyedAfterDrain
  <1> DEFINE Kept == live \subseteq live' \/ ~gpuBusy \/ stale
  <1>1. WalkInv /\ [Next]_vars => [Kept]_vars
    <2> SUFFICES ASSUME WalkInv, [Next]_vars PROVE Kept
      OBVIOUS
    <2>1. CASE EnsureCreate \/ EnsurePlain \/ Replace \/ FallBack \/ LastResort
      <3>1. (\E b \in Backends \union {wanted, activeBackend} : Created(b)) \/ live' = live
        BY <2>1 DEF EnsureCreate, EnsurePlain, Replace, FallBack, FallBackWith, LastResort, Backends
      <3> QED BY <3>1 DEF Created
    <2>2. CASE \/ CreateBridge \/ Ensure \/ PublishSession \/ PublishPacing
               \/ DrainElsewhere \/ Unpublish \/ Unpace \/ Teardown
      BY <2>2 DEF DrainElsewhere, Drained, EndedEarly, CreateBridge, Ensure, PublishSession, PublishPacing, Unpublish, Unpace, Teardown, bridgeVars
    <2>3. CASE Present \/ Boundary \/ LockProvider \/ Drain \/ Probe \/ Load \/ Conclude
      BY <2>3 DEF Present, Boundary, LockProvider, Drain, Probe, Load, Conclude, ConcludeWith, GoOn, GiveUp, bridgeVars
    <2>4. CASE Drop
      BY <2>4 DEF Drop, WalkInv, PhaseInv
    <2>5. CASE \/ \E b \in Backends : RequestReset(b)
               \/ RequestStore \/ RequestUnsupported \/ GpuFinishes
      BY <2>5 DEF RequestReset, RequestStore, RequestUnsupported, GpuFinishes, bridgeVars
    <2>6. CASE \E c \in Callers : CallNext(c)
      BY <2>6 DEF CallNext, Enter, ReadApi, ReadSession, HostMarker, BeginFrame, Pace, Leave, CallStep, bridgeVars
    <2>7. CASE UNCHANGED vars
      BY <2>7 DEF vars, bridgeVars
    <2> QED BY <2>1, <2>2, <2>3, <2>4, <2>5, <2>6, <2>7 DEF Next, SteadyNext, LifeNext, SwitchNext
  <1> QED BY <1>1, WalkStart, WalkStep, PTL DEF Spec, DestroyedAfterDrain

-------------------------------------------------------------------------------
\* What the overlay is told.

\* The last request of this bridge is the one pending, the one being served, or the one whose
\* result is shown.
ResultInv ==
    /\ accepted # None /\ requested # None => accepted = requested
    /\ pc \in Switching /\ requested = None /\ accepted # None => wanted = accepted
    /\ pc = "conclude" /\ outcome => chain = wanted
    /\ pc = "lastResort" => ~outcome
    /\ (pc \notin Switching /\ asking = None /\ requested = None /\ switchOk /\ accepted # None)
           => activeBackend = accepted

\* Every step keeps it.
LEMMA ResultStep == WalkInv /\ ResultInv /\ [Next]_vars => ResultInv'
  <1> SUFFICES ASSUME WalkInv, ResultInv, [Next]_vars PROVE ResultInv'
    OBVIOUS
  <1> USE DEF ResultInv, Switching, bridgeVars, switchVars, requestVars, callVars, gpuVars
  <1>1. CASE EnsureCreate
    BY <1>1 DEF EnsureCreate
  <1>2. CASE EnsurePlain
    BY <1>2 DEF EnsurePlain
  <1>3. CASE Replace
    <2>1. (pc' = "conclude" => chain' = wanted) /\ pc = "replace" /\ pc' \in {"conclude", "fallback"}
          /\ UNCHANGED <<wanted, requested, asking, accepted>>
      BY <1>3 DEF Replace, Created
    <2> QED BY <2>1
  <1>4. CASE FallBack
    BY <1>4 DEF FallBack, FallBackWith
  <1>5. CASE LastResort
    BY <1>5 DEF LastResort
  <1>6. CASE CreateBridge
    BY <1>6 DEF CreateBridge
  <1>7. CASE Ensure \/ PublishSession \/ PublishPacing \/ DrainElsewhere \/ Unpublish \/ Unpace \/ Teardown
    <2>1. /\ pc \notin Switching /\ pc' \notin Switching
          /\ UNCHANGED <<wanted, requested, asking, accepted, switchOk, activeBackend>>
      BY <1>7 DEF DrainElsewhere, Ensure, PublishSession, PublishPacing, Unpublish, Unpace, Teardown
    <2> QED BY <2>1
  <1>8. CASE Present
    BY <1>8 DEF Present
  <1>9. CASE Boundary
    <2>1. switchOk' => switchOk \/ requested = activeBackend
      BY <1>9, Zenon DEF Boundary
    <2>2. /\ pc = "boundary" /\ requested' = None /\ wanted' = requested
          /\ pc' = IF requested \in {None, activeBackend} THEN "idle" ELSE "lock"
          /\ UNCHANGED <<activeBackend, asking, accepted>>
      BY <1>9 DEF Boundary
    <2>3. activeBackend # None
      BY BackendsAssumption DEF WalkInv, BridgeInv, TypeOK, Backends
    <2> QED BY <2>1, <2>2, <2>3
  <1>10. CASE LockProvider
    BY <1>10 DEF LockProvider
  <1>11. CASE Drain
    BY <1>11 DEF Drain, GoOn, GiveUp, Drained, DrainFails, Waited, EndedEarly, WaitFails
  <1>12. CASE Probe
    BY <1>12 DEF Probe, GoOn, GiveUp
  <1>13. CASE Drop
    BY <1>13 DEF Drop
  <1>14. CASE Load
    BY <1>14 DEF Load, GoOn
  <1>15. CASE Conclude
    <2>1. pc = "conclude" /\ wanted \in Backends /\ None \notin Backends
      BY <1>15, BackendsAssumption DEF Conclude, ConcludeWith, WalkInv, PhaseInv, Backends
    <2> QED BY <1>15, <2>1 DEF Conclude, ConcludeWith, Effective
  <1>16. CASE \E b \in Backends : RequestReset(b)
    <2>1. None \notin Backends
      BY BackendsAssumption DEF Backends
    <2> QED BY <1>16, <2>1 DEF RequestReset
  <1>17. CASE RequestStore
    BY <1>17 DEF RequestStore
  <1>18. CASE RequestUnsupported
    BY <1>18 DEF RequestUnsupported
  <1>19. CASE GpuFinishes \/ (\E c \in Callers : CallNext(c)) \/ UNCHANGED vars
    <2>1. UNCHANGED <<pc, bridgeVars, switchVars, requestVars>>
      BY <1>19 DEF GpuFinishes, CallNext, Enter, ReadApi, ReadSession, HostMarker, BeginFrame, Pace, Leave, CallStep,
                   vars
    <2> QED BY <2>1
  <1> QED BY <1>1, <1>2, <1>3, <1>4, <1>5, <1>6, <1>7, <1>8, <1>9, <1>10, <1>11, <1>12, <1>13, <1>14, <1>15, <1>16,
             <1>17, <1>18, <1>19
      DEF Next, SteadyNext, LifeNext, SwitchNext

\* When no request is pending and switch_result reads OK, the backend in effect is the one last
\* asked of this bridge.
THEOREM ResultIsTold == Spec => []ResultIsTruth
  <1>1. Init => ResultInv
    BY DEF Init, Common, ResultInv, Switching
  <1>2. ResultInv => ResultIsTruth
    BY DEF ResultInv, ResultIsTruth, Switching
  <1> QED BY <1>1, <1>2, WalkStart, WalkStep, ResultStep, PTL DEF Spec

-------------------------------------------------------------------------------
\* A bridge that presents and switches.

Emptied == {"load", "replace", "fallback", "lastResort"}

\* Chain, session, backend and pacing agree, except between the drop of one session and the
\* conclusion of the switch.
SteadyInv ==
    /\ pc \in {"idle", "boundary"} \union Switching
    /\ pc \notin Emptied \union {"conclude"} =>
           /\ activeSession = provider /\ activeBackend = provider.backend
           /\ hostPaced = (provider.backend \in HostBackends)
    /\ pc \notin Emptied => live = {provider} \ {NoSession} /\ (chain = None => faulted)
    /\ pc \in Emptied => live = {} /\ chain = None /\ provider = NoSession

\* A call is inside only while the lock is not the switch's, and what it has read is what is
\* still there; a frame of this generation began in this session.
CallInv ==
    /\ chainGeneration > 0
    /\ \A c \in Callers :
          /\ Inside(c) => ~Exclusive
          /\ Inside(c) /\ call[c].read => call[c].session = activeSession
          /\ Inside(c) /\ call[c].api # None => call[c].api = activeBackend
          /\ call[c].at \in {"go", "pace", "provider"} => call[c].read /\ call[c].api # None
          /\ call[c].at \in {"pace", "provider"} => call[c].session = frame[c].session
          /\ call[c].at = "provider" => ~hostPaced /\ call[c].session # NoSession
          /\ frame[c].generation <= chainGeneration
          /\ frame[c].generation = chainGeneration /\ pc \notin Emptied \union {"conclude"}
                 => frame[c].session = activeSession


\* The steps of the presenting thread.
LEMMA SteadyWalk ==
  ASSUME WalkInv, SteadyInv, CallInv, Present \/ Boundary \/ LockProvider \/ SwitchNext
  PROVE  /\ SteadyInv' /\ UNCHANGED callVars
         /\ (UNCHANGED <<activeBackend, activeSession, hostPaced, chainGeneration>> /\ pc' \notin Emptied \union {"conclude"})
            \/ pc \in Switching \ {"lock"}
         /\ pc' \in Switching \ {"lock"} => (pc \in Switching \ {"lock"} \/ (pc = "lock" /\ \A c \in Callers : ~Inside(c)))
         /\ pc # "conclude" => UNCHANGED <<activeBackend, chainGeneration>> /\ (pc \in Emptied => pc' \in Emptied \union {"conclude"})
         /\ pc = "conclude" => pc' = "idle" /\ chainGeneration' = chainGeneration + 1
         /\ pc' \in Emptied \union {"conclude"} \/ pc = "conclude" \/ activeSession' = activeSession
  <1> USE NoSessionIs DEF SteadyInv, Switching, Emptied, bridgeVars, switchVars, requestVars, callVars, gpuVars
  <1>1. CASE Present
    BY <1>1 DEF Present
  <1>2. CASE Boundary
    BY <1>2 DEF Boundary
  <1>3. CASE LockProvider
    BY <1>3 DEF LockProvider
  <1>4. CASE Drain
    BY <1>4 DEF Drain, GoOn, GiveUp, Drained, DrainFails, Waited, EndedEarly, WaitFails
  <1>5. CASE Probe
    BY <1>5 DEF Probe, GoOn, GiveUp
  <1>6. CASE Drop
    BY <1>6 DEF Drop
  <1>7. CASE Load
    BY <1>7 DEF Load, GoOn
  <1>8. CASE Replace \/ FallBack \/ LastResort
    <2>1. /\ UNCHANGED <<activeBackend, activeSession, hostPaced, chainGeneration, callVars>>
          /\ pc \in {"replace", "fallback", "lastResort"} /\ pc' \in {"fallback", "lastResort", "conclude"}
      BY <1>8 DEF Replace, FallBack, FallBackWith, LastResort
    <2>2. live = {} /\ chain = None /\ provider = NoSession
      BY <2>1
    <2>3. \/ \E b \in Backends : Created(b) /\ pc' = "conclude"
          \/ UNCHANGED <<chain, provider, live>> /\ (pc' = "conclude" => faulted')
      BY <1>8 DEF Replace, FallBack, FallBackWith, LastResort, WalkInv, BridgeInv, PhaseInv, TypeOK, Backends
    <2>4. ASSUME NEW b \in Backends, Created(b)
          PROVE  chain' # None /\ live' = {provider'} \ {NoSession}
      BY <2>2, <2>4, Creation, BackendsAssumption DEF WalkInv, BridgeInv, Backends
    <2> QED BY <2>1, <2>2, <2>3, <2>4
  <1>9. CASE Conclude
    <2>1. /\ pc = "conclude" /\ pc' = "idle" /\ activeBackend' = Effective /\ activeSession' = provider
          /\ hostPaced' = PacedByHost /\ chainGeneration' = chainGeneration + 1
          /\ UNCHANGED <<chain, provider, live, faulted, callVars>>
      BY <1>9 DEF Conclude, ConcludeWith
    <2>2. Effective = provider.backend
      BY DEF Effective, WalkInv, BridgeInv, ChainHasItsSession
    <2>3. hostPaced' = (provider'.backend \in HostBackends)
      BY <2>1 DEF PacedByHost
    <2> QED BY <2>1, <2>2, <2>3
  <1> QED BY <1>1, <1>2, <1>3, <1>4, <1>5, <1>6, <1>7, <1>8, <1>9 DEF SwitchNext


\* The presenting thread's steps leave the callers what they have read.
LEMMA CallsUnderSwitch ==
  ASSUME WalkInv, SteadyInv, CallInv, Present \/ Boundary \/ LockProvider \/ SwitchNext
  PROVE  CallInv'
  <1>1. call' = call /\ frame' = frame
    BY SteadyWalk DEF callVars
  <1>2. CASE pc \in Switching \ {"lock"}
    <2>1. Exclusive
      BY <1>2 DEF Switching, Exclusive
    <2>2. \A c \in Callers : ~Inside(c)
      BY <2>1 DEF CallInv
    <2>3. \A c \in Callers : ~Inside(c)'
      BY <1>1, <2>2 DEF Inside
    <2>4. CASE pc = "conclude"
      <3>1. chainGeneration' = chainGeneration + 1 /\ chainGeneration \in Nat
            /\ \A c \in Callers : frame[c].generation \in Nat
        BY <2>4, SteadyWalk DEF WalkInv, BridgeInv, TypeOK
      <3>2. \A c \in Callers : frame[c].generation <= chainGeneration
        BY DEF CallInv
      <3> QED BY <1>1, <2>2, <2>3, <3>1, <3>2 DEF CallInv, Inside
    <2>5. CASE pc # "conclude"
      <3>1. chainGeneration' = chainGeneration /\ (pc \in Emptied => pc' \in Emptied \union {"conclude"})
            /\ (pc' \in Emptied \union {"conclude"} \/ activeSession' = activeSession)
        BY <2>5, SteadyWalk
      <3> QED BY <1>1, <2>2, <2>3, <2>5, <3>1 DEF CallInv, Inside
    <2> QED BY <2>4, <2>5
  <1>3. CASE pc \notin Switching \ {"lock"}
    <2>1. /\ UNCHANGED <<activeBackend, activeSession, hostPaced, chainGeneration>>
          /\ pc' \notin Emptied \union {"conclude"}
          /\ (pc' \in Switching \ {"lock"} => \A c \in Callers : ~Inside(c))
          /\ pc \notin Emptied \union {"conclude"}
      BY <1>3, SteadyWalk DEF Emptied, Switching
    <2>2. Exclusive' => pc' \in Switching \ {"lock"}
      BY DEF Exclusive, Switching
    <2>3. \A c \in Callers : Inside(c)' => Inside(c)
      BY <1>1 DEF Inside
    <2> QED BY <1>1, <2>1, <2>2, <2>3 DEF CallInv, Inside
  <1> QED BY <1>2, <1>3

\* A caller's own steps.
LEMMA CallsMove ==
  ASSUME WalkInv, SteadyInv, CallInv, NEW c \in Callers, CallNext(c)
  PROVE  CallInv'
  <1>1. UNCHANGED <<pc, bridgeVars, switchVars, requestVars, gpuVars>>
    BY DEF CallNext, Enter, ReadApi, ReadSession, HostMarker, BeginFrame, Pace, Leave, CallStep
  <1>2. /\ UNCHANGED <<activeBackend, activeSession, hostPaced, chainGeneration>>
        /\ Exclusive' = Exclusive
    BY <1>1 DEF switchVars, Exclusive
  <1>3. /\ call \in [Callers -> Call] /\ frame \in [Callers -> [generation : Nat, session : Session]]
        /\ chainGeneration \in Nat /\ activeBackend \in Backends /\ activeSession \in Session /\ activeBackend # None
    BY BackendsAssumption DEF WalkInv, BridgeInv, TypeOK, Backends
  <1> DEFINE Own(u, f) ==
          /\ u.at # "out" => ~Exclusive
          /\ u.at # "out" /\ u.read => u.session = activeSession
          /\ u.at # "out" /\ u.api # None => u.api = activeBackend
          /\ u.at \in {"go", "pace", "provider"} => u.read /\ u.api # None
          /\ u.at \in {"pace", "provider"} => u.session = f.session
          /\ u.at = "provider" => ~hostPaced /\ u.session # NoSession
          /\ f.generation <= chainGeneration
          /\ f.generation = chainGeneration /\ pc \notin Emptied \union {"conclude"} => f.session = activeSession
  <1>4. \A d \in Callers : Own(call[d], frame[d])
    BY DEF CallInv, Inside
  <1>5. ASSUME NEW u \in Call, CallStep(c, u), NEW f, frame' = [frame EXCEPT ![c] = f] \/ (frame' = frame /\ f = frame[c]),
               Own(u, f)
        PROVE  CallInv'
    <2>1. \A d \in Callers : (d # c => call'[d] = call[d] /\ frame'[d] = frame[d])
      BY <1>3, <1>5 DEF CallStep
    <2>2. call'[c] = u /\ frame'[c] = f
      BY <1>3, <1>5 DEF CallStep
    <2>3. \A d \in Callers : Own(call'[d], frame'[d])
      BY <1>4, <1>5, <2>1, <2>2
    <2>4. chainGeneration > 0 /\ pc' = pc
      BY <1>1 DEF CallInv
    <2> HIDE DEF Own
    <2>5. ASSUME NEW d \in Callers
          PROVE  /\ Inside(d)' => ~Exclusive'
                 /\ Inside(d)' /\ call'[d].read => call'[d].session = activeSession'
                 /\ Inside(d)' /\ call'[d].api # None => call'[d].api = activeBackend'
                 /\ call'[d].at \in {"go", "pace", "provider"} => call'[d].read /\ call'[d].api # None
                 /\ call'[d].at \in {"pace", "provider"} => call'[d].session = frame'[d].session
                 /\ call'[d].at = "provider" => ~hostPaced' /\ call'[d].session # NoSession
                 /\ frame'[d].generation <= chainGeneration'
                 /\ frame'[d].generation = chainGeneration' /\ pc' \notin Emptied \union {"conclude"}
                        => frame'[d].session = activeSession'
      BY <1>2, <2>3, <2>4 DEF Own, Inside
    <2> QED BY <1>2, <2>4, <2>5 DEF CallInv
  <1>6. /\ \A u : CallStep(c, u) => u = call'[c]
        /\ call[c] \in Call /\ NoCall \in Call /\ frame[c] \in [generation : Nat, session : Session]
    BY <1>3, NoSessionIs DEF CallStep, NoCall, Call
  <1>7. CASE \E kind \in {"begin", "marker"} : Enter(c, kind)
    <2>1. PICK kind \in {"begin", "marker"} : Enter(c, kind)
      BY <1>7
    <2> DEFINE u == [NoCall EXCEPT !.at = "read", !.kind = kind]
    <2>2. u \in Call /\ u.at = "read" /\ ~u.read /\ u.api = None
      BY <1>6 DEF Call, NoCall
    <2>3. Own(u, frame[c])
      BY <1>4, <2>1, <2>2 DEF Enter
    <2> QED BY <1>5, <2>1, <2>2, <2>3 DEF Enter
  <1>8. CASE ReadApi(c)
    <2> DEFINE u == [call[c] EXCEPT !.api = activeBackend, !.at = IF call[c].read THEN "go" ELSE @]
    <2>1. u \in Call /\ u.at = (IF call[c].read THEN "go" ELSE "read") /\ u.api = activeBackend /\ u.read = call[c].read
          /\ u.session = call[c].session /\ call[c].at = "read"
      BY <1>3, <1>6, <1>8 DEF Call, ReadApi
    <2>2. Own(u, frame[c])
      BY <1>3, <1>4, <2>1
    <2> QED BY <1>5, <1>8, <2>1, <2>2 DEF ReadApi
  <1>9. CASE ReadSession(c)
    <2> DEFINE u == [call[c] EXCEPT !.session = activeSession, !.read = TRUE,
                                    !.at = IF call[c].api # None THEN "go" ELSE @]
    <2>1. u \in Call /\ u.at = (IF call[c].api # None THEN "go" ELSE "read") /\ u.api = call[c].api /\ u.read
          /\ u.session = activeSession /\ call[c].at = "read"
      BY <1>3, <1>6, <1>9 DEF Call, ReadSession
    <2>2. Own(u, frame[c])
      BY <1>3, <1>4, <2>1
    <2> QED BY <1>5, <1>9, <2>1, <2>2 DEF ReadSession
  <1>10. Own(NoCall, frame[c])
    BY <1>4 DEF NoCall
  <1>11. CASE HostMarker(c)
    <2> DEFINE u == [call[c] EXCEPT !.at = "pace"]
    <2>1. u \in Call /\ u.at = "pace" /\ u.api = call[c].api /\ u.read = call[c].read /\ u.session = call[c].session
          /\ call[c].at = "go"
      BY <1>6, <1>11 DEF Call, HostMarker
    <2>2. pc \notin Emptied \union {"conclude"}
      BY <1>4, <2>1 DEF Exclusive, Emptied
    <2>3. frame[c].generation = chainGeneration => Own(u, frame[c])
      BY <1>4, <2>1, <2>2
    <2> QED BY <1>5, <1>6, <1>10, <1>11, <2>1, <2>3 DEF HostMarker
  <1>12. CASE BeginFrame(c)
    <2> DEFINE u == [call[c] EXCEPT !.at = "pace"]
               f == [generation |-> chainGeneration, session |-> call[c].session]
    <2>1. u \in Call /\ u.at = "pace" /\ u.api = call[c].api /\ u.read = call[c].read /\ u.session = call[c].session
          /\ call[c].at = "go" /\ f.generation = chainGeneration /\ f.session = call[c].session
      BY <1>6, <1>12 DEF Call, BeginFrame
    <2>2. Own(u, f)
      BY <1>3, <1>4, <2>1
    <2> QED BY <1>5, <1>12, <2>1, <2>2 DEF BeginFrame
  <1>13. CASE Pace(c) \/ Leave(c)
    <2> DEFINE u == [call[c] EXCEPT !.at = "provider"]
    <2>1. u \in Call /\ u.at = "provider" /\ u.api = call[c].api /\ u.read = call[c].read /\ u.session = call[c].session
      BY <1>6 DEF Call
    <2>2. \/ CallStep(c, NoCall)
          \/ CallStep(c, u) /\ call[c].at = "pace" /\ ~hostPaced /\ call[c].session # NoSession
      BY <1>13 DEF Pace, Leave
    <2>3. call[c].at = "pace" /\ ~hostPaced /\ call[c].session # NoSession => Own(u, frame[c])
      BY <1>4, <2>1
    <2>4. frame' = frame
      BY <1>13 DEF Pace, Leave
    <2> QED BY <1>5, <1>6, <1>10, <2>1, <2>2, <2>3, <2>4
  <1> QED BY <1>7, <1>8, <1>9, <1>11, <1>12, <1>13 DEF CallNext

\* Every step of a bridge that presents and switches keeps both.
LEMMA SteadyStep == WalkInv /\ SteadyInv /\ CallInv /\ [SteadyNext]_vars => SteadyInv' /\ CallInv'
  <1> SUFFICES ASSUME WalkInv, SteadyInv, CallInv, [SteadyNext]_vars PROVE SteadyInv' /\ CallInv'
    OBVIOUS
  <1>1. CASE Present \/ Boundary \/ LockProvider \/ SwitchNext
    BY <1>1, SteadyWalk, CallsUnderSwitch
  <1>2. ASSUME UNCHANGED <<pc, bridgeVars, switchVars>> PROVE SteadyInv'
    BY <1>2 DEF SteadyInv, bridgeVars, switchVars
  <1>3. CASE (\E b \in Backends : RequestReset(b)) \/ RequestStore \/ RequestUnsupported \/ GpuFinishes \/ UNCHANGED vars
    <2>1. UNCHANGED <<pc, bridgeVars, switchVars, callVars>>
      BY <1>3 DEF RequestReset, RequestStore, RequestUnsupported, GpuFinishes, vars
    <2>2. CallInv'
      BY <2>1 DEF CallInv, Inside, Exclusive, bridgeVars, switchVars, callVars
    <2> QED BY <1>2, <2>1, <2>2
  <1>4. CASE \E c \in Callers : CallNext(c)
    <2>1. UNCHANGED <<pc, bridgeVars, switchVars>>
      BY <1>4 DEF CallNext, Enter, ReadApi, ReadSession, HostMarker, BeginFrame, Pace, Leave, CallStep
    <2> QED BY <1>2, <1>4, <2>1, CallsMove
  <1> QED BY <1>1, <1>3, <1>4 DEF SteadyNext

\* A bridge that has presented, with nobody inside.
LEMMA SteadyStart == SteadyInit => SteadyInv /\ CallInv
  <1> SUFFICES ASSUME SteadyInit PROVE SteadyInv /\ CallInv
    OBVIOUS
  <1>1. activeBackend \in Backends /\ activeBackend # None /\ provider.backend = activeBackend /\ chain = activeBackend
    BY NoSessionIs, BackendsAssumption DEF SteadyInit, Common, Presenting, Backends
  <1>2. SteadyInv
    BY <1>1 DEF SteadyInit, Common, Presenting, PacedByHost, SteadyInv, Emptied
  <1>3. CallInv
    BY DEF SteadyInit, Common, CallInv, NoCall, NoFrame, Inside
  <1> QED BY <1>2, <1>3

\* What holds of every state of a bridge that presents and switches.
LEMMA Steady == SteadySpec => [](WalkInv /\ SteadyInv /\ CallInv)
  <1>1. [SteadyNext]_vars => [Next]_vars
    BY DEF Next
  <1> QED BY <1>1, WalkStart, SteadyStart, WalkStep, SteadyStep, PTL DEF SteadySpec

\* Between frames, what the globals tell other threads is what there is: chain, session,
\* backend and pacing agree after every way a switch can end.
THEOREM GlobalsAgree == SteadySpec => []Published
  <1>1. WalkInv /\ SteadyInv /\ CallInv => Published
    BY DEF SteadyInv, Published, Emptied
  <1> QED BY <1>1, Steady, PTL

\* No call is passed on to a session that paces through the host.
THEOREM LatencyGoesOnce == SteadySpec => []LatencyOnce
  <1>1. WalkInv /\ SteadyInv /\ CallInv => LatencyOnce
    <2>1. SUFFICES ASSUME SteadyInv, CallInv, NEW c \in Callers, call[c].at = "provider"
                   PROVE  call[c].session.backend \notin HostBackends
      BY DEF LatencyOnce
    <2>2. ~Exclusive /\ call[c].session = activeSession /\ ~hostPaced
      BY <2>1 DEF CallInv, Inside
    <2> QED BY <2>1, <2>2 DEF SteadyInv, Exclusive, Emptied
  <1> QED BY <1>1, Steady, PTL

\* The session a call is in exists until the call returns, and is one of the API called.
THEOREM CallsKeepLifetime == SteadySpec => []CallsShareLifetime
  <1>1. WalkInv /\ SteadyInv /\ CallInv => CallsShareLifetime
    <2>1. SUFFICES ASSUME SteadyInv, CallInv, NEW c \in Callers, call[c].at = "provider"
                   PROVE  call[c].session \in live /\ call[c].session.backend = call[c].api
      BY DEF CallsShareLifetime
    <2>2. ~Exclusive /\ call[c].session = activeSession /\ call[c].session # NoSession /\ call[c].api = activeBackend
      BY <2>1 DEF CallInv, Inside
    <2> QED BY <2>1, <2>2 DEF SteadyInv, Exclusive, Emptied
  <1> QED BY <1>1, Steady, PTL

\* A marker that carries the generation its frame was begun in reaches no other session than
\* the one of that frame.
THEOREM MarkersStay == SteadySpec => []MarkersKeepTheirSession
  <1>1. WalkInv /\ SteadyInv /\ CallInv => MarkersKeepTheirSession
    BY DEF CallInv, MarkersKeepTheirSession
  <1> QED BY <1>1, Steady, PTL
=============================================================================
