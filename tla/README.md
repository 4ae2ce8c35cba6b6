# ReScaleFrame: verification notes

ReScaleFrame connects a game or engine to vendor upscaling (DLSS, FSR, XeSS), frame generation
and latency services. What is hard about it is not the shading: it is ownership over time.
Several engine threads, two graphics devices, two or three GPU queues and an SDK with queues of
its own all use the same surfaces and the same provider session, while the user switches providers
in a running game. These modules state who may use what when, model the code that keeps it
that way, check it with TLC and, for the core, prove it with TLAPS.

Paths below are relative to `src/`. `PROJECT.json` lists for every definition the lines it
stands for, and every hazard with the property that watches it.

## 1. The system

| Component | State | Operations | Hard behaviour | Correct when |
| --- | --- | --- | --- | --- |
| Input leases, `runtime/orchestrator/src/fg_leases.cpp` | ring of slots by `id % capacity`, two fences per slot, `last_acquire` | acquire, submit, seal, collect, cancel, destroy | two queues finish in any order; device loss makes a fence answer "past everything" | no surface is given back while either queue reads it; submitted leases come back |
| FG session and frame ledger, `fg_session.cpp`, `frame_sequencer.cpp` | active provider and context, prepared frame, `in_flight`, `transition`, chain generation; ring of frames with seven ordered markers | begin, marker, prepare, after_present, abort, select, destroy | `select` drops the lock for the host's quiesce; nine external calls may each fail half-way | one presentation owner and one physical chain; no frame straddles a switch; a context outlives its reads |
| Presentation bridge, `runtime/presentation/src/d3d11_present_bridge.cpp` | proxy chain, physical chain, provider session; globals read by other threads: active backend, session, `host_paced`, chain generation, pending request and its result | create, ensure on first use, Present, switch at the Present boundary, request, latency calls, destruction | latency calls from the game thread while the presenting thread replaces the provider; three nested fallbacks; requests without a lock | a call reaches the session that exists, once; globals agree after every failure; requests are served and truthfully reported |
| Native FG inputs, first half of `runtime/orchestrator/src/native_fg.cpp` | six slots of shared surfaces; per slot a D3D11/D3D12 fence value, a vendor join, flags for failed retirements | resources, capture, evaluate, final, prepare, retire | render thread reuses slots while the present thread retires others; retirement may fail; two queues signal one fence | D3D11 never writes what D3D12 or the vendor uses; barriers name the true state; waits end |
| Native FG frames, second half of `native_fg.cpp`, `native_cpu.cpp` | ring of 128 `CpuOwner`, `presented_through`, `join_skip`, completion event; token ring of the Streamline host | cpu events, submission, frame, present, window_end | a bounded join of the game thread with the previous Present; aborts from three threads; calls refused during a switch | each frame completed once; tokens do not leak; frames are generated only from what the session has begun; pacing does not stop |
| Scene, window and render associations, `native_scene.cpp`, `native_window.cpp`, `render_links.cpp` | rings keyed by frame and view | record, match, read | events of three threads in any order, ring reuse | an ambiguous or stale frame is refused, never matched to another |
| SR session, `sr_session.cpp` | the choice in effect, the open backend, what its history follows, `reset_history` | select, auto exposure, evaluate, destroy | open, plan or evaluate may refuse; a refused choice must keep the one in effect | a backend continues a history only if it is the frames just before; one backend is open |
| SR bridge, `sr_bridge.cpp` | shared surfaces by extents, three command slots, `tick`, one fence for two queues, one auto-reset event | create, select, auto exposure, evaluate, destroy | every API call may fail with half its work queued; waits time out after ten seconds | the image delivered is the frame's; nothing queued work uses is freed; a wait is for something submitted |
| Plugin session, `plugin_session.cpp` | lifecycle of one game plugin, its readers | prepare, start, quiesce, status, stop | failure of each step; a status call beside a transition | calls into the plugin are alone; the module goes only when nothing is inside |
| AC7 native renderer and render scopes, `games/ac7/src/native_renderer.cpp`, `render_scope.cpp`, `plugin.cpp`; the proxy's drain, `loader/proxy/src/dlss_bridge.c` | guards, live renderers, uniforms, leases, open scopes; the markers in the engine's RHI list | hooks of three engine threads; start, quiesce, stop | stop reads five counters one after the other while hooks run; references outlive the thread that took them | hooks go, and the module with them, when nothing of theirs is left anywhere |
| Negotiation, `runtime/contract/src/negotiate.cpp`; provider choice, `fg_choice.cpp`, `gpu_policy.cpp` | none | pure functions | boundary versions | agree with their reference definition |
| D3D12/Vulkan native FG, managed Vulkan runtime | as the D3D11 path | the same over other APIs | the same without the second device | the same |
| Backends, graphics hooks, loader, other game plugins, overlay, tools | SDK handles, hook tables, engine offsets | SDK adapters, capture, start-up | external code | outside these models; they appear as calls that may fail and as the threads that call |

How they interact: the game's render and present threads call the native FG code through engine
hooks; that calls the bridge's exported functions for markers, retirement and chain generation;
the bridge calls back `prepare` and `retire` around the physical Present, and owns the provider
session that the native code may only borrow. The overlay talks to the bridge through two atomics.
Super resolution is driven once per pass on the render thread and has queues of its own. The proxy
prepares the game plugin, starts it at a Present, and at shutdown quiesces it and retries `stop` at
every Present until the plugin says that nothing of it is in the engine any more.
`fg_session`, `frame_sequencer` and `fg_leases` are the same ideas as a separable library: their
files say "Unwired scaffolding: no production caller yet", they have tests of their own
(`tests/fg_session.cpp`, `tests/fg_leases.cpp`), and they are modelled first because the ABI they
fix is the one integrations are meant to get.

## 2. Modules

| Module | What it is |
| --- | --- |
| `InputLease` | abstract: inputs are held from hand-over until nobody reads them, released once, never reused |
| `FgLeases` | `fg_leases.cpp`, one action per exported function, plus the queues |
| `FgLeases_proofs` | theorems about it |
| `FrameSequencer` | `frame_sequencer.cpp` as operators; the session composes them |
| `ChainOwner` | abstract: one presentation owner, changed only between frames |
| `FgSession` | `fg_session.cpp` over `FrameSequencer`; refines `ChainOwner` |
| `FgSession_proofs` | theorems about it |
| `PresentBridge` | `d3d11_present_bridge.cpp` with runtime switching and a Streamline host |
| `PresentBridge_proofs` | theorems about it |
| `NativeFgSlots` | the input ring of `native_fg.cpp` |
| `NativeFgSlots_proofs` | theorems about it |
| `NativeFgFrames` | the life of a source frame in `native_fg.cpp`, with `native_cpu.cpp`, the latency calls of the bridge and the host's token ring |
| `NativeFgFrames_proofs` | theorems about it |
| `SrSession` | `sr_session.cpp` as operators |
| `SrBridge` | `sr_bridge.cpp` and `wait_fence` around `SrSession`, with both queues |
| `SrBridge_proofs` | theorems about session and bridge |
| `SrBridgeQueues_proofs` | theorems about the bridge's two queues and their fence |
| `RenderScopes` | `render_scope.cpp` over the engine's command list |
| `PluginSession` | `plugin_session.cpp` as operators |
| `NativeRenderer` | AC7's renderer life cycle over `RenderScopes` and `PluginSession`, with the proxy's shutdown |
| `NativeRenderer_proofs` | theorems about it |

**FgLeases.** `slots`, `lastAcquire` and `live` are the C structure; `stage` packs `submitted` and
`sealed`, which the code sets in that order only. `gpuRead` and `vendorRead` are not in the code:
they record which fence value ends the real reads of a frame, so that the property is about readers
and not about what the bookkeeping believes. The header calls these "graphics-owner-thread
operations", so a call is one step; the two queues and the loss of the device move between calls.
`Submit` and `Seal` assume what the header asks of the caller: the value passed is the one that
ends the reads, and a null retirement is passed only when the provider took nothing.

**FgSession.** Every exported call holds the mutex and is one step, except `select`. That is a
walk of `phase` through the places where it can fail or where the world moves: quiesce (unlocked),
probe, the two readings of the retirement fence, release, create, adopt, restore. `phase # "idle"`
is `transition`. The provider's and host's answers are free. The context, its chain and the plain
chain are numbers, so that a chain of a past generation is told from that of the present one.
`tokens` are the frames the SDK has open. `MayRead` is the one thing taken from the providers: a
prepare or present may extend what their retirement value covers.

**PresentBridge.** The presenting thread is the walk of `pc`; its stations are the lines of
`ensure_physical`, `switch_provider` and the destructor between which another thread can look.
Every global is an atomic in the code and a variable here, and every load and store another thread
can tell apart is a step. A latency call is a small walk as well: take the lock shared (try-lock,
refused when exclusive), read provider table and session in either order, then the generation, then
who paces, then call the provider. The overlay's request is two stores. `live` are the sessions
not yet destroyed, numbered, so that a call into a dead session is visible. All CPU waits of the bridge
share one auto-reset event; `stale` says that it is registered, or set, for a wait that was given up, and
`Waited`, `EndedEarly` and `WaitFails` are what a wait can then do: end in its own time, be ended at once
by the older wait's event (and leave its own behind, so that every later blocking wait is one behind), or
be given up. `Drain`, `Teardown`, `Present` and the drains of a resize or a fullscreen change use them.
`SteadySpec` is the same
model from a bridge that has presented, without creation and destruction: the life in which the code
claims that latency calls are safe.

**NativeFgSlots.** `slots` are the fields of `Transfer::Slot` that decide about reuse; storage,
formats and timing are left out. The render thread's `resources()` is a walk (`render.at`): look
under the lock, wait for the slot, for the vendor, execute the restore, wait for it, copy. A wait passes,
or blocks and registers `event` for its value; `Wake` ends it when the event is set, whichever wait it was
set for, and `TimeOut` gives it up and leaves it registered. A restore is three things in this order: the
list on the interop queue (`restores`), `complete` counted, the Signal; it may fail behind each of them, and
`read_state` is then still set. `early` and `abandoned` are history: a wait was ended by the event of an
older one; a slot's restore was queued and given up. The present thread is `present.at`: prepare, retire (queue the
join), record (under the lock), boundary. The GPU is explicit: `signals` are the values D3D11 has
queued, of which `flushed` are submitted; `queue` is the provider queue with reads and joins; the
vendor finishes frames in order on a fence of its own; `state` is the resource state of the
surfaces. Setting the shared fence to a *lower* value when an older signal arrives late is modelled,
because that is what a fence does. `restore` and `tagged_slot` are one fact in the model
(`present.tagged`): the code sets and clears them together around one Present.

**NativeFgFrames.** `game.at` walks `rsf_native_fg_cpu` for FRAME_BEGIN (claim the entry, join the
previous Present, begin at the bridge, record the answer), the simulation, FRAME_END and the abort of
an idle frame. `rhi.at` walks submission, Present, window end and the end of the RHI frame; raising
`presented_through` and setting the event are two steps on either thread, because the other may look
in between. `cpu` and `frames` are the two rings of 128; `tokens` and `cursor` are the host's. While
the RHI thread is in a switch (`Switching`) the bridge turns the game thread's calls away, as
`with_provider`'s try-lock does. `begun`, `over` and `paces` are history: which session a frame's
begin reached, which Presents are over, how many pacing points passed since a time-out. The
simulation and the Present send two markers each, taken together here; flags that only keep a marker
from being sent twice are derived from the record.

**SrBridge over SrSession.** `SrSession` is one thread's bookkeeping: `session` the fields that decide
about plan and reset, `open` the backend instances, `seen` and `submitted` what each instance's history
really holds. `SrBridge` makes every exported call a walk: check, flush and wait, then act, because
between the two the queues move. An evaluation queues D3D11 work, a D3D12 list and D3D11 work again;
`inputs` and `outputs` say whose images the shared surfaces hold at each moment, which is what a
missing GPU wait would spoil. The auto-reset `event` is explicit: it may be set late, for a wait that
is over. `hung` remembers a time-out; with `Recovers = FALSE` the hung queue never goes on.

**NativeRenderer over RenderScopes and PluginSession.** The command list is a sequence of scope
markers, draws that use a uniform, and the ends that give leases back. A hook body that nobody can see
half done is one step; where it leaves the guard, or queues a marker, or touches a counter that `stop`
reads, it is several. `present` walks the proxy at Present: start, quiesce, then the reads of `stop`
one by one (readers of the guards, live renderers, uniforms, leases, scopes), disable, free. A refused
marker (the list is executing) and a status call on a fourth thread are bounded inputs. The guards are
local objects of the hook's body, so a thread is inside a detour before it counts itself (`entering`) and
after it has counted itself out (`leaving`); nothing of `stop` waits for it there. `unseen` remembers who
was in such a window when the guards were read for the last time, and what a late thread does after that
is what its hook's body does with the renderer gone or inactive.

## 3. Runs

| Run | Module, configuration | Question | Bounds |
| --- | --- | --- | --- |
| `leases` | `FgLeases`, `MCFgLeases` | do inputs outlive their readers, and do leases come back? | 2 slots, 4 ids: each slot is reused, ids can be skipped |
| `session` | `FgSession`, `MCFgSession` | is there one owner, whatever fails in a switch? | 2 slots, 3 ids, 3 generations (plain, provider, another provider), 1 retirement value |
| `bridge_steady` | `PresentBridge`, `MCPresentSteady` | are latency calls safe and requests served while the bridge lives? | one host-paced, one self-paced backend and Off; one caller; switches up to generation 2 |
| `bridge_life` | `PresentBridge`, `MCPresentBridge` | do chain, session, reported result and destruction agree over whole lives? | as above without callers, sessions from two bridges |
| `fg_slots` | `NativeFgSlots`, `MCNativeFgSlots` | are inputs exclusive, barriers true, and waits submitted? | 2 slots, 3 frames, 4 fence values, 1 provider switch |
| `fg_frames` | `NativeFgFrames`, `MCNativeFgFrames` | does every frame keep its records, give its token back and get its join? | owner ring 2, 2 tokens, 2 frames in flight, 3 frames, 1 skipped join, 1 switch |
| `sr_bridge` | `SrBridge`, `MCSrBridge` | are images, histories and lifetimes right, whatever fails? | one choice and none, one view, 2 instances, 2 command slots, 2 frames, 2 extents, 8 fence values; a hung queue stays hung |
| `native_renderer` | `NativeRenderer`, `MCNativeRenderer` | is shutdown safe at every moment, and does it come? | 2 renderers, 3 leases, 1 refused marker, 1 status call at a time; threads pause before their guard at `disable` |
| `latency_once`, `call_lifetime`, `slot_waits`, `sr_bridge_late` | see section 6 | four disagreements, one property each | smallest that show it |

Why the bounds suffice for what is asked: every ring of the code is indexed by `id % size` and
compares whole ids, so two slots and more ids than slots exhibit first use, refusal of a busy slot, reuse and
skipping. Switching needs a source, a target and a fallback that differ in who paces: three
backends, one of each kind. A second latency caller adds nothing to the properties of one call, which
share no state with another call but the lock. One generation step distinguishes "before" and "after"
in every comparison the code makes; the session run has three because a failed switch also counts
one. In `fg_frames` three frames over a ring of two make the third reclaim the first's entry while the
second is in flight; that is the most the engine's two frames in flight allow. In `sr_bridge` two frames
over two instances exhibit continued, reset and stale histories, and eight fence values are two whole
evaluations and a retry. In `native_renderer` a second renderer is the other one: recorded, queued or
retired while the first is open. `Pauses` are the places of the RHI thread at which another thread may stop
between a detour's entry and its guard, or behind it: `disable`, where the hooks are still on and are about
to go off, and the guards are read for the last time behind it. Entering earlier changes nothing that
another thread can see until the hooks go off, so it commutes with what happens before, and so does counting
out later; allowing both at the next place, `outer`, adds no state. The theorems hold for every `Pauses`.
In `fg_slots` three frames over two slots reuse one of them, over any number of copies, waits, restores and
retirements of it; four fence values are a few copies and a restore
that is tried twice. Where a run is deadlock-checked (`bridge_steady`) no reachable state may be stuck; the other
runs have `CHECK_DEADLOCK FALSE` because their bounds (ids, values, generations) end the
behaviour, and because `destroy` is a legal end.

### Properties

* Leases: `ReadsAreLeased` (whoever reads, a live slot holds), `PromiseSpec` (refinement of
  `InputLease`), `LeaseRetires` (a submitted lease is given back or the device is lost), and `IInv`,
  the inductive invariant.
* Session: `SessionInv` (count, ledger, provider and transition agree), `OnePhysicalChain`,
  `StatusIsTrue`, `ContextOutlivesReads` (action property), `OwnerSpec` (refinement of `ChainOwner`).
* Bridge: `BridgeInv` and `Published` (chain, session, backend and pacing agree, in every station
  or between frames), `ResultIsTruth` (a settled OK names the backend in effect),
  `DestroyedAfterDrain` (action property: no session goes while the GPU is busy, unless a wait was given up
  before), `LatencyOnce`, `CallsShareLifetime`, `MarkersKeepTheirSession`,
  `RequestServed`.
* Slots: `WritesAreAlone` and `SlotsInv` (with `BarriersMatch`), both as long as no late event has ended a
  wait, the second without the slots whose restore was given up; `SubmittedBeforeWaiting`, `WaitsEnd`.
* Frames: `FramesInv` (a frame in flight owns its entries), `TokensReturn` (room for every frame begun),
  `GeneratesWhatItBegan` (the generating session has begun the frame, and it was not given up),
  `OneWaitPerPause`, `JoinExact` (action property: an unskipped join that does not time out ends with
  the previous frame's own Present), `JoinReturns` (liveness).
* Super resolution: `ContinuesHistory`, `SrInv` (with `OneBackendOpen`), `OwnImages` (what is copied to
  the game comes from that frame's inputs), `NothingFreedInUse`, `FenceRises` (action property: the
  fence of two queues never falls), `WaitsEnd` (a CPU wait ends unless a queue hangs).
* Renderer: `UnloadSafe` (nothing queued, no status call, and no thread inside but those in `unseen`),
  `HooksOffIsDrained`, `LeaseOutlivesScope`, `UniformOutlivesDraws`,
  `InsideOpenScopes` (a scope ends innermost while no marker was refused), `HookCallsAlone`,
  `RendererInv` (types), `ShutdownEnds` (liveness).

Every property of a passing run has a mutant: a named wrong form of one definition, kept beside the
right one in the module, under which TLC finds the property violated.

## 4. Fairness

* `FgLeases!Fairness`: the queues signal while the device lives (a GPU property); the owner seals
  what it submitted, which the header demands ("submitted failures must still seal and retire"), and
  collects, which it does every frame.
* `PresentBridge!SteadySpec`: the game presents again as long as Present is accepted; threads run;
  the GPU finishes. Strong fairness of `LockProvider` says that the exclusive acquisition is not
  overtaken by new shared holders for ever. That is an assumption about the lock, not a promise of
  `std::shared_mutex`; callers hold it for one short call each, and without the assumption the second
  half of `RequestServed` is false.
* `NativeFgFrames!Spec`: both threads run, and a message sent into the window is answered; no fairness
  for the time-out, so `JoinReturns` does not rest on it. `wait_completion` of the code answers messages
  while it waits, and that is what the property needs: without it the RHI thread's Present and the game
  thread's join wait for each other.
* `SrBridge!Spec`: both queues run what they were given and CPU calls return. No fairness for a hung
  queue (`hung`), which `WaitsEnd` excepts.
* `NativeRenderer!Spec`: the three engine threads run (a thread paused before or behind its guard goes on
  too), the game keeps presenting and the list keeps being
  executed. `ShutdownEnds` names the four ways in which `stop` may be refused for ever by the code's
  own design: a uniform generated before the quiesce and retired after it can no longer be queued (the
  code keeps buffers and module, `native_renderer.cpp:911-914`); a refused marker left a scope unclosed;
  every single attempt meets a thread inside a hook; or a status call.
* `FgSession` and `NativeFgSlots` state no liveness, so they assume no fairness.

## 5. Proofs

TLAPS checks these for every value of the constants; the assumptions are only those named in the
modules (`CapacityAssumption`: at least one slot; bounds are naturals) and, in the two theorems that
say so, `~Recovers`.

* `FgLeases_proofs`: `LeaseInvariant` (`Spec => []IInv`), `ReadersKeepLeases`
  (`Spec => []ReadsAreLeased`) and the refinement `LeasesKeepPromise` (`Spec => PromiseSpec`).
  `ReadsAreLeased` alone is not inductive: a `Collect` from a state whose slot remembers too small a
  value would free inputs in use. `IInv` adds `FencesCoverReads`
  (the recorded values bound the real reads, and an open slot has none), `NotYetUsed` (ids above
  `lastAcquire` were never read, so acquiring cannot inherit a reader), `IssuedBounds` (the
  vendor's last issued value bounds its reads, which is why sealing with it is enough) and
  `FreeSlotsAreClear`. The proof has one case per action. The refinement takes an acquire
  for a `Hold` that also closes the ids it skips, collect, cancel and destroy for one `Release`, and whatever
  lets the GPU or the vendor read, or ends that, for the start and the end of reads.
* `FgSession_proofs`: `SessionInvariant`, `ReadsEndFirst`, `OneChainAtATime`, `StatusIsTold` and the
  refinement `SingleOwner`. The arguments go through `CountIsLedger`, which needs that the
  live frames are in bijection with the used slots (a cardinality lemma each for beginning and
  finishing a frame), and `QuietSwitch`. For the chains the inductive form is indexed by
  the phase: what `chains`, `shown` and `context` may be at each station of `select`.

* `PresentBridge_proofs`: over whole lives (`Spec`), `ChainKeepsItsSession`, `SessionsAreDrained` and
  `ResultIsTold`; over the life of a created bridge (`SteadySpec`, for any set of callers),
  `GlobalsAgree`, `LatencyGoesOnce`, `CallsKeepLifetime`, `MarkersStay`. `WalkInv` says at each station
  of `pc` which of chain, session and globals are already changed; `ResultInv` follows a request through
  the two stores of the overlay; `CallInv` says what each station of a latency call may have read, given
  that nobody is inside while the lock is held exclusively. For `SessionsAreDrained`, `PhaseInv` carries what a
  drain has found to the step that destroys: between them the GPU is idle, or a wait was given up before.
* `NativeFgFrames_proofs`: `FrameOrder` is the inductive invariant under everything else: who is ahead of
  whom, which ring entries and completed frames belong to whom, what an event that is set still stands
  for. On it rest `FramesOwnTheirEntries`, `JoinsAreExact`, `OneWait`, `TokensAreReturned` (tokens are
  handed out in order, and the cursor's is free because its frame is over) and `GenerationIsOwn` (what
  `begun` says of each frame from its begin, over a switch, to its Present). The ring lemmas (`DivMod`,
  `EntriesDiffer`) say that frames less than a ring apart have entries of their own.
* `SrBridge_proofs`: `HistoryIsContinued` and `BackendIsOwned`, by what each operator of `SrSession` keeps,
  and the calls of the bridge that apply them.
* `SrBridgeQueues_proofs`: `FenceOnlyRises`, `BridgeIsTyped`, `ImagesAreOwn` and `NothingFreed`, with queues of
  any length. Every queued command has a value the fence stays below until the command has run (`Bound`)
  and one it has reached before the command runs (`Need`), because of what is queued before it (`Gated`);
  the bounds of the two queues never meet (`Apart`), and that settles every order in which they may run.
  It also says what a failed evaluation may leave: a queue that waits for a value nobody will signal has
  no work of its own behind the wait. `CoreInv` holds on every behaviour, hence the first two theorems.
  `ImagesAreOwn` and `NothingFreed` (`ImageInv`, `LiveInv`, `EventInv`: what is alive behind an armed event)
  assume `~Recovers`: a queue that made a wait time out does not go on. This is finding 4, not a
  convenience: with `Recovers` the run `sr_bridge_late` refutes `NothingFreedInUse`.
* `NativeRenderer_proofs`: `LeasesOutlive`, `UniformsOutlive`, `CallsAreAlone`, `HooksGoLast`,
  `UnloadIsSafe`, `RendererTypes`, `ScopesNest`, `EndsMatch`. `TicketInv` ties every queued marker
  to an open ticket and puts none behind its ticket's end; `UniformInv` puts a uniform's end behind its uses; `StopInv` says what each
  read of `stop` leaves behind: what it found empty stays empty, because quiesce has closed every way
  to add to it. For threads it says that whoever is inside after the last reading of the guards was in a
  window then: with the hooks off nobody enters, and `InsideLess` shows that every step of the threads only
  takes some out of `Inside`. That last part is why five unsynchronised reads in a fixed order are enough. `NestInv`
  orders the scopes by where they begin, through the RHI thread's stack and then the list (`Before`): a
  scope that begins before another has its end behind the other's end, or before the other begins. It
  holds while no marker was refused, and gives both what the stack holds (`ScopesNest`) and that
  `execute_scope` finds each ending scope innermost (`EndsMatch`). A refused end marker breaks it, and the
  code then turns the renderer off.
* `NativeFgSlots_proofs`: `InputsAreWrittenAlone`, `StatesAreTold` and `WaitsAreSubmitted`, for every number of
  slots, lead of the renderer, and number of retirements that fail or providers that are switched.
  `BaseInv` (types, rising serials, the queues' order) holds on every behaviour; `RingInv` holds until a late
  event ends a wait (`early \/ RingInv` is what is inductive). It has parts about the two threads (`ThreadInv`), the queue (`QueueInv`: joins rise, each slot has one round of read
  and join in it, each entry finds its slot in the state it names), the join under way (`RecordInv`), what
  the render thread has found out (`RenderInv`), and three per slot: `SlotBooks`, `SlotTruth`,
  `SlotReady`. Two ideas carry it. `Covers` says of a join value that once it has run nothing on D3D12
  uses the slot, so a slot may be written when the fence has passed the value in its books. `Outcome` is
  the state the queued work will leave a slot in, and `readState` speaks of that state, not of the
  present one: this is why a failed retirement, which leaves `readState` set, is safe to find later.
  `WaitsAreSubmitted` adds what is still to be submitted (`SubmitInv`): serials rise along the D3D11 signals,
  one that ends the work of a slot's frame is submitted before a Present of that frame begins and rises
  above the fence while the frame is rendered, and the last join issued is queued or done.

Only model-checked: liveness (`LeaseRetires`, `RequestServed`, `JoinReturns`, `WaitsEnd`,
`ShutdownEnds`), because the prover does not reason about fairness or ENABLED. Every invariant and every
other action property that a passing run checks is a theorem. No module uses RECURSIVE, and no proof is
by induction over data.

## 6. Findings

1. `latency_once`. `ensure_physical` stores `active_session` and then `host_paced` without
   `provider_guard` (`d3d11_present_bridge.cpp:288`). A latency call between the two stores sees
   the new session and the old pacing, and goes to the host-paced provider directly. The comment at
   38-39 says that the flag changes only with `active_session`, under `provider_guard`.
2. `call_lifetime`. The destructor (344-368) destroys the session without `provider_guard`.
   A call that entered before may be inside it. The comment at 965 says that latency calls share
   the provider's lifetime. `bridge_steady` shows that the switch itself does honour it.
3. `slot_waits`. `restore_read_state` (`native_fg.cpp:339-341`) signals the shared fence from the
   interop queue with a serial above those D3D11 has queued. D3D11's older signal then takes the
   fence back. If `resources()` goes on to refuse the frame (373-375), `slot.complete` names a value
   that was reached, lost and will not be signalled again until a later frame signals a higher
   one; the next use of the slot waits ten seconds and is refused. It takes a failed retirement, a
   slot released by a later join, unflushed D3D11 work and a refused frame, in that order.
4. `sr_bridge_late`. `wait_fence` (`runtime/backends/common/d3d12_helpers.h:37-46`) registers one
   auto-reset event and leaves it registered when it times out. If the queue later goes on, the event is
   set with nobody waiting, and the next wait on it, for a later value, returns at once. When that is the
   wait of `rsf_sr_bridge_destroy`, or of a selection of none, backend and surfaces are freed under a
   queued list; the comment at `sr_bridge.cpp:343-344` says the bridge is kept alive rather than that.
   The passing run assumes that a hung queue stays hung. The same `wait_fence` with one event serves the
  three waits of `resources()` (`native_fg.cpp:341,360-361`) and every wait of the presentation bridge,
  `drain()` among them (`d3d11_present_bridge.cpp:164,191-203`). There it is not a run of its own, but the
  models have the event, and their properties name what it breaks: see below.

Seen in the code and excepted by a property, which would be violated without its condition:

* A late event in a slot's wait (`early`). A wait for the slot times out; its event is set while the thread
  is elsewhere; the next wait, for the vendor's join, blocks and is ended by it; D3D11 then writes inputs
  that D3D12 or the vendor still reads. Without `~early`, TLC violates `WritesAreAlone` in 19 states.
* A late event in a drain (`stale`). A drain, or the wait of a Present, is given up; the next drain returns
  at once and the provider session is destroyed (319, 358) over a busy GPU. Without `stale`,
  `DestroyedAfterDrain` is violated.
* A restore given up behind its list (`abandoned`; `native_fg.cpp:338-341`, 369-371). The surfaces go to
  COMMON, `read_state` stays set, and the next use of the slot records a barrier from the read state they are
  not in. Without this exception TLC violates `SlotsInv`. The comment at 258-259 ("D3D12 still holds depth, motion
  and HUD-less colour in the read state") is then untrue.
* A thread in a detour but not in a guard (`unseen`; `native_renderer.cpp:167-176`, 473). `stop` reads the
  guards for the last time at 3022 and a failed installation at 2979; a thread that has entered and not
  counted yet is invisible to both, the module is unloaded, and the thread runs a whole tick in it; one that
  has counted itself out has a few instructions left there. With `Inside = {}` in place of
  `Inside \subseteq unseen`, TLC violates `UnloadSafe`.

Seen, and not stated as a property: `hooked_engine_tick` (`native_renderer.cpp:487-491`) may install the
message hook again between its removal by `stop` (3016-3019) and the disabling of the tick hook (3021);
the hook is not modelled, so `UnloadSafe` says nothing of it. `ensure_physical` clears `physical_pending`
before anything can fail (`d3d11_present_bridge.cpp:281`): after a Streamline feature that does not unload
or a fullscreen mode that cannot be entered, no later call tries again.

## 7. Modelling decisions

* Slots: frames are presented once and in order, which the engine hooks guarantee for the window
  they match; a lost device is not modelled (the bridge then faults and never presents again);
  the renderer is at most `Ahead` frames before the last Present, with `Ahead` no more than the ring
  (UE renders one frame ahead, the ring has six). With a longer lead the ring would be overrun
  without any check in the code. A "refused" Present of the bridge is not a frame.
* Slots: the render and present threads are two, as the comment on `vendor_guard` has it; engines that
  use one are a special case of the interleavings.
* Slots: the D3D12 list of an SR evaluation runs between two D3D11 signals that it waits for and
  precedes; it is part of the frame's copy and of its last signal.
* Bridge: the switch by the presenting thread is atomic between the stations of `pc` only where no
  other thread can observe it; `drain` has up to three waits, taken together: it ends well when the GPU is
  idle, or at once when the event of a given-up wait ends one of them, and fails at any time (time-out or
  device loss). `stale` does not tell which value the event stands for, so the model allows it to come at
  any moment.
* Frames: RHI begin and end arrive for every source frame (AC7's hooks switch themselves off
  otherwise); a provider that paces by itself sends the same calls to its own session and is not walked
  apart; without a host an aborted idle frame may raise `presented_through` past an older one, which the
  code allows (it is only a lower bound of what a join may skip). The header says that the sleep waits for
  the previous Present; the code stops after 20 ms and skips 120 joins, which is what is modelled.
* Slots: a wait that was never registered (`SetEventOnCompletion` refused) and a time-out after which the
  event is set at once are the same as a time-out; the ten seconds are not counted.
* Super resolution: a removed device is not modelled; input validation that refuses without a change of
  state is one refusal. The surfaces are two (inputs, outputs) instead of one per image kind, since
  they are copied together.
* Renderer: the proxy's start, quiesce and stop run in Present on the RHI thread, so a scope marker never
  executes beside `stop`. Frame and window tasks, particle bindings, the input hook and code patches have
  state of their own and are left out; a tick after the last renderer was built is not modelled; other
  renderers of the engine stand for one (`RetireOther`).
* Session: argument and ABI errors change nothing and are no steps; marker time stamps are kept
  only as "not before the previous one".

## 8. Not modelled

Listed with reasons in `PROJECT.json`. In short: SDK adapters and hooks are external; GPU data,
formats and shaders are data no property here depends on; diagnostics, dumps, the loader and
scripts are I/O. In the bridge, resizing, fullscreen, the native D3D12 copy fences and bridges
without a Streamline host are open.

## 9. Plan

Done: (1) `InputLease`, `FgLeases` with proofs; (2) `FrameSequencer`, `ChainOwner`, `FgSession`
with proofs; (3) `PresentBridge` with proofs; (4) `NativeFgSlots` with proofs; (5) `NativeFgFrames` with proofs;
(6) `SrSession` and `SrBridge` with proofs; (7) `RenderScopes`, `PluginSession` and `NativeRenderer` with
proofs.

Open, in this order: the bridge's resize, fullscreen and native D3D12 copy path; `RenderLinks` with the
scene and window rings; the D3D12 and Vulkan sisters of native FG; `Negotiate` against a reference
definition. For the proofs: what is added above, as it is modelled.
