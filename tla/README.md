# TLA+ models of the translation runtime and its broker

This directory holds a TLA+ development for two programs: the Python runtime
under `src/puripuly_heart` and the broker, a TypeScript service under
`broker/src` that issues the managed provider keys of trial users. It consists
of models of their concurrent owners, TLC configurations that check them on small
instances, and TLAPS proofs that what TLC finds safe on those instances is safe
on all of them. Paths below are relative to `src/puripuly_heart` or `broker/src`
unless they start at the repository's root.

1. [The system](#1-the-system)
2. [Modules and plan](#2-modules-and-plan)
3. [The translation turn owner](#3-the-translation-turn-owner)
4. [The output runtime](#4-the-output-runtime)
5. [The self capture session](#5-the-self-capture-session)
6. [The broker's managed operation](#6-the-brokers-managed-operation)
7. [Runs](#7-runs)
8. [Proofs](#8-proofs)
9. [Where code and documents disagree](#9-where-code-and-documents-disagree)
10. [Not modelled](#10-not-modelled)

## 1. The system

The program hears two people (the *self* channel: the user's microphone; the
*peer* channel: the sound of a game), transcribes both, has the final
transcripts translated, and publishes the results to a chatbox (OSC), an overlay
and the UI. Everything below runs on one asyncio event loop, except workers
behind pipes and the broker, a TypeScript service that grants trial credit.

`ARCHITECTURE.md` asks of every owner of a task or a session: an ingress stop,
cancellation or draining, rejection of late callbacks, release of resources and
a restart behaviour. These are the obligations the properties are about.

| Component | State | Operations | Talks to | Hard behaviour | Correct when |
|---|---|---|---|---|---|
| Translation turn owner, `core/orchestrator/translation_turn.py` | live and closed turns, per-channel order, generation, tail and admission lock, child outcomes, parent and child tasks | submit, cancel_pending, close/open_channel_ingress, close | the channels through adapters, the output projection | five places close a turn; cancellation against admission, creation, execution and shutdown | every turn is closed once, when its last child is; outputs keep turn order; nothing runs for retired work |
| Lifecycle scope, shutdown coordinator, `core/lifecycle.py` | registered tasks, phases, diagnostics | create_task, close, shutdown | all owners | tasks that resist cancellation, failing participants | every task ends; every participant is closed |
| Self and peer channels, `core/orchestrator/*_translation_channel.py`, `channel_runtime.py` | merge buffers, reset generations, live state | final and partial transcripts, reset, close | STT, turn owner, output projection | debounce timers against resets; merged finals | a transcript is translated once and never after its reset |
| Requests and context, `translation_request.py`, `context.py` | context memory, circuit of fallbacks | run one request | LLM provider handle | retries, timeouts, context admitted out of order | context has the order of turns |
| Output projection, `translation_output_projection.py` | active records by generation and turn order | project partial and final results | output runtime, UI | results of two targets in either order, stale generations | presented revisions only grow; stale work is dropped |
| Output runtime, `core/runtime/output.py` | sink, deliveries, identities, owned tasks, state | publish, replace sink, start, close | overlay, chatbox, UI bridge | replacement and close against deliveries, failing and repeated close | exactly once per identity; one destination at a time; closed means released |
| Chatbox paginator, `core/osc/chatbox_paginator.py` | pending pages, cooldown, typing reasons | enqueue, process_due, drop | OSC sender | cooldown, revisions of a message while its pages are out | page order, typing state shown equals its reasons |
| Provider runtime handle, `core/runtime/provider_handle.py` | current and retiring component, generation, attachment token | attach, replace, detach, close | STT and LLM providers | replacement during attach, late events of the old component | events of one current component only |
| Managed STT provider, `core/stt/controller.py` | session, consumer tasks, deadlines | audio, end of speech, reset, close | STT backends | reconnects, reset deadlines, events of a retired session | a final per utterance, none after a reset |
| Self and peer capture, `core/runtime/self_capture.py`, `peer_channel.py` | desired and actual state, loop task | start, stop, restart | audio devices, VAD | an intent changed while its transition runs | the actual state converges to the desired one |
| Local ASR runtime, `core/runtime/local_asr_*.py`, `gpu_asr.py` | backend, transition, worker process | prepare, commit, rollback | worker process | worker death between prepare and commit | one backend is active, a failed transition leaves the old one |
| Pipeline composition, application shutdown, `app/wiring`, `app/services` | phase of the runtime | start, stop, clear for a change | all of the above | failure half-way, stop during start | the documented shutdown order |
| Settings persistence, `app/services/canonical_settings_persistence.py`, `secret_settings_transaction.py` | queued revisions, transaction log | save, compensate | file system, key store | coalesced saves, a failure between two stores | the newest revision wins; secrets and settings agree |
| Broker operations, `broker/src/managed-operation*.ts`, `managed-key-delivery.ts`, `scheduled.ts` | rows of operations, attempts, deliveries, entitlements and identities; keys at the provider | resume, acknowledge, reconcile, clean up, sweep | the client, the provider's key API, D1 | death between two statements, lost answers, a sweep against an acknowledgement | one key is issued; a confirmed one is kept; an abandoned one is deleted |
| Broker referral | referrals, bonuses | accept, credit | operations | duplicated requests | a credit is granted once |
| Overlay processes, OSC control, VAD, scene service, UI, native workers | | | | mostly I/O, rendering and data | |

`PROJECT.json` lists every component with its status, and under "hazards" what
is hard to test in the modelled ones, each at its line with the properties that
cover it.

## 2. Modules and plan

| Module | What it is |
|---|---|
| `TurnLedger` | abstract specification: what the turn owner promises |
| `TranslationTurn` | the turn owner, its properties, the refinement of `TurnLedger` |
| `TranslationTurnInv` | the inductive invariant `IInv` |
| `TranslationTurnOrder` | the inductive invariants behind the order of the turns: `SpareInv`, `GateInv`, `OrderInv` |
| `MCTranslationTurn` | values of the constants for TLC |
| `TranslationTurnSteps` | proofs about the turn owner: types, one lemma per part of `IInv` |
| `TranslationTurnLine` | what a step does to the line of a channel's turns, one lemma per part of `SpareInv` and `GateInv` |
| `TranslationTurnProofs` | what a step does to the outputs, and the theorems |
| `OutputRuntime` | the output runtime, its properties and its invariants |
| `MCOutputRuntime` | symmetry and values for TLC |
| `OutputRuntimeProofs` | proofs about the output runtime |
| `SelfCapture`, `MCSelfCapture` | the capture session of the microphone with the provider of its channel; symmetry for TLC |
| `SelfCaptureInv` | its inductive invariant `CaptureInv` |
| `SelfCaptureTypes`, `SelfCaptureSteps`, `SelfCaptureProofs` | proofs about the capture session: types and frames, the effects of a step and the lock, one lemma per other part of `CaptureInv` and the theorems |
| `ManagedOperation`, `MCManagedOperation` | one managed key operation of the broker; symmetry for TLC |
| `ManagedOperationProofs` | proofs about the managed operation |

Conventions. An actor is a task of the program, or a worker of the broker. `pc`
names the `await` it is suspended in, an action is the code from one `await` to
the next, so that interleavings are those of the event loop (in the broker, of
the statements it sends to its database). Variables have the names of the fields
they stand for, or say so in their declaration. A definition whose comment
begins with "mutant" or "a mutant of" is a plausible bug that no action uses;
with it in the place of the definition after it, the property named for it in
`PROJECT.json` fails.

Order of the work:

1. *Turn owner* (done): the core every utterance passes.
2. *Output runtime* (done): the owner of every destination.
3. *Self capture* (done), with the replacement and hand-over of the provider
   behind it, as far as the capture uses them.
4. *Broker managed operations* (done): the place with durable state and crashes.
5. *Output projection with the chatbox paginator*: `OutputProjection` between
   turn owner and output runtime, for the order of two targets and stale
   generations. Abstract specification: a monotone map from turns to presented
   revisions.
6. *Provider handle* as a module of its own, refined against "one current
   component"; `SelfCapture` would then use it, and so would the peer capture and
   the *managed STT provider*.
7. *Channels and requests*: merge buffers, reset generations and retries,
   composed with the turn owner, whose environment they replace.
8. *Settings persistence*, *Local ASR transition*, *pipeline composition and
   shutdown*, *referral*.

Every safety property the passing runs check is a theorem (section 8). Still worth
stating and proving: an abstract specification of the capture session ("one
microphone at a time, for the newest intent") that `SelfCapture` implements, one of
the output runtime (each event goes to one destination), and the order of the
outputs when a submitter or a child is cancelled from outside, for which the
property has to say which turns left the line. New modules of the list above are
to come with their inductive invariants.

## 3. The translation turn owner

`submit` splits a final transcript into children (a language run times a target
language), registers the turn, admits it under the channel's admission lock and
starts a task for it; that task runs each child in a task of its own. Outcomes
are recorded by `_terminalize_child`, which every kind of task enters:
submitters whose turn was withdrawn, runners, child tasks, and the callers of
the cancelling operations.

| Code | Model |
|---|---|
| `submit` | `Reject`, `Register`, `LockAcquired`, `Admitted`, `NotAdmitted`, `Withdraw`, `Withdrawn`, `ChildCreated`, `ChildCreationFails` |
| `_run_parent` and the dual-target gather | `Loop`, `LoopContinues`, `Gathered`, `RunnerCancelled`, `RunnerSweeps`, `RunnerEnds` |
| `_execute_child`, `_run_child` | `ChildStarted`, `ChildProcessed`, `PredecessorClosed`, `OutputReturns`, `ChildInterrupted`, `ChildEnds` |
| `_terminalize_child`, `_close_parent` | `Terminalize`, `TerminalReturns`, `CloseParent`, `ClosedReturns` |
| `cancel_pending(channel=)`, `close_channel_ingress`, `_cancel_channel` | `CancelQueued`, `CancelStarts`, `CancelFindsNothing`, `Select`, `TasksEnded`, `ControlSweeps`, `CancelReturns` |
| `close`, `LifecycleScope.close` | `BeginClose`, `DrainLock`, `LockDrained`, `CloseScope`, `ScopeClosed`, `CloseReturns` |
| cancellation from outside | `SubmitterCancelled` (the task that calls submit), `ChildDropped` (`clear_live_translation_state` of a channel) |

Abstractions:

- Which outcome a child gets is left out; that it gets one is `completed`.
- `_active_tasks` and `_parent_tasks` are read off `pc`. `_accepting` is the
  negation of `_closed`: only `cancel_pending(channel=None)` would separate them.
- A free lock is taken without suspending, as `asyncio.Lock` does.
- The return of an adapter and the continuation of the code after it are two
  steps where the code has one. The model has more interleavings than the
  program, none fewer.
- A second submission of a known id raises and changes nothing.
- A pending cancellation is delivered when the event loop resumes the task;
  tasks that were never started end without running.

Left out, and why: `cancel_pending(channel=None)` has no caller in production
code; `on_child_started` is assumed not to raise (neither channel's does); a
cancellation requested from inside the turn's own task (433-434) never occurs.

`TurnLedger` is what the rest of the pipeline may rely on: a turn opens once, its
parts are published at most once while they are unfinished and the turn is open,
each part is finished once, and the step that finishes the last one closes the
turn. `ImplementsLedger` says that the owner, with its locks, callbacks and
cancellations, does nothing else.

## 4. The output runtime

A publisher calls `publish_overlay_event`: under the delivery lock it checks the
state, the sink and the identity, and creates a delivery task; it waits for that
task outside the lock. `replace_overlay_sink` and `close` take the same lock,
cancel the deliveries under way and wait for them while holding it.

| Code | Model |
|---|---|
| `publish_overlay_event` | `Publish`, `PublisherAcquires` (both run `Deliver`), `PublisherResumes`; `PublisherCancelled` |
| `sink.emit` | `EmitEnds` |
| `replace_overlay_sink` | `Replace`, `ReplaceAcquires`, `ReplaceFinishes` |
| `_cancel_active_delivery_tasks_locked` | `CancelDeliveries`, then `DeliveriesGathered` |
| `publish_chatbox` and the disclosures, typing reasons, flush loop | `PublishChatbox`, `SetTyping`, `FlushSends` |
| `start`, `start_ui_event_bridge`, `_record_task_completion` | `Start`, `StartBridge`, `TaskEnds`, `Collected` |
| `close`, `_cancel_owned_task` | `CloseBegins`, `TaskCollected`, `CloseWaits`, `CloseCancels`, `CloseGathered`, `CloseClearsChatbox`, `CloseEnds`, `CancelOwned` |

Abstractions:

- The current sink is a value, a message is its identity; routing decisions and
  diagnostics are left out, and with them the reason a publication was skipped.
- `gather` over the deliveries returns after the publishers have resumed: each
  publisher awaited its delivery task before `gather` did, and asyncio runs the
  callbacks of a task in the order they were added.
- A publisher cancelled after its delivery task is done and before it is resumed
  gets `CancelledError` at line 658, although the delivery succeeded. This is
  `interrupted`. Cancelled earlier, it passes the cancellation on to the task.
- Stages of `close` that do not suspend are steps of their own: more
  interleavings, none fewer.
- `emitted` is a history variable: how often `emit` of an event returned.

Left out: `wait_for_ui_event_bridge_started`, which the composition calls right
after `start_ui_event_bridge`; publications that are denied (peer to the
chatbox), which change nothing; a chatbox method that raises while the runtime
is open, which leaves the state as it was.

## 5. The self capture session

`SelfCaptureSessionOwner` keeps one capture session: an audio source, the task
of the loop that reads it, and the speech provider of the self channel. An intent
increments the generation, creates a transition task, cancels the transition
before it and waits for it; the transition takes `_activation_lock` and drops out
if it was superseded. Failures of the loop and of the provider take the same
lock in tasks of their own.

| Code | Model |
|---|---|
| `apply_intent` | `Start` (`ApplyIntent`), `TransitionEnded`, `CallReturns` |
| `prepare_provider` | `PrepareProvider`, `Prepares`, `ProviderBuilt`, `OldProviderClosed` |
| `suspend_provider_consumer`, `close` | `Retire`, `NothingToWaitFor`, `TearsDown`, `FaultTasksEnded` |
| `invalidate_intent` in the shutdown of the application | `FreezeIngress`, `FrozenCloses` |
| `_apply_generation` | `SupersededBody`, `TurnsOff`, `TurnsOn`, `Restarts`, `KeepsSession` |
| `_start_generation`, `_fail_start` | `AdmissionReturns`, `ProviderBuilt`, `OldProviderClosed`, `SourceOpened`, `LateSourceClosed`, `IngressStarted`, `StartReleased` |
| `_teardown` | `BeginsTeardown`, `LoopEnded`, `SourceClosed`, `DebtRetried`, `DebtsSettled`, `ProviderReleased` |
| `_transition_provider` and the handle's hand-over | `CandidateBuilt`, `Boundary`, `HandoffResumes`, `HandoffFails` |
| `CancelledError` at each await | `CancelledQuietly`, `CancelledClosing`, `CancelledReleasing`, `CancelledWaiting` |
| `_on_loop_task_done`, `_fault_generation`, `_on_terminal_provider_failure` | `LoopEnds`, `FaultRuns`, `ProviderFails`, `TerminalRuns` |
| idle release of a drained provider | `IdleRelease` |

`owner` holds the owner's fields, `runtime` the channel of the provider runtime:
`attached` is whose provider the handle has, `recorded` whose it is by the
runtime's records; they differ while a replacement closes the old provider, and
after one that was cancelled there.

Abstractions:

- Configurations differ in their provider and share the capture signature; a
  changed signature follows the path of a restart. A change of session options
  alone (`reconfigure`, 714-717), which replaces nothing, is left out. `local_gpu` behaves as
  `force_immediate` (an aborting release).
- The statuses PENDING and SUPERSEDED of a provider mutation, which the self
  channel's adapter never returns here, and the recovery of a GPU worker are left
  out, and so are warm-up and the reset of the audio gate, which change no field
  another action reads.
- Sections under `_state_lock` do not suspend, so they are parts of steps.
- The tasks that call the owner are not cancelled themselves.
- There are as many sources as calls: opening never waits for a free one.
- Between the freeze of the ingress and the session's close the shutdown awaits
  other owners; any step may happen there.

`SourcesAreAccounted` is the weakest statement about microphones that the code
keeps: a transition cancelled while its teardown closes the source
(`self_capture.py:969`) forgets it, and the property names that case. `Settled`
says what a user sees at rest: "running" exactly when there is a microphone with a
loop for an intent that still stands. That the loop is still alive is a statement
of its own, `LoopLossIsContained`, which the code does not keep (section 9).
`ClosedMeansReleased` waits for *every* call of close: two overlap, and the first
finds itself stale when the second moves the generation on, so only the last one
is sure to have torn the session down.

## 6. The broker's managed operation

A client asks for a provider key. The broker authorizes an *operation*, claims an
*attempt*, creates a child key at the provider under a name that says which
attempt it is, records it, reserves the installation's *entitlement* and
*identity* for it, and hands it out with a *delivery* that the client has to
acknowledge within fifteen minutes. Whatever a dead worker or a lost answer left
behind is reclaimed by a resumption of the client or by the scheduled worker: an
attempt whose outcome is unknown is reconciled (its key is looked for by name,
deleted, verified to be gone) before the next attempt is allowed.

The model is of one operation of one installation, from where its first request
left it. Each D1 statement or batch is atomic, provider calls may fail before or
after they take effect, and a worker may die between any two steps (`Die`).

| Code | Model |
|---|---|
| `handleManagedOperationResume` | `ResumeBegin`, `ResumeLatest`, `ResumeExpire`, `ResumeUnknown` |
| `reconcileUnknownAttempt`, `reconcileAttemptTarget` | `Target`, `Look`, `Find`, `LookupFails`, `Delete`, `DeleteFails`, `Verify`, `Clean`, `Ready` |
| `startManagedOperationAttempt`, `ensureDiscordRetryReservation` | `Start`, `Reserve`, `Reclaim`, `Rebind`, `CapReached` |
| `executeDiscordResumeIssuance` | `Refuse`, `Create`, `Record`, `Pend`, `Deliver`, `Settle`, `Indeterminate` |
| `handleManagedKeyDeliveryAck`, `finalizeDiscordManagedKeyDeliveryAck` | `AckBegin`, `AckFinalize`, `AckActivate` |
| `reconcileStaleManagedKeyDeliveries` | `StaleBegin`, `Claim`, `Recheck`, `Revoke`, `Shared`, `Complete`, `Escalate` |
| `sweepStaleManagedOperations` | `Expire`, `SweepCreating`, `SweepUnsettled`, `SweepDelivery`, `SweepDelete`, `SweepVerify` |

Abstractions:

- An attempt's key is the attempt's number; `keys` is the provider's side.
- An answer of the provider and the one conditional statement after it are one
  step, as are the read of a row and a statement conditional on what was read.
  The increment of `cleanup_attempts` and the FAILED transition are one step.
- Time: `Lapse` passes a delivery's deadline, `Expire` the authorization's hour.
  `SweepCreating` takes an attempt for abandoned only when no handler of it runs:
  creations do not outlast five minutes. The lifetime of a cleanup claim is left
  out: another run may take a claim over at any time.
- A scheduled run does its phases in any order, and there may be several.
- Other operations of the same subject do not exist: `findConflictingOperationDelivery`
  finds none, and `hasOtherLiveOperation`, whose caller's rows carry no operation
  id, excludes nothing.
- Left out: how the first issue request itself fails, the referral bonus and the
  verification of its limit, the QQ path (the same shape with its own tables),
  rate limits, telemetry, hardware binding, and the repair of a missing attempt row.

No liveness is stated: the only thing that must happen is the expiry of the
authorization, which ends an operation whatever else it does.

## 7. Runs

Runs named `turn_` are of `MCTranslationTurn`, `output_` of `MCOutputRuntime`,
`capture_` of `MCSelfCapture`, `operation_` of `MCManagedOperation`. Deadlock
checking is off in all of them: each program rests when the bounded environment
has made its calls.

| Run | Instance | Checks | Shows |
|---|---|---|---|
| `turn_order` | 3 single-child turns, admission failing, one controller with 2 of cancel, close, close and open ingress | `OutputsInTurnOrder`, `SemanticGate`, `CancelSparesLaterTurns`, `OrderInv` | outputs in turn order while providers answer in any order; a child is processed only when all earlier live turns are semantically done, although only one predecessor is looked at; a cancellation selects older turns only; the inductive invariant behind all three |
| `turn_faults` | a single and a dual-target turn, creation failing, submitter and children cancelled from outside, one cancel or close | `TypeOK`, `ClosedExactlyWhenComplete`, `LateChildrenAreInterrupted`, `LateCallbackRule`, `CancelDrainsGeneration`, `CloseLeavesNothing`, `ImplementsLedger` | with every fault the owner stays an implementation of the ledger, and close leaves no task behind |
| `turn_liveness` | a turn with 1 child and one with 2, admission failing, 2 controllers, 2 overlapping operations of cancel and close | `IInv`, `CancelDrainsGeneration`, `EveryTurnCloses`, `EveryOperationReturns` | the inductive invariant under overlapping operations; no turn stays open, no operation hangs |
| `output_delivery` | 2 publishers of 1 event, 2 sinks, 2 controllers, 3 calls, failing or hanging sink | `OutputTypeOK`, `OnceInv`, `OneDestination`, `DeliveredAtMostOnce`, `ControllersReturn`, `ClosingReleasesPublishers` | no delivery outlives its sink, no event is delivered twice; shutdown and replacement return although a sink may hang |
| `output_shutdown` | 1 publisher that may be cancelled, 2 controllers, 3 calls, every cleanup step failing | `InFlightExact`, `ClosedMeansReleased`, `ReleaseInv`, `QuietOnceClosing` | failed, repeated and overlapping calls of close end with everything released |
| `capture_order` | 3 calls of all seven kinds, 2 configurations, 3 sources, admissions, builds, releases, openings and source closings failing | `CaptureTypeOK`, `OnlyCurrentLoopPublishes`, `SourcesAreAccounted` | however transitions cancel each other, the lock is served in order, a loop that lingers publishes nothing, sources are closed or kept for a retry |
| `capture_faults` | 2 calls of on, off, prepare, close, 2 configurations, a provider failure, a loop that ends, ingress failing | `CaptureInv`, `Settled`, `ClosedMeansReleased`, `EveryCallReturns` | the inductive invariant; the reported state is true at rest, close is final, no call hangs but one whose handoff is stranded |
| `operation_recovery` | 2 request handlers, 1 scheduled worker, 2 requests, 3 attempts, 1 fault | `TypeOK`, `AcknowledgedOwnsEntitlement`, `ActiveIsAcknowledged`, `OneIssuedKey`, `OneHandlerIssues`, `AcknowledgementIsFinal`, `FailedOnlyActivates` | resumption, acknowledgement and cleanup may interleave at every statement |
| `turn_retired_output`, `turn_ingress`, `capture_lost_loop`, `operation_orphan` | | one property each | the disagreements of section 9 |

Bounds. `MaxOperations`, `MaxPublications`, `MaxCalls`, `MaxRequests` and the set
`Calls` bound the calls the environment makes; `MaxAttempts` and `MaxFaults` the
attempts and the faults of an operation; everything else is finite by itself.

Three turns are the least at which a turn has a predecessor that has one, which
`SemanticGate` and `OutputsInTurnOrder` depend on; two operations are the least
that overlap or follow each other (a cancellation after an ingress stop).
`turn_order` has one controller on purpose: when two cancellations overlap, the
first unblocks the channel for the second, turns admitted between the two are
selected by the second, and they start past unfinished turns that the first one
retired; then all three properties fail. Its only fault is a refused admission: a
turn that leaves the chain of predecessors because the creation of its children
failed, its submitter was cancelled, or its child was cancelled from outside while
it waited for the turn before it, lets the turn after it go ahead without waiting
(see the hazards).

Two sinks and a third call let a replacement and two calls of close meet, or a
close be repeated after a failed one while another overlaps; two publishers of
one event exercise duplicates in flight. Three capture calls are the least at
which a transition is cancelled while it waits for one that is cancelled itself,
and a third source is then opened while the first one is still being closed. In
`operation_recovery` two requests are the least that race for an attempt or set an
acknowledgement against a retry, and three attempts let each retry once; one fault
is a death, a refusal or a lost answer anywhere, and with `MaxCleanups` at 1 (5 in
the code) it can exhaust the cleanups. `operation_orphan` needs a fault in the
second attempt, and `MaxCleanups` at 2 so that it is not the cleanup limit that
stops the reconciliation.

`Faults` and `Aborts` name what may fail or be cancelled in a run, so that a
property that depends on their absence says so in its configuration. Turns,
publishers, sinks, controllers, calls, sources, configurations and request
handlers are symmetric where a run uses SYMMETRY; runs with liveness do not.

Fairness. Each task gets weak fairness for its own steps: the event loop resumes
every task that can go on, `asyncio.Lock` wakes waiters in order. For the turn
owner the return of an adapter is part of that: provider calls and adapters have
timeouts of their own, and a call that never returned would block the program
too. For the output runtime nothing is assumed of a sink, except that a
*cancelled* delivery ends (`CancelledEmitEnds`), and likewise of the owned tasks
(`CancelledTaskEnds`); a chatbox is synchronous. For the capture session the
ports (admission, provider, source) are assumed to answer, a cancelled loop to
end, and an utterance to reach its end while the loop runs and may publish
(`Speaking`). A loop that was not cancelled need not end. Nothing is assumed of
a handoff whose loop has ended: it waits, with the lock, for an end of speech that
nobody reports, until another intent cancels it. `EveryCallReturns` names that case
(`HandoffStranded`). No fairness is
assumed of the environment: nobody has to publish, cancel or close. The runs of
the managed operation assume none.

## 8. Proofs

The proofs hold for all values of the constants that satisfy `TurnAssumption`,
`OutputAssumption`, `CaptureAssumption` and `OperationAssumption`: any number of
turns, children, channels, controllers, publishers, sinks, calls, sources,
handlers and attempts, any bound. Unless a theorem states an assumption of its own,
they also hold for any set of faults and aborts.

Turn owner.

- `Invariance`: `Spec => []IInv`. `ClosedExactlyWhenComplete` and
  `LateChildrenAreInterrupted` are not inductive: whether a child may still be
  running when its turn closes depends on which task closes it and whom a
  cancellation reached before. `IInv` adds the place every kind of task may be
  at (`RolesOK`), what a submitter has reached (`SubmittersOK`), who terminalizes
  whose children (`TerminalsOK`), when children run relative to the turn's task
  (`RunnersOK`), that a cancellation reaches a turn's task and all its children
  together (`KillsOK`), that ended child tasks are recorded (`EndedOK`), what a
  cancellation has selected (`SelectionsOK`), that outputs come from child
  tasks past their submission (`OutputsOK`), where an operation is and which
  generation it retires (`OperationsOK`), and that nothing it retires is missing
  from its selection (`DrainOK`). `TranslationTurnSteps` has one lemma for each,
  with one step per action.
- `TypeCorrect`, `ClosesExactlyWhenComplete`, `InterruptsLateChildren` follow.
- `LateCallbacksRejected`: no output is submitted for a closed turn, a finished
  child or after `close` began. The code checks neither at the submission; it
  follows from `LateChildrenAreInterrupted` and `ClosedOK`.
- `CancelDrains`, `CloseDrains`: what a cancellation, and `close`, have done when
  they return. Neither looks again: a cancellation returns after a sweep over the
  turns it selected *before* it waited. By `DrainOK` no live turn of the retired
  generations is outside the selection, since turns submitted later are of a later
  generation, and the sweep ends only when every selected turn is closed.
- `RefinesLedger`: every step is a step of `TurnLedger` or leaves it unchanged.

The order of the turns rests on assumptions that the theorems name. Where they do
not hold TLC finds the properties violated, so they are not there for the proof's
convenience:

| Assumption | Without it |
|---|---|
| `OneController`: one cancelling operation at a time | a second cancellation selects turns that the first one's end let in; all three fail |
| no `"created"` in `Faults` | a turn with a child that cannot be created is closed early and leaves the line; `SemanticGate` and `OutputsInTurnOrder` fail |
| no `"submitter"` in `Aborts` | likewise; `SemanticGate` fails |
| `Aborts = {}` (for the outputs) | a turn whose child is cancelled while it waits for the one before it is closed and leaves no tail: the next turn delivers at once; `OutputsInTurnOrder` fails |
| `Dual = {}`: no turn with two target languages | such a turn waits for no predecessor, neither before it is processed nor before it delivers; `SemanticGate` and `OutputsInTurnOrder` fail |

- `SpareInvariance` and, from it, `SparesLaterTurns`, under `OneController`.
  `SpareInv` is `IInv` with `TurnsOK` (turns are numbered as they are submitted)
  and `SparesOK` (the channel of a cancellation stays blocked until its end, and
  all its turns are of retired generations).
- `GateInvariance` and `GatesSemantically`, under `Sequential`, which is all rows
  of the table but `Aborts = {}`. A child waits for *one* predecessor; that all
  earlier turns are done with processing needs the line of turns, `LineOK`: a
  channel that stays blocked after its cancellation has no live turn (`BlockedOK`), the lock is
  queued for in the order of the turns (`QueuesOK`), children run only under their
  turn's task (`StagesOK`), whoever is cancelled was selected, and only in a
  channel that is blocked (`CalmOK`), the tail is the last admitted live turn, or
  the turns still there have nothing left to process (`TailsOK`), each turn is
  admitted right behind the one before it (`ChainOK`), and a turn whose children
  run has only processed ones ahead (`GateOK`). None of this has to hold once
  `close` has begun, when no child executes.
- `OrderInvariance` and `PublishesInTurnOrder`, under `Sequential` and
  `Aborts = {}`. `OrderInv` adds that results which count are still to be
  reported (`ReportsOK`), that who delivers was ready to (`ReadyOK`), that a turn
  whose predecessor is closed has no earlier live turn (`FrontOK`), and that no
  turn earlier than one that published is live (`PublishedOK`).

The three are not proved action by action. `TranslationTurnLine` first shows that
a step does one of a few things to the line of turns (`OpenEffects`: a turn is
registered, admitted, withdrawn or run, its submitter or a child moves, a report
returns, an operation steers), `TranslationTurnProofs` does the same for what the
outputs rest on (`OrderEffects`); each part is then preserved by each effect.

Output runtime.

- `OutputInvariance`: `OutputInv` = types, `LockOK`, `DeliveryOK` is inductive.
  The argument: a controller that waits for deliveries holds the lock and waits
  for all of them; a delivery starts only under the lock; so when the wait is
  over none is left, and the sink may change and the identities in flight be
  forgotten. `OutputTypes`, `DeliversToCurrentSink` and `InFlightIsExact` follow.
- `ClosingIsQuiet`: once closing, no delivery starts and no message is added.
- `ReleaseInvariance` and `ClosedIsReleased`: `ReleaseOK` says of each call of
  `close` what it has gone past: that stays retired, because whatever could bring it back reads a state
  that is never "open" again, or the call will end as failed.
- `OnceInvariance` and `DeliversAtMostOnce`: under `Aborts = {}`, each event is
  delivered at most once. `OnceOK`: an emit that returned keeps its identity in flight until the
  publisher remembers it. With cancelled publishers it is false: a publishing
  task cancelled between the end of its delivery and its own resumption drops the
  identity without remembering it, and published again the event is delivered
  again. No run has that case; `output_shutdown`, with `Aborts = {"publisher"}`,
  does not check the property.

Managed operation.

- `OperationInvariance`: `IInv /\ KInv /\ BInv`. From it `OperationTypes`,
  `OneIssuer`, `ActiveByAcknowledgement`, `AcknowledgedIsEntitled` and `OneKey`,
  one for each invariant of the run. None is inductive but the types, and those
  need `BInv`, the ranges of the counters. A handler is
  alone with its attempt because it works on the current one, and while it does the
  operation is CREATING, or finished behind its back (`IssuesCurrent`); the attempt
  it claims has no delivery yet (`FreshAttempt`); an acknowledgement names a
  delivery that was found (`NamesDelivery`). An acknowledgement is one batch guarded
  by the entitlement's reference, and everything that moves the entitlement away is
  guarded by its not being active: hence `AcknowledgedOwnsEntitlement`.
  `OneIssuedKey` follows from `KeysOwned`: a live key whose delivery is open or
  confirmed is the one the entitlement names, and a retry lets the entitlement go
  only after it has deleted that key. `StepFacts` has one step per action.
- `AcknowledgementFinal` and `FailureFinal`: the two action properties, from the
  same invariant.

Self capture.

- `CaptureInvariance`: `Spec => []CaptureInv`. What the properties say at rest
  depends on who is going to repair what is out of order now. `CaptureInv` says
  that the lock holds each task past its start once, the first one alone inside
  (`LockOK`); which task runs which body, and where its caller is (`Roles`,
  `Callers`); that every intent but the last was cancelled (`Transitions`); that a
  body inside the lock that replaces the session has taken source and loop away
  (`OneSession`), and holds the source if anybody does (`Holding`); that calls
  have generations of their own and loops of earlier sessions are bound to earlier
  ones (`Generations`, `Outdated`); that a session with a source runs and is
  wanted, or a call that was neither cancelled nor superseded will look after it
  (`Attended`); and that after a close only calls of close get inside (`Closing`).
- The argument: `BodyEffects` shows that whatever step a task makes inside or
  at the lock has one of nine effects on the session (it gets the lock, leaves the
  session or leaves nothing, reports it running or faulted, takes it for its own
  generation or for a fault, moves on, opens it), `CallEffects` that a caller's
  step has one of six; each part of the invariant is preserved by each effect.
- `LockTypes`, `SourcesAccounted`, `CurrentLoopPublishes`, `RestIsSettled` and
  `CloseReleases` follow, one for each invariant of the runs.

Only model-checked: everything under fairness (`EveryTurnCloses`,
`EveryOperationReturns`, `ControllersReturn`, `ClosingReleasesPublishers`,
`EveryCallReturns`): TLAPS proves neither liveness under fairness nor facts about
ENABLED. The four properties of section 9 are false, and their counterexamples
come from TLC.

## 9. Where code and documents disagree

- `RetiredTurnsPublishNothing` (run `turn_retired_output`). `ARCHITECTURE.md:354`:
  "Retired work must not mutate current state or publish user-visible output."
  A cancellation retires the generation and then waits for the admission lock,
  while an earlier turn passes its predecessor's event and submits. What does
  hold is `LateCallbackRule`.
- `ClosedIngressStaysClosed` (run `turn_ingress`). `ARCHITECTURE.md:389` stops
  ingress before it cancels work; a cancellation after `close_channel_ingress`
  unblocks the channel in its `finally`, whoever blocked it. `CancelReturns` and
  `CancelFindsNothing` reset `blocked`.
- `LoopLossIsContained` (run `capture_lost_loop`).
  `tests/core/runtime/test_self_capture_session.py:761` is
  "test_loop_failure_is_contained_and_releases_all_owned_resources". A loop that
  ends starts a fault task with the generation of that moment. An intent to capture
  that is declared before the fault task has the lock moves the generation on: the
  fault is stale, the intent finds the state RUNNING and keeps the session, with
  its dead loop and its open microphone. The window is a turn of the event loop, or
  as long as a handoff that holds the lock waits for the end of an utterance.
- `FoundKeyIsDeleted` (run `operation_orphan`).
  `broker/tests/managed-operation.spec.ts:146`: "reconciles an orphan provider key
  by name, verifies cleanup, then allows attempt two". That holds for attempt one.
  A retry, however, records the entitlement's *old* key on the *new* attempt
  (`discord-managed-issue.ts:2914`) in order to delete it. If the answer to the
  creation that follows is lost, the reconciliation finds the new key by name and
  deletes the recorded one (`managed-operation.ts:622`), which is gone already; a
  404 counts as deleted. Verification finds the new key alive, now and at every
  later reconciliation, until the authorization expires and the key stays. The
  trace: delivery 1 lapses and is swept, the client resumes, the creation of key 2
  loses its answer, the next sweep reconciles.

## 10. Not modelled

Everything `PROJECT.json` lists as `not_modelled`; section 2 says what is
planned. The components listed as `partly` name what they leave out. Out of reach or not worth a model: provider protocols and parsing, VAD
signal processing, overlay layout and fades, UI rendering, native workers,
installers. Wall-clock time appears nowhere: a timeout is a step that may be
taken. Memory that only grows (`_closed_parent_ids`, `_delivered_publications`)
is noted as a hazard without a property.
