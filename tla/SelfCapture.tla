---------------------------- MODULE SelfCapture ----------------------------
(***************************************************************************)
(* SelfCaptureSessionOwner (core/runtime/self_capture.py) and what its     *)
(* provider adapter does with the speech provider of the self channel.     *)
(*                                                                         *)
(* Callers declare an intent (on, off, restart, prepare, suspend, close).  *)
(* An intent cancels the transition of the one before it, waits for it and *)
(* runs its own transition in a task of its own, under the activation lock.*)
(* The capture loop and the provider report their failures through tasks   *)
(* that take the same lock.  `pc' names the await a task is suspended in.  *)
(***************************************************************************)
EXTENDS Naturals, Sequences, FiniteSets

CONSTANTS
    Calls,        \* calls the environment makes, each made at most once
    Kinds,        \* what they call, see Start
    Configs,      \* session configurations; they differ in the provider only
    Sources,      \* audio sources (microphone streams)
    Failures,     \* terminal failures reported by a provider
    Faults,       \* what may fail, see MayFail
    None

ASSUME CaptureAssumption ==
    /\ None \notin Calls \cup Configs \cup Sources \cup Failures
    /\ Calls \cap Sources = {} /\ Calls \cap Failures = {}
    /\ Sources \cap Failures = {}

VARIABLES
    owner,        \* the fields of SelfCaptureSessionOwner
    mic,          \* what became of each source: "unused", "open", "closed"
    capture,      \* the loop task of each source
    bound,        \* _CaptureGeneration.value of the loop of each source
    runtime,      \* the self channel of the provider runtime
    queue,        \* holder of _activation_lock, then the tasks waiting for it
    transition,   \* _transition_task: the call whose task it is
    caller, waits,\* where the caller of each call is, whose task it awaits
    pc, loc,      \* where each task is, and its locals
    killed        \* tasks whose cancellation was requested

vars == <<owner, mic, capture, bound, runtime, queue, transition, caller,
          waits, pc, loc, killed>>

\* A call runs in its transition task (or in its caller), a source has the task
\* for the fault of its loop, a failure the callback of the provider.
Tasks == Calls \cup Sources \cup Failures

NoLocals == [kind |-> "none", gen |-> 0, config |-> None, force |-> FALSE,
             src |-> None, loop |-> None, debts |-> {}, failed |-> FALSE,
             mode |-> "abort", target |-> "STOPPED", preserve |-> FALSE,
             release |-> TRUE, then |-> "end"]

Init ==
    /\ owner = [desired |-> FALSE, generation |-> 0, state |-> "STOPPED",
                status |-> "DETACHED", config |-> None, signature |-> None,
                token |-> None, closed |-> FALSE, source |-> None,
                loop |-> None, retired |-> {}]
    /\ mic = [s \in Sources |-> "unused"]
    /\ capture = [s \in Sources |-> "none"]
    /\ bound = [s \in Sources |-> 0]
    /\ runtime = [attached |-> None, recorded |-> None, pending |-> None,
                  idle |-> FALSE, debt |-> FALSE]
    /\ queue = <<>>
    /\ transition = None
    /\ caller = [c \in Calls |-> "idle"]
    /\ waits = [c \in Calls |-> None]
    /\ pc = [t \in Tasks |-> "none"]
    /\ loc = [t \in Tasks |-> NoLocals]
    /\ killed = {}

MayFail(what) == what \in Faults

-----------------------------------------------------------------------------
(* Generations *)

Superseded(o, g) == g # o.generation \/ o.closed

\* mutant: the start goes on although the intent was withdrawn.
StaleWhenSuperseded(o, g) == Superseded(o, g)

Stale(o, g) == Superseded(o, g) \/ ~o.desired

\* mutant: events are let through while any loop of the session runs.
PublishesWhileRunning(s) ==
    owner.desired /\ owner.state = "RUNNING" /\ owner.loop # None

\* is_current_generation, asked for an event of the loop of s.
Publishes(s) ==
    /\ bound[s] = owner.generation
    /\ owner.desired
    /\ owner.state = "RUNNING"
    /\ owner.loop # None

Rebound(o, g) ==
    IF o.loop = None THEN bound ELSE [bound EXCEPT ![o.loop] = g]

-----------------------------------------------------------------------------
(* Callers *)

Live(t) == pc[t] \notin {"none", "done"}

\* Cancelling a task that is done has no effect.
WithKilled(ts) == killed \cup {t \in ts : Live(t)}

\* mutant: the transition before is left running.
PendingIgnored == {}

Pending == {transition} \ {None}

\* apply_intent up to its first await.
ApplyIntent(c, kind, config, force) ==
    LET g == owner.generation + 1 IN
    /\ ~owner.closed
    /\ owner' = [owner EXCEPT !.generation = g, !.desired = kind # "off"]
    /\ bound' = IF kind = "on" /\ owner.state = "RUNNING"
                THEN Rebound(owner, g) ELSE bound
    /\ transition' = c
    /\ pc' = [pc EXCEPT ![c] = "start"]
    /\ loc' = [loc EXCEPT ![c] = [NoLocals EXCEPT
                  !.kind = kind, !.gen = g, !.config = config, !.force = force]]
    /\ killed' = WithKilled(Pending)
    /\ caller' = [caller EXCEPT ![c] = "awaiting"]
    /\ waits' = [waits EXCEPT ![c] = transition]
    /\ UNCHANGED <<mic, capture, runtime, queue>>

\* prepare_provider, when nothing is captured and nothing is to be.
PrepareProvider(c, config) ==
    LET g == owner.generation + 1 IN
    /\ ~owner.closed
    /\ ~owner.desired /\ owner.source = None /\ owner.loop = None
    /\ owner' = [owner EXCEPT !.generation = g, !.config = config,
                              !.state = "STARTING", !.status = "PENDING"]
    /\ pc' = [pc EXCEPT ![c] = "start"]
    /\ loc' = [loc EXCEPT ![c] = [NoLocals EXCEPT
                  !.kind = "prepare", !.gen = g, !.config = config]]
    /\ caller' = [caller EXCEPT ![c] = "awaiting"]
    /\ UNCHANGED <<mic, capture, bound, runtime, queue, transition, waits,
                   killed>>

\* suspend_provider_consumer and close up to the wait for the transition task.
Retire(c, kind) ==
    LET g == owner.generation + 1 IN
    /\ kind = "suspend" => ~owner.closed
    /\ owner' = [owner EXCEPT !.generation = g, !.state = "STOPPING",
                              !.closed = @ \/ kind = "close",
                              !.desired = @ /\ kind # "close"]
    /\ transition' = None
    /\ killed' = WithKilled(Pending)
    /\ loc' = [loc EXCEPT ![c] = [NoLocals EXCEPT !.kind = kind, !.gen = g]]
    /\ caller' = [caller EXCEPT ![c] = "retiring"]
    /\ waits' = [waits EXCEPT ![c] = transition]
    /\ UNCHANGED <<mic, capture, bound, runtime, queue, pc>>

\* invalidate_intent does not suspend.
Invalidated == [owner EXCEPT !.desired = FALSE, !.generation = @ + 1]

\* The shutdown of the application invalidates the intent when it freezes the
\* ingress; other owners are closed before the session is.
FreezeIngress(c) ==
    /\ owner' = Invalidated
    /\ caller' = [caller EXCEPT ![c] = "frozen"]
    /\ UNCHANGED <<mic, capture, bound, runtime, queue, transition, waits, pc,
                   loc, killed>>

Start(c) ==
    /\ caller[c] = "idle"
    /\ \/ \E k \in Kinds \cap {"on", "restart"}, f \in Configs :
            \E force \in IF k = "restart" THEN BOOLEAN ELSE {FALSE} :
              ApplyIntent(c, k, f, force)
       \/ "off" \in Kinds /\ ApplyIntent(c, "off", None, FALSE)
       \/ "prepare" \in Kinds /\ \E f \in Configs : PrepareProvider(c, f)
       \/ \E k \in Kinds \cap {"suspend", "close"} : Retire(c, k)
       \/ "shutdown" \in Kinds /\ FreezeIngress(c)

FrozenCloses(c) == caller[c] = "frozen" /\ Retire(c, "close")

\* The transition the caller waits for has ended: close and suspend go on to
\* the activation lock.
TransitionEnded(c) ==
    /\ waits[c] # None /\ ~Live(waits[c])
    /\ waits' = [waits EXCEPT ![c] = None]
    /\ \/ /\ caller[c] = "retiring"
          /\ pc' = [pc EXCEPT ![c] = "start"]
          /\ caller' = [caller EXCEPT ![c] = "awaiting"]
       \/ /\ caller[c] = "awaiting"
          /\ UNCHANGED <<pc, caller>>
    /\ UNCHANGED <<owner, mic, capture, bound, runtime, queue, transition, loc,
                   killed>>

\* With no transition to wait for, they go on without suspending.
NothingToWaitFor(c) ==
    /\ caller[c] = "retiring" /\ waits[c] = None
    /\ pc' = [pc EXCEPT ![c] = "start"]
    /\ caller' = [caller EXCEPT ![c] = "awaiting"]
    /\ UNCHANGED <<owner, mic, capture, bound, runtime, queue, transition,
                   waits, loc, killed>>

\* A call returns when its body has ended; close cancels the fault tasks before,
\* unless its teardown raised.
CallReturns(c) ==
    /\ caller[c] = "awaiting" /\ waits[c] = None /\ pc[c] = "done"
    /\ IF loc[c].kind = "close" /\ ~loc[c].failed
       THEN /\ killed' = WithKilled(Sources)
            /\ caller' = [caller EXCEPT ![c] = "faults"]
       ELSE /\ caller' = [caller EXCEPT ![c] = "returned"]
            /\ UNCHANGED killed
    /\ transition' = IF transition = c THEN None ELSE transition
    /\ UNCHANGED <<owner, mic, capture, bound, runtime, queue, waits, pc, loc>>

FaultTasksEnded(c) ==
    /\ caller[c] = "faults"
    /\ \A s \in Sources : s \in killed => ~Live(s)
    /\ caller' = [caller EXCEPT ![c] = "closed"]
    /\ UNCHANGED <<owner, mic, capture, bound, runtime, queue, transition,
                   waits, pc, loc, killed>>

-----------------------------------------------------------------------------
(* Pieces of a body.  A body is a task at the head of the queue. *)

\* The task gives up the lock, or its place among those waiting for it, if it
\* has one.
LeavesLock(t) ==
    \/ /\ \A i \in DOMAIN queue : queue[i] # t
       /\ UNCHANGED queue
    \/ \E i \in DOMAIN queue :
         /\ queue[i] = t
         /\ queue' = SubSeq(queue, 1, i - 1) \o SubSeq(queue, i + 1, Len(queue))

\* mutant: the task ends without leaving the lock.
EndsHoldingLock(t, failed) ==
    /\ pc' = [pc EXCEPT ![t] = "done"]
    /\ loc' = [loc EXCEPT ![t] = [NoLocals EXCEPT !.kind = loc[t].kind,
                                                  !.failed = failed]]
    /\ UNCHANGED queue

\* The task leaves the lock and ends; failed says that it raised.
Ends(t, failed) ==
    /\ LeavesLock(t)
    /\ pc' = [pc EXCEPT ![t] = "done"]
    /\ loc' = [loc EXCEPT ![t] = [NoLocals EXCEPT !.kind = loc[t].kind,
                                                  !.failed = failed]]

Goes(t, place) ==
    /\ pc' = [pc EXCEPT ![t] = place]
    /\ UNCHANGED queue

GoesOn(t, place) == Goes(t, place) /\ UNCHANGED loc

\* _teardown up to its first await.  o holds the owner's fields, td the
\* arguments.
BeginsTeardown(t, o, td) ==
    /\ owner' = [o EXCEPT !.source = None, !.loop = None, !.state = "STOPPING"]
    /\ capture' = IF o.loop # None /\ capture[o.loop] = "running"
                  THEN [capture EXCEPT ![o.loop] = "cancelling"] ELSE capture
    /\ loc' = [loc EXCEPT ![t] =
                 [td EXCEPT !.src = o.source, !.loop = o.loop,
                            !.debts = o.retired, !.failed = FALSE]]
    /\ Goes(t, "loop")
    /\ UNCHANGED <<mic, bound>>

\* _fault_generation_locked, for the generation g.
FaultsLocked(t, g) ==
    IF Stale(owner, g)
    THEN /\ Ends(t, FALSE)
         /\ UNCHANGED <<owner, mic, capture, bound>>
    ELSE BeginsTeardown(t, Invalidated,
           [NoLocals EXCEPT !.kind = loc[t].kind, !.gen = owner.generation + 1,
                            !.target = "FAULTED"])

\* _start_generation up to the admission.
BeginsStart(t, o) ==
    /\ owner' = [o EXCEPT !.state = "STARTING", !.config = loc[t].config]
    /\ GoesOn(t, "admission")
    /\ UNCHANGED <<mic, capture, bound, runtime>>

\* _fail_start with the fields o; status is the provider status it ends with.
FailsStart(t, o, desired, status, releases) ==
    IF Superseded(o, loc[t].gen)
    THEN owner' = o /\ Ends(t, FALSE)
    ELSE IF releases
    THEN /\ owner' = [o EXCEPT !.state = "FAULTED", !.desired = desired,
                               !.status = "RELEASING"]
         /\ GoesOn(t, "failRelease")
    ELSE /\ owner' = [o EXCEPT !.state = "FAULTED", !.desired = desired,
                               !.status = status]
         /\ Ends(t, FALSE)

\* is_ready of the adapter and _attached_provider_matches.
HasResources == runtime.attached # None \/ runtime.debt
IsReady(f) == runtime.recorded = f /\ HasResources
AttachedMatches(f) == IsReady(f) /\ owner.signature = f

-----------------------------------------------------------------------------
(* The activation lock *)

Locks(t) ==
    /\ pc[t] = "start" /\ t \notin killed
    /\ queue' = Append(queue, t)
    /\ pc' = [pc EXCEPT ![t] = "lock"]
    /\ UNCHANGED <<owner, mic, capture, bound, runtime, transition, caller,
                   waits, loc, killed>>

\* The task resumes from the await it is suspended in, and is not cancelled.
At(t, place) == pc[t] = place /\ t \notin killed

\* mutant: nobody waits for the lock.
AcquiredByAny(t) == At(t, "lock")

Acquired(t) ==
    /\ At(t, "lock") /\ queue # <<>> /\ Head(queue) = t

Held == <<mic, capture, bound, runtime>>
Outside == <<transition, caller, waits, killed>>

\* A superseded transition does nothing.
SupersededBody(t) ==
    /\ Acquired(t) /\ t \in Calls
    /\ loc[t].kind \in {"on", "restart", "off", "prepare"}
    /\ Superseded(owner, loc[t].gen)
    /\ Ends(t, FALSE)
    /\ UNCHANGED <<owner, Held, Outside>>

\* _apply_generation of an intent to stop: the provider is released also when
\* its status says that there is none.
TurnsOff(t) ==
    /\ Acquired(t) /\ loc[t].kind = "off"
    /\ ~Superseded(owner, loc[t].gen)
    /\ BeginsTeardown(t,
         [owner EXCEPT !.status = IF @ = "DETACHED" THEN "READY" ELSE @], loc[t])
    /\ UNCHANGED <<runtime, Outside>>

\* _apply_generation of an intent to capture while nothing is to be torn down.
TurnsOn(t) ==
    LET l == loc[t] IN
    /\ Acquired(t) /\ l.kind \in {"on", "restart"}
    /\ ~Superseded(owner, l.gen)
    /\ owner.state = "RUNNING" => l.kind = "restart"
    /\ owner.source = None /\ owner.loop = None
    /\ BeginsStart(t, owner)
    /\ UNCHANGED Outside

\* The session is replaced: what there is, is torn down first.
Restarts(t) ==
    LET l == loc[t] IN
    /\ Acquired(t) /\ l.kind \in {"on", "restart"}
    /\ ~Superseded(owner, l.gen)
    /\ owner.state = "RUNNING" => l.kind = "restart"
    /\ owner.source # None \/ owner.loop # None
    /\ BeginsTeardown(t, owner,
         [l EXCEPT !.mode = IF l.force THEN "abort" ELSE "drain",
                   !.preserve = TRUE, !.then = "start"])
    /\ UNCHANGED <<runtime, Outside>>

\* The session goes on with the same or another provider (the signature is that of
\* the configuration it runs with).
KeepsSession(t) ==
    LET l == loc[t] IN
    /\ Acquired(t) /\ l.kind = "on"
    /\ ~Superseded(owner, l.gen)
    /\ owner.state = "RUNNING"
    /\ bound' = Rebound(owner, l.gen)
    /\ IF owner.config = l.config
       THEN Ends(t, FALSE) /\ UNCHANGED owner
       ELSE /\ owner' = [owner EXCEPT !.status = "PENDING"]
            /\ GoesOn(t, "handoff")
    /\ UNCHANGED <<mic, capture, runtime, Outside>>

\* prepare_provider, suspend_provider_consumer and close under the lock.
Prepares(t) ==
    LET l == loc[t] IN
    /\ Acquired(t) /\ l.kind = "prepare"
    /\ ~Superseded(owner, l.gen)
    /\ IF AttachedMatches(l.config)
       THEN /\ owner' = [owner EXCEPT !.status = "READY", !.state = "STOPPED"]
            /\ Ends(t, FALSE)
       ELSE UNCHANGED owner /\ GoesOn(t, "replace")
    /\ UNCHANGED <<Held, Outside>>

TearsDown(t) ==
    LET l == loc[t] IN
    /\ Acquired(t) /\ l.kind \in {"suspend", "close"}
    /\ IF l.gen # owner.generation
       THEN Ends(t, FALSE) /\ UNCHANGED <<owner, mic, capture, bound>>
       ELSE BeginsTeardown(t, owner,
              [l EXCEPT !.preserve = l.kind = "suspend",
                        !.release = l.kind = "close"])
    /\ UNCHANGED <<runtime, Outside>>

-----------------------------------------------------------------------------
(* _teardown *)

\* The loop task that teardown waits for has ended.
LoopGathered(l) == l # None => capture[l] = "ended"

LoopEnded(t) ==
    /\ At(t, "loop") /\ LoopGathered(loc[t].loop)
    /\ GoesOn(t, IF loc[t].src = None THEN "debts" ELSE "closing")
    /\ UNCHANGED <<owner, Held, Outside>>

\* mutant: a source that could not be closed is forgotten.
Forgotten(s) == owner.retired

\* _retain_source.
Retained(s) == owner.retired \cup {s}

SourceClosed(t) ==
    LET s == loc[t].src IN
    /\ At(t, "closing")
    /\ \/ /\ mic' = [mic EXCEPT ![s] = "closed"]
          /\ loc' = [loc EXCEPT ![t].src = None]
          /\ UNCHANGED owner
       \/ /\ MayFail("source")
          /\ owner' = [owner EXCEPT !.retired = Retained(s)]
          /\ loc' = [loc EXCEPT ![t].src = None, ![t].failed = TRUE]
          /\ UNCHANGED mic
    /\ Goes(t, "debts")
    /\ UNCHANGED <<capture, bound, runtime, Outside>>

\* _retry_cleanup_debt: each source that could not be closed is tried again.
DebtRetried(t) ==
    /\ At(t, "debts")
    /\ \E s \in loc[t].debts :
         \/ /\ mic' = [mic EXCEPT ![s] = "closed"]
            /\ owner' = [owner EXCEPT !.retired = @ \ {s}]
            /\ loc' = [loc EXCEPT ![t].debts = @ \ {s}]
         \/ /\ MayFail("source")
            /\ loc' = [loc EXCEPT ![t].debts = @ \ {s}, ![t].failed = TRUE]
            /\ UNCHANGED <<mic, owner>>
    /\ UNCHANGED <<pc, queue, capture, bound, runtime, Outside>>

\* The end of _teardown, with the owner's fields o.  A restart goes on with the
\* start unless its generation is stale.
FinishesTeardown(t, o, failed) ==
    LET l == loc[t]
        p == [o EXCEPT !.desired = @ /\ l.preserve,
                       !.state = IF failed THEN "FAULTED" ELSE l.target] IN
    IF l.then = "start" /\ ~failed /\ ~Stale(p, l.gen)
    THEN /\ owner' = [p EXCEPT !.state = "STARTING", !.config = l.config]
         /\ loc' = [loc EXCEPT ![t] = [NoLocals EXCEPT !.kind = l.kind,
                                         !.gen = l.gen, !.config = l.config]]
         /\ Goes(t, "admission")
    ELSE owner' = p /\ Ends(t, failed)

DebtsSettled(t) ==
    /\ At(t, "debts") /\ loc[t].debts = {}
    /\ IF loc[t].release /\ owner.status # "DETACHED"
       THEN /\ owner' = [owner EXCEPT !.status = "RELEASING"]
            /\ GoesOn(t, "release")
       ELSE FinishesTeardown(t, owner, loc[t].failed)
    /\ UNCHANGED <<Held, Outside>>

\* What a release makes of the channel: drain keeps the provider, and may leave
\* a timer that releases it; abort detaches it.
Released(mode) ==
    \/ /\ mode = "drain"
       /\ \E idle \in BOOLEAN :
            runtime' = [runtime EXCEPT !.idle = idle /\ runtime.attached # None]
    \/ /\ mode = "abort"
       /\ runtime' = [runtime EXCEPT !.attached = None, !.recorded = None,
                                     !.idle = FALSE]

\* Releasing raises after the provider was detached; the handle keeps it.
ReleasedWithDebt ==
    /\ MayFail("release") /\ runtime.attached # None
    /\ runtime' = [runtime EXCEPT !.attached = None, !.recorded = None,
                                  !.idle = FALSE, !.debt = TRUE]

Detached(o, mode) ==
    [o EXCEPT !.status = "DETACHED", !.token = None,
              !.signature = IF mode = "abort" THEN None ELSE @]

ProviderReleased(t) ==
    LET mode == loc[t].mode IN
    /\ At(t, "release")
    /\ \/ /\ Released(mode)
          /\ FinishesTeardown(t, Detached(owner, mode), loc[t].failed)
       \/ /\ mode = "abort" /\ ReleasedWithDebt
          /\ FinishesTeardown(t, owner, TRUE)
    /\ UNCHANGED <<mic, capture, bound, Outside>>

-----------------------------------------------------------------------------
(* _start_generation *)

\* The provider is attached already, or it is replaced.
GoesForProvider(t) ==
    IF AttachedMatches(loc[t].config)
    THEN /\ owner' = [owner EXCEPT !.status = "READY"]
         /\ GoesOn(t, "opening")
    ELSE /\ owner' = [owner EXCEPT !.status = "PENDING"]
         /\ GoesOn(t, "replace")

\* The admission port answers or raises; a rejection may invalidate the intent,
\* see LocalASRApplicationOwner._invalidate_self.
AdmissionReturns(t) ==
    LET g == loc[t].gen IN
    /\ At(t, "admission")
    /\ \/ /\ MayFail("admission")
          /\ FailsStart(t, owner, owner.desired, "DETACHED", FALSE)
       \/ /\ Stale(owner, g)
          /\ Ends(t, FALSE) /\ UNCHANGED owner
       \/ /\ MayFail("admission")
          /\ owner' = Invalidated
          /\ Ends(t, FALSE)
       \/ /\ ~Stale(owner, g) /\ MayFail("admission")
          /\ \/ /\ owner' = [owner EXCEPT !.state = "ADMISSION_PENDING",
                                          !.status = "PENDING"]
                /\ Ends(t, FALSE)
             \/ \E retain \in BOOLEAN :
                  FailsStart(t, owner, retain, "DETACHED", FALSE)
       \/ ~Stale(owner, g) /\ GoesForProvider(t)
    /\ UNCHANGED <<Held, Outside>>

\* What follows a replacement, by kind of body.
ReplaceFails(t) ==
    IF loc[t].kind = "prepare"
    THEN /\ owner' = IF Superseded(owner, loc[t].gen) THEN owner
                     ELSE [owner EXCEPT !.status = "FAILED", !.state = "FAULTED"]
         /\ Ends(t, FALSE)
    ELSE IF Stale(owner, loc[t].gen)
    THEN /\ owner' = [owner EXCEPT !.status = "RELEASING"]
         /\ GoesOn(t, "staleRelease")
    ELSE FailsStart(t, owner, FALSE, "FAILED", FALSE)

ReplaceSucceeds(t) ==
    LET l == loc[t]
        o == [owner EXCEPT !.status = "READY", !.signature = l.config,
                           !.token = t] IN
    IF l.kind = "prepare"
    THEN /\ owner' = IF Superseded(owner, l.gen) THEN owner
                     ELSE [o EXCEPT !.state = "STOPPED"]
         /\ Ends(t, FALSE)
    ELSE IF Stale(owner, l.gen)
    THEN /\ owner' = [owner EXCEPT !.status = "RELEASING"]
         /\ GoesOn(t, "staleRelease")
    ELSE owner' = o /\ GoesOn(t, "opening")

\* The new provider is built, or is not.  Then it takes the place of the old
\* one, which is closed: until that is over the owner of the runtime has not
\* recorded whose provider the channel has.
ProviderBuilt(t) ==
    LET f == loc[t].config IN
    /\ At(t, "replace")
    /\ \/ /\ MayFail("build")
          /\ ReplaceFails(t) /\ UNCHANGED runtime
       \/ /\ runtime.attached # None
          /\ runtime' = [runtime EXCEPT !.attached = f, !.idle = FALSE]
          /\ GoesOn(t, "swap") /\ UNCHANGED owner
       \/ /\ runtime.attached = None
          /\ runtime' = [runtime EXCEPT !.attached = f, !.recorded = f,
                                        !.idle = FALSE]
          /\ ReplaceSucceeds(t)
    /\ UNCHANGED <<mic, capture, bound, Outside>>

OldProviderClosed(t) ==
    LET f == loc[t].config IN
    /\ At(t, "swap")
    /\ \/ /\ runtime' = [runtime EXCEPT !.recorded = f]
          /\ ReplaceSucceeds(t)
       \/ /\ MayFail("release")
          /\ runtime' = [runtime EXCEPT !.recorded = f, !.debt = TRUE]
          /\ ReplaceFails(t)
    /\ UNCHANGED <<mic, capture, bound, Outside>>

\* The source is opened and its loop started, or opening fails.  A source that
\* comes too late is closed at once.
SourceOpened(t) ==
    LET g == loc[t].gen IN
    /\ At(t, "opening")
    /\ \/ /\ MayFail("open")
          /\ FailsStart(t, owner, FALSE, "DETACHED", TRUE)
          /\ UNCHANGED <<mic, capture, bound>>
       \/ \E s \in Sources :
            /\ mic[s] = "unused"
            /\ mic' = [mic EXCEPT ![s] = "open"]
            /\ IF Stale(owner, g)
               THEN /\ loc' = [loc EXCEPT ![t].src = s]
                    /\ Goes(t, "lateClose")
                    /\ UNCHANGED <<owner, capture, bound>>
               ELSE /\ owner' = [owner EXCEPT !.source = s, !.loop = s]
                    /\ capture' = [capture EXCEPT ![s] = "running"]
                    /\ bound' = [bound EXCEPT ![s] = g]
                    /\ GoesOn(t, "ingress")
    /\ UNCHANGED <<runtime, Outside>>

LateSourceClosed(t) ==
    /\ At(t, "lateClose")
    /\ mic' = [mic EXCEPT ![loc[t].src] = "closed"]
    /\ loc' = [loc EXCEPT ![t].src = None]
    /\ owner' = [owner EXCEPT !.status = "RELEASING"]
    /\ Goes(t, "staleRelease")
    /\ UNCHANGED <<capture, bound, runtime, Outside>>

\* start_ingress of the adapter: the channel must be the configured one's.
\* The session is reported running whatever became of the intent meanwhile.
IngressStarted(t) ==
    /\ At(t, "ingress")
    /\ \/ /\ IsReady(loc[t].config)
          /\ owner' = [owner EXCEPT !.state = "RUNNING"]
          /\ Ends(t, FALSE)
          /\ UNCHANGED <<mic, capture, bound>>
       \/ /\ ~IsReady(loc[t].config) \/ MayFail("ingress")
          /\ FaultsLocked(t, loc[t].gen)
    /\ runtime' = [runtime EXCEPT !.idle = FALSE]
    /\ UNCHANGED Outside

\* _release_provider in _fail_start and for a stale start.
StartReleased(t) ==
    /\ pc[t] \in {"failRelease", "staleRelease"} /\ t \notin killed
    /\ owner' = Detached(owner, "abort")
    /\ \/ Released("abort") /\ Ends(t, FALSE)
       \/ ReleasedWithDebt /\ Ends(t, TRUE)
    /\ UNCHANGED <<mic, capture, bound, Outside>>

-----------------------------------------------------------------------------
(* _transition_provider *)

HandoffApplied(t) ==
    LET l == loc[t] IN
    /\ Ends(t, FALSE)
    /\ owner' = IF Stale(owner, l.gen) THEN owner
                ELSE [owner EXCEPT !.config = l.config, !.signature = l.config,
                                   !.token = t, !.status = "READY"]

\* The session keeps the configuration and the provider it had.
HandoffFails(t) ==
    /\ Ends(t, FALSE)
    /\ owner' = [owner EXCEPT !.status = "READY"]

\* The candidate is built; it waits for the boundary of the utterance unless
\* there is none to wait for.
CandidateBuilt(t) ==
    LET f == loc[t].config IN
    /\ At(t, "handoff")
    /\ \/ /\ MayFail("build") /\ HandoffFails(t) /\ UNCHANGED runtime
       \/ /\ runtime' = [runtime EXCEPT !.pending = t, !.idle = FALSE]
          /\ GoesOn(t, "boundary") /\ UNCHANGED owner
       \/ /\ runtime' = [runtime EXCEPT !.attached = f, !.idle = FALSE]
          /\ GoesOn(t, "committed") /\ UNCHANGED owner
    /\ UNCHANGED <<mic, capture, bound, Outside>>

\* The loop reports the end of an utterance: the channel commits the handoff.  The
\* intent may have been withdrawn while the event was on its way.
Boundary ==
    LET t == runtime.pending IN
    /\ t # None
    /\ \E s \in Sources : capture[s] = "running"
    /\ runtime' = [runtime EXCEPT !.pending = None, !.attached = loc[t].config,
                                  !.recorded = loc[t].config]
    /\ pc' = [pc EXCEPT ![t] = "committed"]
    /\ UNCHANGED <<owner, mic, capture, bound, queue, loc, Outside>>

HandoffResumes(t) ==
    /\ At(t, "committed")
    /\ runtime' = [runtime EXCEPT !.recorded = loc[t].config]
    /\ HandoffApplied(t)
    /\ UNCHANGED <<mic, capture, bound, Outside>>

-----------------------------------------------------------------------------
(* Cancellation *)

\* A cancelled task leaves the lock, and the source it was to close.
Abandons(t) ==
    /\ LeavesLock(t)
    /\ pc' = [pc EXCEPT ![t] = "done"]
    /\ loc' = [loc EXCEPT ![t] = [NoLocals EXCEPT !.kind = loc[t].kind,
                                                  !.src = loc[t].src,
                                                  !.failed = TRUE]]

\* Where a task that is cancelled leaves things as they are.
Passive == {"start", "lock", "loop", "debts", "admission", "replace", "swap",
            "opening", "ingress", "handoff", "committed"}

CancelledQuietly(t) ==
    /\ pc[t] \in Passive /\ t \in killed
    /\ Abandons(t)
    /\ UNCHANGED <<owner, Held, Outside>>

\* Closing a source is cancelled after or before it took effect.
CancelledClosing(t) ==
    /\ pc[t] \in {"closing", "lateClose"} /\ t \in killed
    /\ \E done \in {"open", "closed"} : mic' = [mic EXCEPT ![loc[t].src] = done]
    /\ Abandons(t)
    /\ UNCHANGED <<owner, capture, bound, runtime, Outside>>

\* A release is cancelled after or before the provider was detached.
CancelledReleasing(t) ==
    LET starting == pc[t] \in {"failRelease", "staleRelease"}
        mode == IF starting THEN "abort" ELSE loc[t].mode IN
    /\ pc[t] \in {"release", "failRelease", "staleRelease"} /\ t \in killed
    /\ Released(mode) \/ UNCHANGED runtime
    /\ owner' = IF starting THEN Detached(owner, "abort") ELSE owner
    /\ Abandons(t)
    /\ UNCHANGED <<mic, capture, bound, Outside>>

\* The candidate that waits for the boundary is withdrawn.
CancelledWaiting(t) ==
    /\ pc[t] = "boundary" /\ t \in killed
    /\ runtime' = [runtime EXCEPT !.pending = None]
    /\ Abandons(t)
    /\ UNCHANGED <<owner, mic, capture, bound, Outside>>

-----------------------------------------------------------------------------
(* The capture loop and the provider *)

\* The loop ends by itself or because it was cancelled.  Its done callback
\* starts a fault task for the generation the loop is bound to.
LoopEnds(s) ==
    /\ capture[s] \in {"running", "cancelling"}
    /\ capture[s] = "running" => MayFail("loop")
    /\ capture' = [capture EXCEPT ![s] = "ended"]
    /\ IF /\ capture[s] = "running" /\ bound[s] = owner.generation
          /\ ~owner.closed
       THEN /\ pc' = [pc EXCEPT ![s] = "start"]
            /\ loc' = [loc EXCEPT ![s] = [NoLocals EXCEPT !.kind = "fault",
                                                          !.gen = bound[s]]]
       ELSE UNCHANGED <<pc, loc>>
    /\ UNCHANGED <<owner, mic, bound, runtime, queue, Outside>>

FaultRuns(s) ==
    /\ s \in Sources /\ Acquired(s)
    /\ FaultsLocked(s, loc[s].gen)
    /\ UNCHANGED <<runtime, Outside>>

\* A provider reports a terminal failure for the attachment it was built for.
ProviderFails(x) ==
    /\ x \in Failures /\ pc[x] = "none"
    /\ \E c \in Calls :
         /\ pc[c] \in {"opening", "ingress", "committed", "done"}
         /\ loc[c].kind \in {"on", "restart", "prepare"}
         /\ loc' = [loc EXCEPT ![x] = [NoLocals EXCEPT !.kind = "terminal",
                                                       !.src = c]]
    /\ pc' = [pc EXCEPT ![x] = "start"]
    /\ UNCHANGED <<owner, Held, queue, Outside>>

CurrentAttachment(c) == c = owner.token

\* _on_terminal_provider_failure under the lock.
TerminalRuns(x) ==
    LET o == [owner EXCEPT !.status = "FAILED", !.state = "FAULTED"] IN
    /\ x \in Failures /\ Acquired(x)
    /\ IF \/ owner.closed \/ ~CurrentAttachment(loc[x].src)
          \/ owner.status \in {"DETACHED", "RELEASING"}
       THEN Ends(x, FALSE) /\ UNCHANGED <<owner, mic, capture, bound>>
       ELSE IF owner.desired THEN FaultsLocked(x, owner.generation)
       ELSE owner' = o /\ Ends(x, FALSE) /\ UNCHANGED <<mic, capture, bound>>
    /\ UNCHANGED <<runtime, Outside>>

\* The timer of a drained provider releases it; a provider that cannot be closed
\* is kept to be closed later.
IdleRelease ==
    /\ runtime.idle
    /\ \E debt \in {runtime.debt, runtime.debt \/ MayFail("release")} :
         runtime' = [runtime EXCEPT !.attached = None, !.idle = FALSE,
                                    !.debt = debt]
    /\ UNCHANGED <<owner, mic, capture, bound, queue, pc, loc, Outside>>

-----------------------------------------------------------------------------
BodyStep(t) ==
    \/ Locks(t) \/ SupersededBody(t) \/ TurnsOff(t) \/ TurnsOn(t)
    \/ Restarts(t) \/ KeepsSession(t) \/ Prepares(t) \/ TearsDown(t)
    \/ LoopEnded(t) \/ SourceClosed(t) \/ DebtRetried(t) \/ DebtsSettled(t)
    \/ ProviderReleased(t) \/ AdmissionReturns(t) \/ ProviderBuilt(t)
    \/ OldProviderClosed(t) \/ SourceOpened(t) \/ LateSourceClosed(t)
    \/ IngressStarted(t) \/ StartReleased(t)
    \/ CandidateBuilt(t) \/ HandoffResumes(t)
    \/ CancelledQuietly(t) \/ CancelledClosing(t) \/ CancelledReleasing(t)
    \/ CancelledWaiting(t) \/ FaultRuns(t) \/ TerminalRuns(t)

CallerStep(c) ==
    \/ TransitionEnded(c) \/ NothingToWaitFor(c) \/ CallReturns(c)
    \/ FaultTasksEnded(c) \/ FrozenCloses(c)

LoopCancelled(s) == capture[s] = "cancelling" /\ LoopEnds(s)

Next ==
    \/ \E c \in Calls : Start(c) \/ CallerStep(c)
    \/ \E t \in Tasks : BodyStep(t)
    \/ \E s \in Sources : LoopEnds(s)
    \/ \E x \in Failures : ProviderFails(x)
    \/ Boundary \/ IdleRelease

Spec == Init /\ [][Next]_vars

Speaking == \E s \in Sources : capture[s] = "running" /\ Publishes(s)

\* Tasks are scheduled, the ports answer, the loop ends when cancelled, and while
\* it runs and may publish, an utterance ends.
FairSpec ==
    /\ Spec
    /\ \A t \in Tasks : WF_vars(BodyStep(t))
    /\ \A c \in Calls : WF_vars(CallerStep(c))
    /\ \A s \in Sources : WF_vars(LoopCancelled(s))
    /\ WF_vars(Speaking /\ Boundary)

-----------------------------------------------------------------------------
(* Properties *)

LockOrder == {t \in Tasks : pc[t] \notin {"none", "start", "done"}}

\* The lock has one holder and serves in order: the queue holds exactly the
\* tasks that are past their start, each once.
CaptureTypeOK ==
    /\ owner.state \in {"STOPPED", "STARTING", "ADMISSION_PENDING", "RUNNING",
                        "STOPPING", "FAULTED"}
    /\ owner.status \in {"DETACHED", "PENDING", "READY", "RELEASING", "FAILED"}
    /\ owner.source \in Sources \cup {None} /\ owner.loop \in Sources \cup {None}
    /\ owner.config \in Configs \cup {None}
    /\ owner.token \in Calls \cup {None} /\ owner.retired \subseteq Sources
    /\ runtime.attached \in Configs \cup {None}
    /\ transition \in Calls \cup {None} /\ killed \subseteq Tasks
    /\ {queue[i] : i \in DOMAIN queue} = LockOrder
    /\ Len(queue) = Cardinality(LockOrder)
    /\ \A t \in Tasks : pc[t] \notin {"none", "start", "lock", "done"}
                           => t = Head(queue)

Running(s) == capture[s] \in {"running", "cancelling"}

\* late_callback_rule: "only the current running generation may publish Self VAD
\* events".  A loop that was told to stop may still run while the next session
\* captures, when the wait for it was cancelled; it does not publish.
OnlyCurrentLoopPublishes ==
    \A s \in Sources : Running(s) /\ Publishes(s) => s = owner.loop

\* An open microphone is the session's, or waits to be closed again, or is held
\* by the task that closes it, or was left by a task cancelled while closing it.
\* The last case is the code's: the transition forgets it.
SourcesAreAccounted ==
    \A s \in Sources : mic[s] = "open" =>
        \/ s = owner.source \/ s \in owner.retired
        \/ \E t \in Tasks : loc[t].src = s

Quiet ==
    /\ \A t \in Tasks : ~Live(t)
    /\ \A c \in Calls : caller[c] \in {"idle", "returned", "closed"}

\* However intents, failures and cancellations interleaved: when nothing is under
\* way the session is reported running exactly when it has a source, with its
\* loop, and somebody wants it; and no other loop is left running.
Settled ==
    Quiet =>
      /\ (owner.state = "RUNNING") = (owner.source # None)
      /\ owner.source = owner.loop
      /\ owner.source # None => owner.desired
      /\ \A s \in Sources : capture[s] = "running" => s = owner.loop

\* What a test of the session says of a loop that fails ("loop failure is contained
\* and releases all owned resources"): at rest, no session keeps a loop that has
\* ended.  In the code an intent declared before the fault task has the lock takes
\* the session over with its dead loop, and the fault finds itself stale.
LoopLossIsContained ==
    Quiet /\ owner.loop # None => capture[owner.loop] = "running"

CloseReturned ==
    /\ \E c \in Calls : caller[c] = "closed"
    /\ \A c \in Calls : caller[c] # "frozen"
    /\ \A c \in Calls : loc[c].kind = "close" => caller[c] \in {"closed", "returned"}

\* Once every call of close has returned, one of them without an exception (and no
\* shutdown that froze the ingress is still to make its own: its invalidation makes
\* the teardown of a close before it stale), nothing is captured and no other task
\* is inside the lock: what still waits for it finds the owner closed.
ClosedMeansReleased ==
    CloseReturned =>
      /\ owner.source = None /\ owner.loop = None
      /\ \A s \in Sources : capture[s] # "running"
      /\ \A t \in Tasks : pc[t] \in {"none", "start", "lock", "done"}
      /\ runtime.pending = None

\* A handoff that holds the lock while no loop can report the end of an utterance:
\* the fault task of a loop that ended, which would tear the session down, waits
\* for the same lock.
HandoffStranded == runtime.pending # None /\ ~Speaking

\* Every call returns: intents cancel each other, wait for each other and for the
\* lock, and close waits for the fault tasks.  The one way to hang is the code's:
\* a stranded handoff waits until another intent cancels it.
EveryCallReturns ==
    \A c \in Calls :
        caller[c] \in {"frozen", "retiring", "awaiting", "faults"}
            ~> caller[c] \in {"returned", "closed"} \/ HandoffStranded
=============================================================================
