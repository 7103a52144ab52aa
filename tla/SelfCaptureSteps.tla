--------------------------- MODULE SelfCaptureSteps ---------------------------
(***************************************************************************)
(* What a step of SelfCapture does, said with what its invariant speaks of: *)
(* each step of a body has one of nine effects (BodyEffects), each step of  *)
(* a caller one of six (CallEffects), and the lock stays one.               *)
(***************************************************************************)
EXTENDS SelfCaptureTypes

-----------------------------------------------------------------------------
(* What the pieces of a body do to a task. *)

\* All tasks but t stay where they are.
OthersStay(t) == \A u \in Tasks \ {t} : pc'[u] = pc[u] /\ loc'[u] = loc[u]

\* The task ends.
Quits(t) ==
    /\ OthersStay(t) /\ LeavesLock(t)
    /\ pc'[t] = "done" /\ loc'[t].kind = loc[t].kind
    /\ loc'[t].gen = 0 /\ loc'[t].then = "end"

\* The task stays in the queue and moves to a place.
MovesTo(t, place) ==
    /\ OthersStay(t) /\ UNCHANGED queue
    /\ pc'[t] = place /\ loc'[t].kind = loc[t].kind

\* What ending, being abandoned and going on do to a task.
LEMMA TaskFacts ==
    ASSUME Typed, NEW t \in Tasks
    PROVE  /\ \A failed \in BOOLEAN : Ends(t, failed) =>
                Quits(t) /\ loc'[t].src = None
           /\ Abandons(t) => Quits(t) /\ loc'[t].src = loc[t].src
           /\ \A place : GoesOn(t, place) =>
                MovesTo(t, place) /\ loc'[t] = loc[t]
           /\ \A place, s : Goes(t, place) /\ loc' = [loc EXCEPT ![t].src = s] =>
                /\ MovesTo(t, place) /\ loc'[t].src = s
                /\ loc'[t].gen = loc[t].gen /\ loc'[t].then = loc[t].then
<1>1. loc \in [Tasks -> Locals] /\ loc[t] \in Locals /\ pc \in [Tasks -> Pcs]
  BY DEF Typed
<1>2. ASSUME NEW failed \in BOOLEAN, Ends(t, failed)
      PROVE  Quits(t) /\ loc'[t].src = None
  BY <1>1, <1>2 DEF Ends, Quits, OthersStay, NoLocals
<1>3. ASSUME Abandons(t)
      PROVE  Quits(t) /\ loc'[t].src = loc[t].src
  BY <1>1, <1>3 DEF Abandons, Quits, OthersStay, NoLocals
<1>4. ASSUME NEW place, GoesOn(t, place)
      PROVE  MovesTo(t, place) /\ loc'[t] = loc[t]
  BY <1>1, <1>4 DEF GoesOn, Goes, MovesTo, OthersStay
<1>5. ASSUME NEW place, NEW s, Goes(t, place), loc' = [loc EXCEPT ![t].src = s]
      PROVE  /\ MovesTo(t, place) /\ loc'[t].src = s
             /\ loc'[t].gen = loc[t].gen /\ loc'[t].then = loc[t].then
  BY <1>1, <1>5 DEF Goes, MovesTo, OthersStay, Locals
<1>. QED
  BY <1>2, <1>3, <1>4, <1>5

\* The session and its loop stay as they are.
SessionStays ==
    /\ owner'.source = owner.source /\ owner'.loop = owner.loop
    /\ owner'.closed = owner.closed /\ capture' = capture

IntentStays ==
    owner'.desired = owner.desired /\ owner'.generation = owner.generation

\* The session is taken from the owner by t, its loop is cancelled.
TakesSession(t) ==
    /\ MovesTo(t, "loop") /\ loc'[t].src = owner.source
    /\ owner'.source = None /\ owner'.loop = None /\ owner'.state = "STOPPING"
    /\ owner'.closed = owner.closed /\ owner'.retired = owner.retired
    /\ UNCHANGED <<mic, bound>>
    /\ \A s \in Sources :
         capture'[s] = IF s = owner.loop /\ capture[s] = "running"
                       THEN "cancelling" ELSE capture[s]

\* It is taken for a failure: what was wanted is not wanted any more.
TakesFaulted(t) ==
    /\ TakesSession(t) /\ ~ owner.closed
    /\ ~ owner'.desired /\ owner'.generation = owner.generation + 1
    /\ loc'[t].gen = owner.generation + 1 /\ loc'[t].then = "end"

\* _teardown begins by taking the session from the owner; for a failure it also
\* takes the intent away (_fault_current).
LEMMA TeardownFacts ==
    ASSUME Typed, NEW t \in Tasks
    PROVE  /\ \A o \in OwnerTypes, td \in Locals :
                /\ BeginsTeardown(t, o, td) /\ td.kind = loc[t].kind
                /\ o.source = owner.source /\ o.loop = owner.loop
                /\ o.closed = owner.closed /\ o.retired = owner.retired
                => /\ TakesSession(t)
                   /\ owner'.desired = o.desired
                   /\ owner'.generation = o.generation
                   /\ loc'[t].gen = td.gen /\ loc'[t].then = td.then
           /\ \A g : FaultsLocked(t, g) =>
                \/ Quits(t) /\ loc'[t].src = None /\ Stale(owner, g)
                   /\ UNCHANGED <<owner, mic, capture, bound>>
                \/ TakesFaulted(t) /\ ~ Stale(owner, g)
<1>0. /\ loc \in [Tasks -> Locals] /\ loc[t] \in Locals /\ pc \in [Tasks -> Pcs]
      /\ owner \in OwnerTypes
      /\ capture \in [Sources -> {"none", "running", "cancelling", "ended"}]
  BY DEF Typed
<1>1. ASSUME NEW o \in OwnerTypes, NEW td \in Locals,
             BeginsTeardown(t, o, td), td.kind = loc[t].kind,
             o.source = owner.source, o.loop = owner.loop,
             o.closed = owner.closed, o.retired = owner.retired
      PROVE  /\ TakesSession(t)
             /\ owner'.desired = o.desired
             /\ owner'.generation = o.generation
             /\ loc'[t].gen = td.gen /\ loc'[t].then = td.then
  <2>1. /\ owner'.desired = o.desired /\ owner'.generation = o.generation
        /\ owner'.source = None /\ owner'.loop = None /\ owner'.state = "STOPPING"
        /\ owner'.closed = o.closed /\ owner'.retired = o.retired
    BY <1>1 DEF BeginsTeardown, OwnerTypes
  <2>2. /\ \A u \in Tasks \ {t} : loc'[u] = loc[u]
        /\ loc'[t].kind = td.kind /\ loc'[t].gen = td.gen /\ loc'[t].then = td.then
        /\ loc'[t].src = o.source
    BY <1>0, <1>1 DEF BeginsTeardown, Locals
  <2>3. /\ \A u \in Tasks \ {t} : pc'[u] = pc[u]
        /\ pc'[t] = "loop" /\ UNCHANGED <<queue, mic, bound>>
    BY <1>0, <1>1 DEF BeginsTeardown, Goes
  <2>4. \A s \in Sources :
          capture'[s] = IF s = o.loop /\ capture[s] = "running"
                        THEN "cancelling" ELSE capture[s]
    BY <1>0, <1>1, CaptureAssumption DEF BeginsTeardown, CaptureAssumption
  <2>. QED
    BY <1>1, <2>1, <2>2, <2>3, <2>4 DEF TakesSession, MovesTo, OthersStay
<1>2. ASSUME NEW g, FaultsLocked(t, g), ~ Stale(owner, g)
      PROVE  TakesFaulted(t)
  <2>. DEFINE td == [NoLocals EXCEPT !.kind = loc[t].kind,
                        !.gen = owner.generation + 1, !.target = "FAULTED"]
  <2>1. loc[t].kind \in Bodies /\ owner.generation + 1 \in Nat
    BY <1>0 DEF Locals, OwnerTypes
  <2>2. td \in Locals
    BY ONLY <2>1 DEF NoLocals, Locals
  <2>3. td.kind = loc[t].kind /\ td.gen = owner.generation + 1 /\ td.then = "end"
    BY DEF NoLocals
  <2>4. BeginsTeardown(t, Invalidated, td)
    BY <1>2 DEF FaultsLocked
  <2>5. /\ Invalidated.source = owner.source /\ Invalidated.loop = owner.loop
        /\ Invalidated.closed = owner.closed /\ Invalidated.retired = owner.retired
        /\ Invalidated.desired = FALSE
        /\ Invalidated.generation = owner.generation + 1
    BY <1>0 DEF Invalidated, OwnerTypes
  <2>6. ~ owner.closed
    BY <1>2 DEF Stale, Superseded
  <2>. HIDE DEF td
  <2>. QED
    BY <1>1, <2>2, <2>3, <2>4, <2>5, <2>6, InvalidatedTyped DEF TakesFaulted
<1>3. ASSUME NEW g, FaultsLocked(t, g), Stale(owner, g)
      PROVE  /\ Quits(t) /\ loc'[t].src = None
             /\ UNCHANGED <<owner, mic, capture, bound>>
  BY <1>3, TaskFacts DEF FaultsLocked
<1>. QED
  BY <1>1, <1>2, <1>3

\* A start fails: the owner is as it was, or faulted, and its provider may have
\* to be released.
LEMMA FailsStartFacts ==
    ASSUME Typed, NEW t \in Tasks, NEW desired \in BOOLEAN, NEW status,
           NEW releases \in BOOLEAN,
           FailsStart(t, owner, desired, status, releases)
    PROVE  /\ owner'.source = owner.source /\ owner'.loop = owner.loop
           /\ owner'.closed = owner.closed /\ owner'.generation = owner.generation
           /\ owner'.state \in {owner.state, "FAULTED"}
           /\ \/ Quits(t) /\ loc'[t].src = None
              \/ MovesTo(t, "failRelease") /\ loc'[t] = loc[t]
<1>0. owner \in OwnerTypes
  BY DEF Typed
<1>1. CASE Superseded(owner, loc[t].gen)
  BY <1>1, TaskFacts DEF FailsStart
<1>2. CASE ~ Superseded(owner, loc[t].gen)
  <2>1. /\ owner'.source = owner.source /\ owner'.loop = owner.loop
        /\ owner'.closed = owner.closed /\ owner'.generation = owner.generation
        /\ owner'.state = "FAULTED"
    BY <1>0, <1>2 DEF FailsStart, OwnerTypes
  <2>2. Ends(t, FALSE) \/ GoesOn(t, "failRelease")
    BY <1>2 DEF FailsStart
  <2>. QED
    BY <2>1, <2>2, TaskFacts
<1>. QED
  BY <1>1, <1>2

\* A teardown ends, or goes on with the start it was made for.
LEMMA FinishesFacts ==
    ASSUME Typed, NEW t \in Tasks, NEW o \in OwnerTypes, NEW failed \in BOOLEAN,
           FinishesTeardown(t, o, failed)
    PROVE  /\ owner'.source = o.source /\ owner'.loop = o.loop
           /\ owner'.closed = o.closed /\ owner'.generation = o.generation
           /\ owner'.state \in {"STOPPED", "FAULTED", "STARTING"}
           /\ \/ Quits(t) /\ loc'[t].src = None
              \/ /\ MovesTo(t, "admission") /\ loc'[t].gen = loc[t].gen
                 /\ loc[t].then = "start" /\ loc'[t].then = "end"
                 /\ loc'[t].src = None
<1>0. /\ loc \in [Tasks -> Locals] /\ loc[t] \in Locals /\ pc \in [Tasks -> Pcs]
  BY DEF Typed
<1>. DEFINE p == [o EXCEPT !.desired = @ /\ loc[t].preserve,
                           !.state = IF failed THEN "FAULTED" ELSE loc[t].target]
            l == [NoLocals EXCEPT !.kind = loc[t].kind, !.gen = loc[t].gen,
                                  !.config = loc[t].config]
<1>1. /\ p.source = o.source /\ p.loop = o.loop /\ p.closed = o.closed
      /\ p.generation = o.generation /\ p.state \in {"STOPPED", "FAULTED"}
  BY <1>0 DEF OwnerTypes, Locals
<1>2. /\ l.kind = loc[t].kind /\ l.gen = loc[t].gen /\ l.then = "end"
      /\ l.src = None
  BY DEF NoLocals
<1>3. CASE owner' = p /\ Ends(t, failed)
  <2>. HIDE DEF p
  <2>. QED
    BY <1>1, <1>3, TaskFacts
<1>4. CASE /\ owner' = [p EXCEPT !.state = "STARTING", !.config = loc[t].config]
           /\ loc' = [loc EXCEPT ![t] = l] /\ Goes(t, "admission")
           /\ loc[t].then = "start"
  <2>1. p \in OwnerTypes
    <3>1. \A d \in BOOLEAN : \A st \in {"STOPPED", "FAULTED"} :
            [o EXCEPT !.desired = d, !.state = st] \in OwnerTypes
      BY Zenon DEF OwnerTypes
    <3>2. (o.desired /\ loc[t].preserve) \in BOOLEAN
      OBVIOUS
    <3>3. (IF failed THEN "FAULTED" ELSE loc[t].target) \in {"STOPPED", "FAULTED"}
      BY <1>0 DEF Locals
    <3>. QED
      BY <3>1, <3>2, <3>3
  <2>. HIDE DEF p, l
  <2>2. /\ owner'.source = p.source /\ owner'.loop = p.loop
        /\ owner'.closed = p.closed /\ owner'.generation = p.generation
        /\ owner'.state = "STARTING"
    BY <1>4, <2>1 DEF OwnerTypes
  <2>3. MovesTo(t, "admission") /\ loc'[t] = l
    BY <1>0, <1>2, <1>4 DEF MovesTo, OthersStay, Goes
  <2>. QED
    BY <1>1, <1>2, <1>4, <2>2, <2>3
<1>. QED
  BY <1>3, <1>4 DEF FinishesTeardown

-----------------------------------------------------------------------------
(* The effects of a step of a body. *)

\* The body has the lock, or is about to.
HasLock(t) == Acquired(t) \/ (pc[t] \in Inside /\ t \notin killed)

\* An intent to capture finds the session running and binds its loop anew.
Rebinds(t) ==
    /\ t \in Calls /\ Acquired(t) /\ loc[t].kind = "on"
    /\ ~ Superseded(owner, loc[t].gen) /\ owner.state = "RUNNING"
    /\ bound' = Rebound(owner, loc[t].gen)

\* It ends and leaves the session as it is.  A call that was responsible for
\* the session is not any more: it was cancelled or is no longer the current one.
LeavesSession(t) ==
    /\ Quits(t) /\ SessionStays /\ IntentStays /\ owner'.state = owner.state
    /\ UNCHANGED bound \/ Rebinds(t)
    /\ t \in Calls /\ pc[t] \in Entry \cup {"ingress"}
          => t \in killed \/ ~ Current(t) \/ Rebinds(t)

\* It ends while there is no session.
LeavesNothing(t) ==
    /\ Quits(t) /\ SessionStays /\ UNCHANGED bound
    /\ owner.source = None /\ owner'.state # "RUNNING"
    /\ owner'.generation \in {owner.generation, owner.generation + 1}

\* It ends with the session reported running.
ReportsRunning(t) ==
    /\ t \in Calls /\ pc[t] = "ingress" /\ t \notin killed
    /\ Quits(t) /\ SessionStays /\ IntentStays /\ UNCHANGED bound
    /\ owner'.state = "RUNNING"

\* It ends with a session that is not wanted reported faulted.
ReportsFault(t) ==
    /\ t \in Failures /\ Acquired(t)
    /\ Quits(t) /\ SessionStays /\ IntentStays /\ UNCHANGED bound
    /\ ~ owner.desired /\ owner'.state = "FAULTED"

\* A call takes the session, for the current generation.
TakesCurrent(t) ==
    /\ t \in Calls /\ Acquired(t) /\ Current(t)
    /\ TakesSession(t) /\ IntentStays
    /\ loc'[t].gen = loc[t].gen
    /\ loc[t].kind = "on" => owner.state # "RUNNING"
    /\ loc'[t].then = "start" => loc[t].kind \in {"on", "restart"}
    /\ owner.closed => loc[t].kind = "close"

\* A failure takes the session.
TakesForFault(t) ==
    /\ Acquired(t) \/ (pc[t] = "ingress" /\ t \notin killed)
    /\ TakesFaulted(t)

\* It goes from one place inside the lock to another, or enters one.
MovesInside(t) ==
    /\ HasLock(t) /\ pc[t] # "ingress"
    /\ \E place \in Inside \ {"ingress", "loop"} : MovesTo(t, place)
    /\ SessionStays /\ owner'.generation = owner.generation
    /\ owner'.desired = owner.desired \/ owner.source = None
    /\ loc'[t].gen = loc[t].gen /\ loc'[t].then \in {loc[t].then, "end"}
    /\ UNCHANGED bound \/ Rebinds(t)
    /\ owner'.state = owner.state
          \/ (owner.source = None /\ owner'.state # "RUNNING")
    /\ pc[t] = "lock" =>
         /\ t \in Calls /\ ~ owner.closed
         /\ owner.source = None \/ Rebinds(t)
    /\ pc'[t] \in Tearing => owner.source = None
    /\ pc'[t] \in Starting =>
         /\ owner.source = None
         /\ loc[t].kind \in {"on", "restart", "prepare"}
         /\ pc'[t] \notin {"replace", "swap"} => loc[t].kind # "prepare"
    /\ pc'[t] \in Handing => loc[t].kind = "on"

\* It opens the session.
OpensSession(t) ==
    /\ t \in Calls /\ pc[t] = "opening" /\ t \notin killed
    /\ ~ Stale(owner, loc[t].gen)
    /\ MovesTo(t, "ingress") /\ loc'[t] = loc[t]
    /\ IntentStays /\ owner'.state = owner.state /\ owner'.closed = owner.closed
    /\ \E s \in Sources :
         /\ mic[s] = "unused" /\ mic'[s] = "open"
         /\ owner'.source = s /\ owner'.loop = s
         /\ capture' = [capture EXCEPT ![s] = "running"]
         /\ bound' = [bound EXCEPT ![s] = loc[t].gen]

Effect(t) ==
    \/ Locks(t) \/ LeavesSession(t) \/ LeavesNothing(t) \/ ReportsRunning(t)
    \/ ReportsFault(t) \/ TakesCurrent(t) \/ TakesForFault(t) \/ MovesInside(t)
    \/ OpensSession(t)

\* Whatever step a body makes, it has one of the nine effects.
LEMMA BodyEffects ==
    ASSUME CaptureInv, NEW t \in Tasks, BodyStep(t)
    PROVE  Effect(t)
<1>0. /\ Typed /\ Roles /\ OneSession /\ Generations /\ Attended
      /\ owner \in OwnerTypes /\ loc[t] \in Locals /\ loc \in [Tasks -> Locals]
      /\ pc \in [Tasks -> Pcs]
      /\ \A b \in BOOLEAN : b \in BOOLEAN
  BY DEF CaptureInv, Typed
<1>c. /\ loc[t].kind \notin {"none", "fault", "terminal"} => t \in Calls
      /\ pc[t] \in Starting \cup Handing => t \in Calls
  BY <1>0, CallKinds DEF Roles
<1>g. /\ t \in Calls /\ loc[t].kind # "close" /\ owner.closed => ~ Current(t)
      /\ t \in Calls => (loc[t].gen # owner.generation <=> ~ Current(t))
  BY <1>0 DEF Generations, Current, OwnerTypes, Locals
<1>s. \A place \in {"closing", "debts", "release", "admission", "replace", "swap",
                    "opening", "lateClose", "failRelease", "staleRelease",
                    "handoff", "boundary", "committed"} :
        place \in Inside \ {"ingress", "loop"}
  BY DEF Inside, Tearing, Starting, Handing
<1>1. CASE Locks(t)
  BY <1>1 DEF Effect
<1>2. CASE SupersededBody(t)
  <2>1. Quits(t)
    BY <1>0, <1>2, TaskFacts DEF SupersededBody
  <2>2. t \in Calls /\ ~ Current(t)
    BY <1>2, <1>g DEF SupersededBody, Superseded
  <2>3. UNCHANGED <<owner, capture, bound>>
    BY <1>2 DEF SupersededBody, Held
  <2>. QED
    BY <2>1, <2>2, <2>3 DEF Effect, LeavesSession, SessionStays, IntentStays
<1>3. CASE TurnsOff(t)
  <2>. DEFINE o == [owner EXCEPT !.status = IF @ = "DETACHED" THEN "READY" ELSE @]
  <2>1. o \in OwnerTypes
    <3>1. owner.status \in {"DETACHED", "PENDING", "READY", "RELEASING", "FAILED"}
      BY <1>0 DEF OwnerTypes
    <3>. QED
      BY <1>0, <3>1, OwnerTyped
  <2>2. /\ o.source = owner.source /\ o.loop = owner.loop /\ o.closed = owner.closed
        /\ o.retired = owner.retired /\ o.desired = owner.desired
        /\ o.generation = owner.generation
    BY <1>0 DEF OwnerTypes
  <2>3. BeginsTeardown(t, o, loc[t]) /\ Acquired(t) /\ loc[t].kind = "off"
        /\ ~ Superseded(owner, loc[t].gen)
    BY <1>3 DEF TurnsOff
  <2>. HIDE DEF o
  <2>4. /\ TakesSession(t) /\ owner'.desired = o.desired
        /\ owner'.generation = o.generation
        /\ loc'[t].gen = loc[t].gen /\ loc'[t].then = loc[t].then
    BY <1>0, <2>1, <2>2, <2>3, TeardownFacts
  <2>5. loc[t].then # "start"
    BY <1>0, <2>3 DEF Roles
  <2>. QED
    BY <1>c, <1>g, <2>2, <2>3, <2>4, <2>5 DEF Effect, TakesCurrent, IntentStays,
       Superseded, Current
<1>4. CASE TurnsOn(t)
  <2>1. /\ owner' = [owner EXCEPT !.state = "STARTING", !.config = loc[t].config]
        /\ GoesOn(t, "admission") /\ UNCHANGED <<mic, capture, bound, runtime>>
        /\ Acquired(t) /\ loc[t].kind \in {"on", "restart"}
        /\ ~ Superseded(owner, loc[t].gen) /\ owner.source = None
    BY <1>4 DEF TurnsOn, BeginsStart
  <2>2. MovesTo(t, "admission") /\ loc'[t] = loc[t]
    BY <1>0, <2>1, TaskFacts
  <2>3. SessionStays /\ IntentStays /\ owner'.state = "STARTING"
    BY <1>0, <2>1 DEF SessionStays, IntentStays, OwnerTypes
  <2>4. pc'[t] = "admission" /\ ~ owner.closed
    BY <2>1, <2>2 DEF MovesTo, Superseded
  <2>. QED
    BY <1>c, <1>s, <2>1, <2>2, <2>3, <2>4 DEF Effect, MovesInside, IntentStays, HasLock, Acquired,
       At, Tearing, Handing
<1>5. CASE Restarts(t)
  <2>. DEFINE td == [loc[t] EXCEPT !.mode = IF loc[t].force THEN "abort" ELSE "drain",
                                   !.preserve = TRUE, !.then = "start"]
  <2>1. td \in Locals
    <3>1. \A m \in {"abort", "drain"} :
            [loc[t] EXCEPT !.mode = m, !.preserve = TRUE, !.then = "start"] \in Locals
      BY ONLY <1>0, Zenon DEF Locals
    <3>2. loc[t].force \in BOOLEAN
      BY <1>0 DEF Locals
    <3>. QED
      BY <3>1, <3>2
  <2>2. td.kind = loc[t].kind /\ td.gen = loc[t].gen
    BY <1>0 DEF Locals
  <2>3. /\ BeginsTeardown(t, owner, td) /\ Acquired(t)
        /\ loc[t].kind \in {"on", "restart"} /\ ~ Superseded(owner, loc[t].gen)
        /\ owner.state = "RUNNING" => loc[t].kind = "restart"
    BY <1>5 DEF Restarts
  <2>. HIDE DEF td
  <2>4. /\ TakesSession(t) /\ owner'.desired = owner.desired
        /\ owner'.generation = owner.generation
        /\ loc'[t].gen = loc[t].gen
    BY <1>0, <2>1, <2>2, <2>3, TeardownFacts
  <2>. QED
    BY <1>c, <1>g, <2>3, <2>4 DEF Effect, TakesCurrent, IntentStays, Superseded, Current
<1>6. CASE KeepsSession(t)
  <2>1. /\ Acquired(t) /\ loc[t].kind = "on" /\ ~ Superseded(owner, loc[t].gen)
        /\ owner.state = "RUNNING" /\ bound' = Rebound(owner, loc[t].gen)
        /\ UNCHANGED <<mic, capture, runtime>>
        /\ \/ Ends(t, FALSE) /\ UNCHANGED owner
           \/ owner' = [owner EXCEPT !.status = "PENDING"] /\ GoesOn(t, "handoff")
    BY <1>6 DEF KeepsSession
  <2>2. Rebinds(t)
    BY <1>c, <2>1 DEF Rebinds
  <2>3. CASE Ends(t, FALSE) /\ UNCHANGED owner
    BY <1>0, <2>1, <2>2, <2>3, TaskFacts DEF Effect, LeavesSession, SessionStays,
       IntentStays
  <2>4. CASE owner' = [owner EXCEPT !.status = "PENDING"] /\ GoesOn(t, "handoff")
    <3>1. MovesTo(t, "handoff") /\ loc'[t] = loc[t] /\ pc'[t] = "handoff"
      BY <1>0, <2>4, TaskFacts DEF MovesTo
    <3>2. SessionStays /\ IntentStays /\ owner'.state = owner.state
      BY <1>0, <2>1, <2>4 DEF SessionStays, IntentStays, OwnerTypes
    <3>. QED
      BY <1>s, <2>1, <2>2, <3>1, <3>2 DEF Effect, MovesInside, IntentStays, HasLock, Acquired, At,
         Tearing, Starting, Rebinds, Superseded
  <2>. QED
    BY <2>1, <2>3, <2>4
<1>7. CASE Prepares(t)
  <2>1. /\ Acquired(t) /\ loc[t].kind = "prepare" /\ ~ Superseded(owner, loc[t].gen)
        /\ UNCHANGED <<mic, capture, bound, runtime>>
        /\ \/ /\ owner' = [owner EXCEPT !.status = "READY", !.state = "STOPPED"]
              /\ Ends(t, FALSE)
           \/ UNCHANGED owner /\ GoesOn(t, "replace")
    BY <1>7 DEF Prepares, Held
  <2>2. t \in Calls /\ Live(t) /\ Current(t)
    BY <1>c, <1>g, <2>1 DEF Live, Acquired, At, Superseded
  <2>3. owner.source = None
    BY <1>0, <2>1, <2>2 DEF Attended
  <2>4. CASE /\ owner' = [owner EXCEPT !.status = "READY", !.state = "STOPPED"]
             /\ Ends(t, FALSE)
    <3>1. SessionStays /\ IntentStays /\ owner'.state = "STOPPED"
      BY <1>0, <2>1, <2>4 DEF SessionStays, IntentStays, OwnerTypes
    <3>. QED
      BY <1>0, <2>1, <2>3, <2>4, <3>1, TaskFacts DEF Effect, LeavesNothing, IntentStays
  <2>5. CASE UNCHANGED owner /\ GoesOn(t, "replace")
    <3>1. MovesTo(t, "replace") /\ loc'[t] = loc[t] /\ pc'[t] = "replace"
      BY <1>0, <2>5, TaskFacts DEF MovesTo
    <3>2. SessionStays /\ IntentStays /\ owner'.state = owner.state
      BY <2>1, <2>5 DEF SessionStays, IntentStays
    <3>. QED
      BY <1>s, <2>1, <2>2, <2>3, <3>1, <3>2 DEF Effect, MovesInside, IntentStays, HasLock, Acquired,
         At, Tearing, Handing, Superseded
  <2>. QED
    BY <2>1, <2>4, <2>5
<1>8. CASE TearsDown(t)
  <2>. DEFINE td == [loc[t] EXCEPT !.preserve = loc[t].kind = "suspend",
                                   !.release = loc[t].kind = "close"]
  <2>1. td \in Locals
    <3>1. \A a, b \in BOOLEAN :
            [loc[t] EXCEPT !.preserve = a, !.release = b] \in Locals
      BY ONLY <1>0, Zenon DEF Locals
    <3>2. (loc[t].kind = "suspend") \in BOOLEAN /\ (loc[t].kind = "close") \in BOOLEAN
      OBVIOUS
    <3>. QED
      BY <3>1, <3>2
  <2>2. td.kind = loc[t].kind /\ td.gen = loc[t].gen /\ td.then = loc[t].then
    BY <1>0 DEF Locals
  <2>3. /\ Acquired(t) /\ loc[t].kind \in {"suspend", "close"} /\ UNCHANGED runtime
        /\ \/ /\ loc[t].gen # owner.generation /\ Ends(t, FALSE)
              /\ UNCHANGED <<owner, mic, capture, bound>>
           \/ loc[t].gen = owner.generation /\ BeginsTeardown(t, owner, td)
    BY <1>8 DEF TearsDown
  <2>. HIDE DEF td
  <2>4. CASE /\ loc[t].gen # owner.generation /\ Ends(t, FALSE)
             /\ UNCHANGED <<owner, mic, capture, bound>>
    BY <1>0, <1>g, <2>4, TaskFacts DEF Effect, LeavesSession, SessionStays, IntentStays
  <2>5. CASE loc[t].gen = owner.generation /\ BeginsTeardown(t, owner, td)
    <3>1. /\ TakesSession(t) /\ owner'.desired = owner.desired
          /\ owner'.generation = owner.generation
          /\ loc'[t].gen = loc[t].gen /\ loc'[t].then = loc[t].then
      BY <1>0, <2>1, <2>2, <2>5, TeardownFacts
    <3>2. loc[t].then # "start"
      BY <1>0, <2>3 DEF Roles
    <3>. QED
      BY <1>c, <1>g, <2>3, <2>5, <3>1, <3>2 DEF Effect, TakesCurrent, IntentStays
  <2>. QED
    BY <2>3, <2>4, <2>5
<1>9. CASE LoopEnded(t)
  <2>1. /\ At(t, "loop") /\ UNCHANGED <<owner, mic, capture, bound>>
        /\ GoesOn(t, "debts") \/ GoesOn(t, "closing")
    BY <1>9 DEF LoopEnded, Held
  <2>2. PICK place \in {"debts", "closing"} : MovesTo(t, place)
    BY <1>0, <2>1, TaskFacts
  <2>3. loc'[t] = loc[t] /\ pc'[t] = place
    BY <1>0, <2>1, <2>2, TaskFacts DEF MovesTo
  <2>4. pc[t] \in Tearing /\ t \notin killed /\ pc[t] \in Inside
    BY <2>1 DEF At, Tearing, Inside
  <2>5. owner.source = None
    BY <1>0, <2>4 DEF OneSession
  <2>. QED
    BY <1>s, <2>1, <2>2, <2>3, <2>4, <2>5 DEF Effect, MovesInside, IntentStays, HasLock, At,
       SessionStays, IntentStays, Starting, Handing
<1>10. CASE SourceClosed(t)
  <2>1. /\ At(t, "closing") /\ Goes(t, "debts") /\ UNCHANGED <<capture, bound>>
        /\ \/ loc' = [loc EXCEPT ![t].src = None] /\ UNCHANGED owner
           \/ /\ owner' = [owner EXCEPT !.retired = Retained(loc[t].src)]
              /\ loc' = [loc EXCEPT ![t].src = None, ![t].failed = TRUE]
    BY <1>10 DEF SourceClosed
  <2>2. MovesTo(t, "debts") /\ loc'[t].gen = loc[t].gen /\ loc'[t].then = loc[t].then
        /\ pc'[t] = "debts"
    BY <1>0, <2>1 DEF Goes, MovesTo, OthersStay, Locals
  <2>3. SessionStays /\ IntentStays /\ owner'.state = owner.state
    BY <1>0, <2>1 DEF SessionStays, IntentStays, OwnerTypes
  <2>4. pc[t] \in Tearing /\ t \notin killed /\ pc[t] \in Inside
    BY <2>1 DEF At, Tearing, Inside
  <2>5. owner.source = None
    BY <1>0, <2>4 DEF OneSession
  <2>. QED
    BY <1>s, <2>1, <2>2, <2>3, <2>4, <2>5 DEF Effect, MovesInside, IntentStays, HasLock, At,
       Starting, Handing
<1>11. CASE DebtRetried(t)
  <2>1. PICK s \in loc[t].debts :
          \/ /\ owner' = [owner EXCEPT !.retired = @ \ {s}]
             /\ loc' = [loc EXCEPT ![t].debts = @ \ {s}]
          \/ /\ loc' = [loc EXCEPT ![t].debts = @ \ {s}, ![t].failed = TRUE]
             /\ UNCHANGED owner
    BY <1>11 DEF DebtRetried
  <2>2. At(t, "debts") /\ UNCHANGED <<pc, queue, capture, bound>>
    BY <1>11 DEF DebtRetried
  <2>3. MovesTo(t, "debts") /\ loc'[t].gen = loc[t].gen /\ loc'[t].then = loc[t].then
        /\ pc'[t] = "debts"
    BY <1>0, <2>1, <2>2 DEF At, MovesTo, OthersStay, Locals
  <2>4. SessionStays /\ IntentStays /\ owner'.state = owner.state
    BY <1>0, <2>1, <2>2 DEF SessionStays, IntentStays, OwnerTypes
  <2>5. pc[t] \in Tearing /\ t \notin killed /\ pc[t] \in Inside
    BY <2>2 DEF At, Tearing, Inside
  <2>6. owner.source = None
    BY <1>0, <2>5 DEF OneSession
  <2>. QED
    BY <1>s, <2>2, <2>3, <2>4, <2>5, <2>6 DEF Effect, MovesInside, IntentStays, HasLock, At,
       Starting, Handing
<1>t. ASSUME NEW o \in OwnerTypes, NEW failed \in BOOLEAN,
             FinishesTeardown(t, o, failed), pc[t] \in {"debts", "release"},
             t \notin killed, UNCHANGED <<capture, bound>>,
             o.source = owner.source, o.loop = owner.loop, o.closed = owner.closed,
             o.generation = owner.generation
      PROVE  Effect(t)
  <2>1. pc[t] \in Tearing /\ pc[t] \in Inside
    BY <1>t DEF Tearing, Inside
  <2>2. owner.source = None
    BY <1>0, <2>1 DEF OneSession
  <2>3. /\ owner'.source = o.source /\ owner'.loop = o.loop
        /\ owner'.closed = o.closed /\ owner'.generation = o.generation
        /\ owner'.state \in {"STOPPED", "FAULTED", "STARTING"}
        /\ \/ Quits(t)
           \/ /\ MovesTo(t, "admission") /\ loc'[t].gen = loc[t].gen
              /\ loc[t].then = "start" /\ loc'[t].then = "end"
    BY <1>0, <1>t, FinishesFacts
  <2>4. SessionStays
    BY <1>t, <2>3 DEF SessionStays
  <2>5. CASE Quits(t)
    BY <1>t, <2>2, <2>3, <2>4, <2>5 DEF Effect, LeavesNothing
  <2>6. CASE /\ MovesTo(t, "admission") /\ loc'[t].gen = loc[t].gen
             /\ loc[t].then = "start" /\ loc'[t].then = "end"
    <3>1. pc'[t] = "admission" /\ loc[t].kind \in {"on", "restart"}
      BY <1>0, <2>6 DEF MovesTo, Roles
    <3>. QED
      BY <1>s, <1>t, <2>1, <2>2, <2>3, <2>4, <2>6, <3>1 DEF Effect, MovesInside,
         HasLock, Tearing, Handing
  <2>. QED
    BY <2>3, <2>5, <2>6
<1>12. CASE DebtsSettled(t)
  <2>1. /\ At(t, "debts") /\ UNCHANGED <<mic, capture, bound, runtime>>
        /\ \/ owner' = [owner EXCEPT !.status = "RELEASING"] /\ GoesOn(t, "release")
           \/ FinishesTeardown(t, owner, loc[t].failed)
    BY <1>12 DEF DebtsSettled, Held
  <2>2. CASE FinishesTeardown(t, owner, loc[t].failed)
    <3>1. loc[t].failed \in BOOLEAN
      BY <1>0 DEF Locals
    <3>. QED
      BY <1>0, <1>t, <2>1, <2>2, <3>1 DEF At
  <2>3. CASE owner' = [owner EXCEPT !.status = "RELEASING"] /\ GoesOn(t, "release")
    <3>1. MovesTo(t, "release") /\ loc'[t] = loc[t] /\ pc'[t] = "release"
      BY <1>0, <2>3, TaskFacts DEF MovesTo
    <3>2. SessionStays /\ IntentStays /\ owner'.state = owner.state
      BY <1>0, <2>1, <2>3 DEF SessionStays, IntentStays, OwnerTypes
    <3>3. pc[t] \in Tearing /\ t \notin killed /\ pc[t] \in Inside
      BY <2>1 DEF At, Tearing, Inside
    <3>4. owner.source = None
      BY <1>0, <3>3 DEF OneSession
    <3>. QED
      BY <1>s, <2>1, <3>1, <3>2, <3>3, <3>4 DEF Effect, MovesInside, IntentStays, HasLock, At,
         Starting, Handing
  <2>. QED
    BY <2>1, <2>2, <2>3
<1>13. CASE ProviderReleased(t)
  <2>. DEFINE o == Detached(owner, loc[t].mode)
  <2>1. /\ At(t, "release") /\ UNCHANGED <<mic, capture, bound>>
        /\ \/ FinishesTeardown(t, o, loc[t].failed)
           \/ FinishesTeardown(t, owner, TRUE)
    BY <1>13 DEF ProviderReleased
  <2>2. o \in OwnerTypes /\ loc[t].failed \in BOOLEAN
    BY <1>0, OwnerTyped DEF Locals
  <2>3. /\ o.source = owner.source /\ o.loop = owner.loop /\ o.closed = owner.closed
        /\ o.generation = owner.generation
    BY <1>0 DEF Detached, OwnerTypes
  <2>. HIDE DEF o
  <2>. QED
    BY <1>0, <1>t, <2>1, <2>2, <2>3 DEF At
<1>f. ASSUME NEW d \in BOOLEAN, NEW status, NEW releases \in BOOLEAN,
             FailsStart(t, owner, d, status, releases),
             At(t, "admission") \/ At(t, "replace") \/ At(t, "swap") \/ At(t, "opening"),
             UNCHANGED <<capture, bound>>, loc[t].kind # "prepare"
      PROVE  Effect(t)
  <2>1. /\ pc[t] \in Starting \ {"ingress"} /\ t \notin killed /\ pc[t] \in Inside
        /\ pc[t] \notin Entry \cup {"ingress"}
    BY <1>f DEF At, Starting, Inside, Entry
  <2>2. owner.source = None /\ owner.state # "RUNNING"
    BY <1>0, <2>1 DEF OneSession
  <2>3. /\ owner'.source = owner.source /\ owner'.loop = owner.loop
        /\ owner'.closed = owner.closed /\ owner'.generation = owner.generation
        /\ owner'.state \in {owner.state, "FAULTED"}
        /\ \/ Quits(t)
           \/ MovesTo(t, "failRelease") /\ loc'[t] = loc[t]
    BY <1>0, <1>f, FailsStartFacts
  <2>4. SessionStays
    BY <1>f, <2>3 DEF SessionStays
  <2>5. CASE Quits(t)
    BY <1>f, <2>2, <2>3, <2>4, <2>5 DEF Effect, LeavesNothing
  <2>6. CASE MovesTo(t, "failRelease") /\ loc'[t] = loc[t]
    <3>1. pc'[t] = "failRelease" /\ loc[t].kind \in {"on", "restart", "prepare"}
      BY <1>0, <2>1, <2>6 DEF MovesTo, Roles
    <3>2. "failRelease" \in Inside \ {"ingress", "loop"}
      BY <1>s
    <3>. QED
      BY <1>f, <2>1, <2>2, <2>3, <2>4, <2>6, <3>1, <3>2 DEF Effect, MovesInside,
         HasLock, Tearing, Handing, Entry
  <2>. QED
    BY <2>3, <2>5, <2>6
<1>14. CASE AdmissionReturns(t)
  <2>1. /\ At(t, "admission") /\ UNCHANGED <<mic, capture, bound, runtime>>
        /\ \/ \E d \in BOOLEAN : FailsStart(t, owner, d, "DETACHED", FALSE)
           \/ Ends(t, FALSE) /\ UNCHANGED owner
           \/ owner' = Invalidated /\ Ends(t, FALSE)
           \/ /\ owner' = [owner EXCEPT !.state = "ADMISSION_PENDING",
                                        !.status = "PENDING"]
              /\ Ends(t, FALSE)
           \/ owner' = [owner EXCEPT !.status = "READY"] /\ GoesOn(t, "opening")
           \/ owner' = [owner EXCEPT !.status = "PENDING"] /\ GoesOn(t, "replace")
    <3>1. owner.desired \in BOOLEAN
      BY <1>0 DEF OwnerTypes
    <3>. QED
      BY <1>14, <3>1 DEF AdmissionReturns, GoesForProvider, Held
  <2>2. /\ pc[t] \in Starting \ {"ingress"} /\ t \notin killed /\ pc[t] \in Inside
        /\ pc[t] \notin Entry \cup {"ingress"}
    BY <2>1 DEF At, Starting, Inside, Entry
  <2>3. /\ owner.source = None /\ owner.state # "RUNNING"
        /\ loc[t].kind \in {"on", "restart"}
    BY <1>0, <2>1, <2>2 DEF OneSession, Roles, At
  <2>4. CASE \E d \in BOOLEAN : FailsStart(t, owner, d, "DETACHED", FALSE)
    BY <1>f, <2>1, <2>3, <2>4
  <2>5. ASSUME Ends(t, FALSE),
               \/ UNCHANGED owner
               \/ owner' = Invalidated
               \/ owner' = [owner EXCEPT !.state = "ADMISSION_PENDING",
                                         !.status = "PENDING"]
        PROVE  Effect(t)
    <3>1. Quits(t)
      BY <1>0, <2>5, TaskFacts
    <3>2. /\ owner'.source = owner.source /\ owner'.loop = owner.loop
          /\ owner'.closed = owner.closed
          /\ owner'.generation \in {owner.generation, owner.generation + 1}
          /\ owner'.state \in {owner.state, "ADMISSION_PENDING"}
      BY <1>0, <2>5 DEF Invalidated, OwnerTypes
    <3>. QED
      BY <2>1, <2>3, <3>1, <3>2 DEF Effect, LeavesNothing, SessionStays
  <2>6. ASSUME NEW place \in {"opening", "replace"}, GoesOn(t, place),
               NEW status, owner' = [owner EXCEPT !.status = status]
        PROVE  Effect(t)
    <3>1. MovesTo(t, place) /\ loc'[t] = loc[t] /\ pc'[t] = place
      BY <1>0, <2>6, TaskFacts DEF MovesTo
    <3>2. SessionStays /\ IntentStays /\ owner'.state = owner.state
      BY <1>0, <2>1, <2>6 DEF SessionStays, IntentStays, OwnerTypes
    <3>. QED
      BY <1>s, <2>1, <2>2, <2>3, <3>1, <3>2 DEF Effect, MovesInside, IntentStays,
         HasLock, Tearing, Handing, Entry
  <2>. QED
    BY <2>1, <2>4, <2>5, <2>6
<1>r. ASSUME ReplaceFails(t) \/ ReplaceSucceeds(t), At(t, "replace") \/ At(t, "swap"),
             UNCHANGED <<capture, bound>>
      PROVE  Effect(t)
  <2>1. /\ pc[t] \in Starting \ {"ingress"} /\ t \notin killed /\ pc[t] \in Inside
        /\ pc[t] \notin Entry \cup {"ingress"}
    BY <1>r DEF At, Starting, Inside, Entry
  <2>2. /\ owner.source = None /\ owner.state # "RUNNING"
        /\ loc[t].kind \in {"on", "restart", "prepare"}
    BY <1>0, <2>1 DEF OneSession, Roles
  <2>. DEFINE o == [owner EXCEPT !.status = "READY", !.signature = loc[t].config,
                                 !.token = t]
  <2>3. /\ owner'.source = owner.source /\ owner'.loop = owner.loop
        /\ owner'.closed = owner.closed /\ owner'.generation = owner.generation
        /\ owner'.state \in {owner.state, "FAULTED", "STOPPED"}
        /\ \/ Ends(t, FALSE)
           \/ GoesOn(t, "staleRelease") /\ loc[t].kind # "prepare"
           \/ GoesOn(t, "opening") /\ loc[t].kind # "prepare"
           \/ GoesOn(t, "failRelease") /\ loc[t].kind # "prepare"
    <3>1. CASE ReplaceFails(t)
      <4>1. CASE FailsStart(t, owner, FALSE, "FAILED", FALSE)
                   /\ loc[t].kind # "prepare"
        <5>1. Ends(t, FALSE) \/ GoesOn(t, "failRelease")
          BY <4>1 DEF FailsStart
        <5>. QED
          BY <1>0, <4>1, <5>1, FailsStartFacts
      <4>2. CASE /\ loc[t].kind = "prepare" /\ Ends(t, FALSE)
                 /\ \/ owner' = owner
                    \/ owner' = [owner EXCEPT !.status = "FAILED", !.state = "FAULTED"]
        BY <1>0, <4>2 DEF OwnerTypes
      <4>3. CASE /\ loc[t].kind # "prepare" /\ GoesOn(t, "staleRelease")
                 /\ owner' = [owner EXCEPT !.status = "RELEASING"]
        BY <1>0, <4>3 DEF OwnerTypes
      <4>. QED
        BY <3>1, <4>1, <4>2, <4>3 DEF ReplaceFails
    <3>2. CASE ReplaceSucceeds(t)
      <4>1. CASE loc[t].kind = "prepare" /\ Ends(t, FALSE) /\ owner' = owner
        BY <4>1
      <4>2. CASE /\ loc[t].kind = "prepare" /\ Ends(t, FALSE)
                 /\ owner' = [o EXCEPT !.state = "STOPPED"]
        BY <1>0, <4>2 DEF OwnerTypes
      <4>3. CASE /\ loc[t].kind # "prepare" /\ GoesOn(t, "staleRelease")
                 /\ owner' = [owner EXCEPT !.status = "RELEASING"]
        BY <1>0, <4>3 DEF OwnerTypes
      <4>4. CASE loc[t].kind # "prepare" /\ GoesOn(t, "opening") /\ owner' = o
        BY <1>0, <4>4 DEF OwnerTypes
      <4>. QED
        BY <3>2, <4>1, <4>2, <4>3, <4>4 DEF ReplaceSucceeds
    <3>. QED
      BY <1>r, <3>1, <3>2
  <2>4. SessionStays
    BY <1>r, <2>3 DEF SessionStays
  <2>5. CASE Ends(t, FALSE)
    BY <1>0, <1>r, <2>2, <2>3, <2>4, <2>5, TaskFacts DEF Effect, LeavesNothing
  <2>6. ASSUME NEW place \in {"staleRelease", "opening", "failRelease"},
               GoesOn(t, place), loc[t].kind # "prepare"
        PROVE  Effect(t)
    <3>1. MovesTo(t, place) /\ loc'[t] = loc[t] /\ pc'[t] = place
      BY <1>0, <2>6, TaskFacts DEF MovesTo
    <3>. QED
      BY <1>r, <1>s, <2>1, <2>2, <2>3, <2>4, <2>6, <3>1 DEF Effect, MovesInside,
         IntentStays, HasLock, Tearing, Handing, Entry
  <2>. QED
    BY <2>3, <2>5, <2>6
<1>15. CASE ProviderBuilt(t)
  <2>1. /\ At(t, "replace") /\ UNCHANGED <<mic, capture, bound>>
        /\ \/ ReplaceFails(t) \/ ReplaceSucceeds(t)
           \/ GoesOn(t, "swap") /\ UNCHANGED owner
    BY <1>15 DEF ProviderBuilt
  <2>2. CASE GoesOn(t, "swap") /\ UNCHANGED owner
    <3>1. MovesTo(t, "swap") /\ loc'[t] = loc[t] /\ pc'[t] = "swap"
      BY <1>0, <2>2, TaskFacts DEF MovesTo
    <3>2. SessionStays /\ IntentStays
      BY <2>1, <2>2 DEF SessionStays, IntentStays
    <3>3. /\ pc[t] \in Starting \ {"ingress"} /\ t \notin killed /\ pc[t] \in Inside
          /\ pc[t] \notin Entry \cup {"ingress"}
      BY <2>1 DEF At, Starting, Inside, Entry
    <3>4. owner.source = None /\ loc[t].kind \in {"on", "restart", "prepare"}
      BY <1>0, <3>3 DEF OneSession, Roles
    <3>. QED
      BY <1>s, <2>1, <2>2, <3>1, <3>2, <3>3, <3>4 DEF Effect, MovesInside,
         IntentStays, HasLock, Tearing, Handing, Entry
  <2>. QED
    BY <1>r, <2>1, <2>2
<1>16. CASE OldProviderClosed(t)
  <2>1. /\ At(t, "swap") /\ UNCHANGED <<mic, capture, bound>>
        /\ ReplaceFails(t) \/ ReplaceSucceeds(t)
    BY <1>16 DEF OldProviderClosed
  <2>. QED
    BY <1>r, <2>1
<1>17. CASE SourceOpened(t)
  <2>1. /\ At(t, "opening") /\ UNCHANGED runtime
        /\ \/ /\ FailsStart(t, owner, FALSE, "DETACHED", TRUE)
              /\ UNCHANGED <<mic, capture, bound>>
           \/ \E s \in Sources :
                /\ mic[s] = "unused" /\ mic' = [mic EXCEPT ![s] = "open"]
                /\ \/ /\ loc' = [loc EXCEPT ![t].src = s] /\ Goes(t, "lateClose")
                      /\ UNCHANGED <<owner, capture, bound>>
                   \/ /\ ~ Stale(owner, loc[t].gen)
                      /\ owner' = [owner EXCEPT !.source = s, !.loop = s]
                      /\ capture' = [capture EXCEPT ![s] = "running"]
                      /\ bound' = [bound EXCEPT ![s] = loc[t].gen]
                      /\ GoesOn(t, "ingress")
    BY <1>17 DEF SourceOpened
  <2>2. /\ pc[t] \in Starting \ {"ingress"} /\ t \notin killed /\ pc[t] \in Inside
        /\ pc[t] \notin Entry \cup {"ingress"} /\ pc[t] = "opening"
    BY <2>1 DEF At, Starting, Inside, Entry
  <2>3. owner.source = None /\ loc[t].kind \in {"on", "restart"}
    BY <1>0, <2>2 DEF OneSession, Roles
  <2>4. CASE /\ FailsStart(t, owner, FALSE, "DETACHED", TRUE)
             /\ UNCHANGED <<mic, capture, bound>>
    BY <1>f, <2>1, <2>3, <2>4
  <2>5. ASSUME NEW s \in Sources, loc' = [loc EXCEPT ![t].src = s],
               Goes(t, "lateClose"), UNCHANGED <<owner, capture, bound>>
        PROVE  Effect(t)
    <3>1. /\ MovesTo(t, "lateClose") /\ pc'[t] = "lateClose"
          /\ loc'[t].gen = loc[t].gen /\ loc'[t].then = loc[t].then
      BY <1>0, <2>5, TaskFacts DEF MovesTo
    <3>2. SessionStays /\ IntentStays
      BY <2>5 DEF SessionStays, IntentStays
    <3>. QED
      BY <1>s, <2>2, <2>3, <2>5, <3>1, <3>2 DEF Effect, MovesInside, IntentStays,
         HasLock, Tearing, Handing, Entry
  <2>6. ASSUME NEW s \in Sources, mic[s] = "unused", mic' = [mic EXCEPT ![s] = "open"],
               ~ Stale(owner, loc[t].gen),
               owner' = [owner EXCEPT !.source = s, !.loop = s],
               capture' = [capture EXCEPT ![s] = "running"],
               bound' = [bound EXCEPT ![s] = loc[t].gen], GoesOn(t, "ingress")
        PROVE  Effect(t)
    <3>1. MovesTo(t, "ingress") /\ loc'[t] = loc[t]
      BY <1>0, <2>6, TaskFacts
    <3>2. /\ owner'.source = s /\ owner'.loop = s /\ IntentStays
          /\ owner'.state = owner.state /\ owner'.closed = owner.closed
      BY <1>0, <2>6 DEF IntentStays, OwnerTypes
    <3>3. mic'[s] = "open"
      BY <1>0, <2>6 DEF Typed
    <3>4. t \in Calls
      BY <1>c, <2>2
    <3>. QED
      BY <2>2, <2>6, <3>1, <3>2, <3>3, <3>4 DEF Effect, OpensSession
  <2>. QED
    BY <2>1, <2>4, <2>5, <2>6
<1>18. CASE LateSourceClosed(t)
  <2>1. /\ At(t, "lateClose") /\ loc' = [loc EXCEPT ![t].src = None]
        /\ owner' = [owner EXCEPT !.status = "RELEASING"]
        /\ Goes(t, "staleRelease") /\ UNCHANGED <<capture, bound, runtime>>
    BY <1>18 DEF LateSourceClosed
  <2>2. /\ MovesTo(t, "staleRelease") /\ pc'[t] = "staleRelease"
        /\ loc'[t].gen = loc[t].gen /\ loc'[t].then = loc[t].then
    BY <1>0, <2>1, TaskFacts DEF MovesTo
  <2>3. SessionStays /\ IntentStays /\ owner'.state = owner.state
    BY <1>0, <2>1 DEF SessionStays, IntentStays, OwnerTypes
  <2>4. /\ pc[t] \in Starting \ {"ingress", "replace", "swap"} /\ t \notin killed
        /\ pc[t] \in Inside /\ pc[t] \notin Entry \cup {"ingress"}
    BY <2>1 DEF At, Starting, Inside, Entry
  <2>5. owner.source = None /\ loc[t].kind \in {"on", "restart"}
    BY <1>0, <2>4 DEF OneSession, Roles
  <2>. QED
    BY <1>s, <2>1, <2>2, <2>3, <2>4, <2>5 DEF Effect, MovesInside, IntentStays,
       HasLock, Tearing, Handing, Entry
<1>19. CASE IngressStarted(t)
  <2>1. /\ pc[t] = "ingress" /\ t \notin killed /\ UNCHANGED Outside
        /\ \/ /\ owner' = [owner EXCEPT !.state = "RUNNING"] /\ Ends(t, FALSE)
              /\ UNCHANGED <<mic, capture, bound>>
           \/ FaultsLocked(t, loc[t].gen)
    BY <1>19 DEF IngressStarted, At
  <2>2. t \in Calls /\ owner.source # None /\ loc[t].kind \in {"on", "restart"}
    BY <1>0, <1>c, <2>1 DEF OneSession, Roles, Starting
  <2>3. CASE /\ owner' = [owner EXCEPT !.state = "RUNNING"] /\ Ends(t, FALSE)
             /\ UNCHANGED <<mic, capture, bound>>
    <3>1. SessionStays /\ IntentStays /\ owner'.state = "RUNNING"
      BY <1>0, <2>3 DEF SessionStays, IntentStays, OwnerTypes
    <3>. QED
      BY <1>0, <2>1, <2>2, <2>3, <3>1, TaskFacts DEF Effect, ReportsRunning
  <2>4. CASE TakesFaulted(t)
    BY <2>1, <2>4 DEF Effect, TakesForFault
  <2>5. CASE /\ Quits(t) /\ Stale(owner, loc[t].gen)
             /\ UNCHANGED <<owner, mic, capture, bound>>
    <3>1. ~ Current(t)
      <4>1. CASE loc[t].gen # owner.generation \/ owner.closed
        BY <1>g, <2>2, <4>1
      <4>2. CASE ~ owner.desired
        <5>1. Live(t) /\ pc[t] \in Entry \cup {"ingress"}
          BY <2>1 DEF Live
        <5>. QED
          BY <1>0, <2>2, <4>2, <5>1 DEF Attended
      <4>. QED
        BY <2>5, <4>1, <4>2 DEF Stale, Superseded
    <3>2. SessionStays /\ IntentStays
      BY <2>5 DEF SessionStays, IntentStays
    <3>. QED
      BY <2>5, <3>1, <3>2 DEF Effect, LeavesSession
  <2>. QED
    BY <1>0, <2>1, <2>3, <2>4, <2>5, TeardownFacts
<1>20. CASE StartReleased(t)
  <2>1. /\ pc[t] \in {"failRelease", "staleRelease"}
        /\ owner' = Detached(owner, "abort") /\ UNCHANGED <<mic, capture, bound>>
        /\ \E failed \in BOOLEAN : Ends(t, failed)
    BY <1>20 DEF StartReleased
  <2>2. Quits(t)
    BY <1>0, <2>1, TaskFacts
  <2>3. SessionStays /\ IntentStays /\ owner'.state = owner.state
    BY <1>0, <2>1 DEF SessionStays, IntentStays, Detached, OwnerTypes
  <2>4. pc[t] \notin Entry \cup {"ingress"}
    BY <2>1 DEF Entry
  <2>. QED
    BY <2>1, <2>2, <2>3, <2>4 DEF Effect, LeavesSession
<1>21. CASE CandidateBuilt(t)
  <2>1. /\ At(t, "handoff") /\ UNCHANGED <<mic, capture, bound>>
        /\ \/ owner' = [owner EXCEPT !.status = "READY"] /\ Ends(t, FALSE)
           \/ (GoesOn(t, "boundary") \/ GoesOn(t, "committed")) /\ UNCHANGED owner
    BY <1>21 DEF CandidateBuilt, HandoffFails
  <2>2. /\ pc[t] \in Handing /\ pc[t] \in Inside /\ t \notin killed
        /\ pc[t] \notin Entry \cup {"ingress"} /\ loc[t].kind = "on"
    BY <1>0, <2>1 DEF At, Handing, Inside, Entry, Roles
  <2>3. SessionStays /\ IntentStays /\ owner'.state = owner.state
    BY <1>0, <2>1 DEF SessionStays, IntentStays, OwnerTypes
  <2>4. CASE Ends(t, FALSE)
    BY <1>0, <2>1, <2>2, <2>3, <2>4, TaskFacts DEF Effect, LeavesSession
  <2>5. ASSUME NEW place \in {"boundary", "committed"}, GoesOn(t, place)
        PROVE  Effect(t)
    <3>1. MovesTo(t, place) /\ loc'[t] = loc[t] /\ pc'[t] = place
      BY <1>0, <2>5, TaskFacts DEF MovesTo
    <3>. QED
      BY <1>s, <2>1, <2>2, <2>3, <3>1 DEF Effect, MovesInside, IntentStays, HasLock,
         Tearing, Starting, Entry
  <2>. QED
    BY <2>1, <2>4, <2>5
<1>22. CASE HandoffResumes(t)
  <2>1. /\ At(t, "committed") /\ Ends(t, FALSE) /\ UNCHANGED <<mic, capture, bound>>
        /\ \/ owner' = owner
           \/ owner' = [owner EXCEPT !.config = loc[t].config,
                          !.signature = loc[t].config, !.token = t, !.status = "READY"]
    BY <1>22 DEF HandoffResumes, HandoffApplied
  <2>2. SessionStays /\ IntentStays /\ owner'.state = owner.state
    BY <1>0, <2>1 DEF SessionStays, IntentStays, OwnerTypes
  <2>3. pc[t] \notin Entry \cup {"ingress"}
    BY <2>1 DEF At, Entry
  <2>. QED
    BY <1>0, <2>1, <2>2, <2>3, TaskFacts DEF Effect, LeavesSession
<1>23. CASE CancelledQuietly(t)
  <2>1. t \in killed /\ Abandons(t) /\ UNCHANGED <<owner, mic, capture, bound>>
    BY <1>23 DEF CancelledQuietly, Held
  <2>2. SessionStays /\ IntentStays
    BY <2>1 DEF SessionStays, IntentStays
  <2>. QED
    BY <1>0, <2>1, <2>2, TaskFacts DEF Effect, LeavesSession
<1>24. CASE CancelledClosing(t)
  <2>1. t \in killed /\ Abandons(t) /\ UNCHANGED <<owner, capture, bound>>
    BY <1>24 DEF CancelledClosing
  <2>2. SessionStays /\ IntentStays
    BY <2>1 DEF SessionStays, IntentStays
  <2>. QED
    BY <1>0, <2>1, <2>2, TaskFacts DEF Effect, LeavesSession
<1>25. CASE CancelledReleasing(t)
  <2>1. /\ t \in killed /\ Abandons(t) /\ UNCHANGED <<mic, capture, bound>>
        /\ owner' = Detached(owner, "abort") \/ UNCHANGED owner
    BY <1>25 DEF CancelledReleasing
  <2>2. SessionStays /\ IntentStays /\ owner'.state = owner.state
    BY <1>0, <2>1 DEF SessionStays, IntentStays, Detached, OwnerTypes
  <2>. QED
    BY <1>0, <2>1, <2>2, TaskFacts DEF Effect, LeavesSession
<1>26. CASE CancelledWaiting(t)
  <2>1. t \in killed /\ Abandons(t) /\ UNCHANGED <<owner, mic, capture, bound>>
    BY <1>26 DEF CancelledWaiting
  <2>2. SessionStays /\ IntentStays
    BY <2>1 DEF SessionStays, IntentStays
  <2>. QED
    BY <1>0, <2>1, <2>2, TaskFacts DEF Effect, LeavesSession
<1>27. CASE FaultRuns(t)
  <2>1. t \notin Calls /\ Acquired(t) /\ FaultsLocked(t, loc[t].gen)
    BY <1>27, CaptureAssumption DEF FaultRuns, CaptureAssumption
  <2>2. CASE TakesFaulted(t)
    BY <2>1, <2>2 DEF Effect, TakesForFault
  <2>3. CASE Quits(t) /\ UNCHANGED <<owner, mic, capture, bound>>
    BY <2>1, <2>3 DEF Effect, LeavesSession, SessionStays, IntentStays
  <2>. QED
    BY <1>0, <2>1, <2>2, <2>3, TeardownFacts
<1>28. CASE TerminalRuns(t)
  <2>1. t \notin Calls /\ t \in Failures /\ Acquired(t)
    BY <1>28, CaptureAssumption DEF TerminalRuns, CaptureAssumption
  <2>2. CASE FaultsLocked(t, owner.generation)
    <3>1. CASE TakesFaulted(t)
      BY <2>1, <3>1 DEF Effect, TakesForFault
    <3>2. CASE Quits(t) /\ UNCHANGED <<owner, mic, capture, bound>>
      BY <2>1, <3>2 DEF Effect, LeavesSession, SessionStays, IntentStays
    <3>. QED
      BY <1>0, <2>2, <3>1, <3>2, TeardownFacts
  <2>3. CASE Ends(t, FALSE) /\ UNCHANGED <<owner, mic, capture, bound>>
    BY <1>0, <2>1, <2>3, TaskFacts DEF Effect, LeavesSession, SessionStays, IntentStays
  <2>4. CASE /\ Ends(t, FALSE) /\ UNCHANGED <<mic, capture, bound>> /\ ~ owner.desired
             /\ owner' = [owner EXCEPT !.status = "FAILED", !.state = "FAULTED"]
    <3>1. SessionStays /\ IntentStays /\ owner'.state = "FAULTED"
      BY <1>0, <2>4 DEF SessionStays, IntentStays, OwnerTypes
    <3>. QED
      BY <1>0, <2>1, <2>4, <3>1, TaskFacts DEF Effect, ReportsFault
  <2>. QED
    BY <1>28, <2>2, <2>3, <2>4 DEF TerminalRuns
<1>. QED
  BY <1>1, <1>2, <1>3, <1>4, <1>5, <1>6, <1>7, <1>8, <1>9, <1>10, <1>11, <1>12,
     <1>13, <1>14, <1>15, <1>16, <1>17, <1>18, <1>19, <1>20, <1>21, <1>22, <1>23,
     <1>24, <1>25, <1>26, <1>27, <1>28 DEF BodyStep

\* A step of a body concerns one live task, which stays in the queue or leaves it.
LEMMA BodyFrame ==
    ASSUME CaptureInv, NEW t \in Tasks, BodyStep(t)
    PROVE  /\ Live(t) /\ OthersStay(t) /\ loc'[t].kind = loc[t].kind
           /\ UNCHANGED Outside /\ owner'.closed = owner.closed
           /\ \/ Locks(t)
              \/ Quits(t)
              \/ HasLock(t) /\ \E place \in Inside : MovesTo(t, place)
<1>1. Live(t)
  BY DEF BodyStep, Locks, SupersededBody, TurnsOff, TurnsOn, Restarts, KeepsSession,
     Prepares, TearsDown, LoopEnded, SourceClosed, DebtRetried, DebtsSettled,
     ProviderReleased, AdmissionReturns, ProviderBuilt, OldProviderClosed,
     SourceOpened, LateSourceClosed, IngressStarted, StartReleased, CandidateBuilt,
     HandoffResumes, CancelledQuietly, CancelledClosing, CancelledReleasing,
     CancelledWaiting, FaultRuns, TerminalRuns, Acquired, At, Live, Passive
<1>2. Effect(t)
  BY BodyEffects
<1>3. UNCHANGED Outside
  BY BodyOutside
<1>4. Typed /\ pc \in [Tasks -> Pcs]
  BY DEF CaptureInv, Typed
<1>5. "loop" \in Inside /\ "ingress" \in Inside
  BY DEF Inside, Tearing, Starting
<1>6. CASE Locks(t)
  BY <1>1, <1>3, <1>4, <1>6 DEF Locks, OthersStay
<1>7. CASE LeavesSession(t) \/ LeavesNothing(t) \/ ReportsRunning(t) \/ ReportsFault(t)
  BY <1>1, <1>3, <1>7 DEF LeavesSession, LeavesNothing, ReportsRunning, ReportsFault,
     Quits, SessionStays
<1>8. CASE TakesCurrent(t)
  BY <1>1, <1>3, <1>5, <1>8 DEF TakesCurrent, TakesSession, MovesTo, HasLock
<1>9. CASE TakesForFault(t)
  <2>1. HasLock(t)
    BY <1>5, <1>9 DEF TakesForFault, HasLock
  <2>. QED
    BY <1>1, <1>3, <1>5, <1>9, <2>1 DEF TakesForFault, TakesFaulted, TakesSession,
       MovesTo
<1>10. CASE MovesInside(t)
  BY <1>1, <1>3, <1>10 DEF MovesInside, MovesTo, SessionStays
<1>11. CASE OpensSession(t)
  <2>1. HasLock(t)
    BY <1>11 DEF OpensSession, HasLock, Inside, Starting
  <2>. QED
    BY <1>1, <1>3, <1>5, <1>11, <2>1 DEF OpensSession, MovesTo
<1>. QED
  BY <1>2, <1>6, <1>7, <1>8, <1>9, <1>10, <1>11 DEF Effect

-----------------------------------------------------------------------------
(* What a step of a body does with the sources. *)

\* Where a task may hold a source.
Holders == {"loop", "closing", "lateClose"}

\* It has none of the sources in hand, or dies with the one it has.
KeepsSources(t) ==
    /\ UNCHANGED mic /\ owner'.source = owner.source /\ owner'.retired = owner.retired
    /\ pc'[t] \notin Holders
    /\ loc'[t].src = None \/ loc'[t].src = loc[t].src
    /\ pc[t] \in Holders => pc'[t] = "done" /\ loc'[t].src = loc[t].src

\* It opens one, for the session or to close it at once.
OpensSource(t) ==
    /\ pc[t] = "opening"
    /\ \E s \in Sources :
         /\ mic[s] = "unused" /\ mic' = [mic EXCEPT ![s] = "open"]
         /\ owner'.retired = owner.retired
         /\ \/ owner'.source = s /\ pc'[t] = "ingress" /\ loc'[t].src = loc[t].src
            \/ UNCHANGED owner /\ pc'[t] = "lateClose" /\ loc'[t].src = s

SourceEffect(t) ==
    \/ KeepsSources(t) \/ OpensSource(t)
    \/ TakesSession(t) /\ pc[t] \in {"lock", "ingress"}
    \/ LoopEnded(t) \/ SourceClosed(t) \/ DebtRetried(t) \/ LateSourceClosed(t)
    \/ CancelledClosing(t)

\* Whatever step a body makes, what it does to the sources and to who is to close
\* them is one of SourceEffect.
LEMMA BodySources ==
    ASSUME CaptureInv, NEW t \in Tasks, BodyStep(t)
    PROVE  SourceEffect(t)
<1>0. /\ Typed /\ Roles /\ OneSession /\ owner \in OwnerTypes /\ loc[t] \in Locals
      /\ loc \in [Tasks -> Locals] /\ pc \in [Tasks -> Pcs]
  BY DEF CaptureInv, Typed
<1>h. /\ \A place \in {"start", "lock", "debts", "release", "admission", "replace",
                       "swap", "opening", "ingress", "failRelease", "staleRelease",
                       "handoff", "boundary", "committed", "done"} :
           place \notin Holders
  BY DEF Holders
<1>e. ASSUME Quits(t), loc'[t].src = None, pc[t] \notin Holders,
             owner'.source = owner.source, owner'.retired = owner.retired,
             UNCHANGED mic
      PROVE  SourceEffect(t)
  BY <1>e, <1>h DEF SourceEffect, KeepsSources, Quits
<1>m. ASSUME NEW place, MovesTo(t, place), place \notin Holders, loc'[t].src = loc[t].src,
             pc[t] \notin Holders,
             owner'.source = owner.source, owner'.retired = owner.retired,
             UNCHANGED mic
      PROVE  SourceEffect(t)
  BY <1>m, <1>h DEF SourceEffect, KeepsSources, MovesTo
<1>1. CASE Locks(t)
  BY <1>0, <1>1, <1>h DEF Locks, SourceEffect, KeepsSources
<1>2. CASE SupersededBody(t)
  BY <1>0, <1>2, <1>e, <1>h, TaskFacts DEF SupersededBody, Acquired, At, Held
<1>3. ASSUME TakesSession(t), Acquired(t) \/ At(t, "ingress") PROVE SourceEffect(t)
  BY <1>3 DEF Acquired, At, SourceEffect
<1>4. CASE TurnsOff(t) \/ Restarts(t)
  <2>1. Acquired(t) /\ pc[t] = "lock"
    BY <1>4 DEF TurnsOff, Restarts, Acquired, At
  <2>2. Effect(t) /\ pc'[t] = "loop"
    BY <1>0, <1>4, BodyEffects DEF TurnsOff, Restarts, BeginsTeardown, Goes, BodyStep
  <2>. QED
    BY <1>0, <1>3, <2>1, <2>2 DEF Effect, Locks, LeavesSession, LeavesNothing,
       ReportsRunning, ReportsFault, Quits, MovesInside, MovesTo, OpensSession,
       TakesCurrent, TakesForFault, TakesFaulted
<1>5. CASE TurnsOn(t)
  <2>1. /\ owner'.source = owner.source /\ owner'.retired = owner.retired
        /\ GoesOn(t, "admission") /\ UNCHANGED mic /\ pc[t] = "lock"
    BY <1>0, <1>5 DEF TurnsOn, BeginsStart, OwnerTypes, Acquired, At
  <2>. QED
    BY <1>0, <1>h, <1>m, <2>1, TaskFacts
<1>6. CASE KeepsSession(t)
  <2>1. /\ owner'.source = owner.source /\ owner'.retired = owner.retired
        /\ Ends(t, FALSE) \/ GoesOn(t, "handoff") 
        /\ UNCHANGED mic /\ pc[t] = "lock"
    BY <1>0, <1>6 DEF KeepsSession, OwnerTypes, Acquired, At
  <2>. QED
    BY <1>0, <1>e, <1>h, <1>m, <2>1, TaskFacts
<1>7. CASE Prepares(t)
  <2>1. /\ owner'.source = owner.source /\ owner'.retired = owner.retired
        /\ Ends(t, FALSE) \/ GoesOn(t, "replace")
        /\ UNCHANGED mic /\ pc[t] = "lock"
    BY <1>0, <1>7 DEF Prepares, OwnerTypes, Acquired, At, Held
  <2>. QED
    BY <1>0, <1>e, <1>h, <1>m, <2>1, TaskFacts
<1>8. CASE TearsDown(t)
  <2>1. Acquired(t) /\ pc[t] = "lock"
    BY <1>8 DEF TearsDown, Acquired, At
  <2>2. CASE Ends(t, FALSE) /\ UNCHANGED <<owner, mic, capture, bound>>
    BY <1>0, <1>e, <1>h, <2>1, <2>2, TaskFacts
  <2>3. CASE pc'[t] = "loop"
    <3>1. Effect(t)
      BY <1>8, BodyEffects DEF BodyStep
    <3>. QED
      BY <1>0, <1>3, <2>1, <2>3, <3>1 DEF Effect, Locks, LeavesSession, LeavesNothing,
         ReportsRunning, ReportsFault, Quits, MovesInside, MovesTo, OpensSession,
         TakesCurrent, TakesForFault, TakesFaulted
  <2>. QED
    BY <1>0, <1>8, <2>2, <2>3 DEF TearsDown, BeginsTeardown, Goes
<1>9. CASE LoopEnded(t) \/ SourceClosed(t) \/ DebtRetried(t) \/ LateSourceClosed(t)
             \/ CancelledClosing(t)
  BY <1>9 DEF SourceEffect
<1>t. ASSUME NEW o \in OwnerTypes, NEW failed \in BOOLEAN,
             FinishesTeardown(t, o, failed), pc[t] \in {"debts", "release"},
             UNCHANGED mic, o.source = owner.source, o.retired = owner.retired
      PROVE  SourceEffect(t)
  <2>1. /\ owner'.source = o.source /\ owner'.retired = o.retired
    BY <1>0, <1>t DEF FinishesTeardown, OwnerTypes
  <2>2. \/ Quits(t) /\ loc'[t].src = None
        \/ MovesTo(t, "admission") /\ loc'[t].src = None
    BY <1>0, <1>t, FinishesFacts
  <2>3. CASE MovesTo(t, "admission") /\ loc'[t].src = None
    BY <1>h, <1>t, <2>1, <2>3 DEF SourceEffect, KeepsSources, MovesTo
  <2>. QED
    BY <1>e, <1>h, <1>t, <2>1, <2>2, <2>3
<1>12. CASE DebtsSettled(t)
  <2>1. /\ pc[t] = "debts" /\ UNCHANGED mic /\ loc[t].failed \in BOOLEAN
        /\ \/ owner' = [owner EXCEPT !.status = "RELEASING"] /\ GoesOn(t, "release")
           \/ FinishesTeardown(t, owner, loc[t].failed)
    BY <1>0, <1>12 DEF DebtsSettled, Held, At, Locals
  <2>2. CASE owner' = [owner EXCEPT !.status = "RELEASING"] /\ GoesOn(t, "release")
    <3>1. owner'.source = owner.source /\ owner'.retired = owner.retired
      BY <1>0, <2>2 DEF OwnerTypes
    <3>. QED
      BY <1>0, <1>h, <1>m, <2>1, <2>2, <3>1, TaskFacts
  <2>. QED
    BY <1>0, <1>t, <2>1, <2>2
<1>13. CASE ProviderReleased(t)
  <2>. DEFINE o == Detached(owner, loc[t].mode)
  <2>1. /\ pc[t] = "release" /\ UNCHANGED mic
        /\ \/ FinishesTeardown(t, o, loc[t].failed)
           \/ FinishesTeardown(t, owner, TRUE)
    BY <1>13 DEF ProviderReleased, At
  <2>2. o \in OwnerTypes /\ loc[t].failed \in BOOLEAN
    BY <1>0, OwnerTyped DEF Locals
  <2>3. o.source = owner.source /\ o.retired = owner.retired
    BY <1>0 DEF Detached, OwnerTypes
  <2>. HIDE DEF o
  <2>. QED
    BY <1>0, <1>t, <2>1, <2>2, <2>3
<1>f. ASSUME NEW d \in BOOLEAN, NEW status, NEW releases \in BOOLEAN,
             FailsStart(t, owner, d, status, releases),
             pc[t] \in {"admission", "replace", "swap", "opening"}, UNCHANGED mic
      PROVE  SourceEffect(t)
  <2>1. owner'.source = owner.source /\ owner'.retired = owner.retired
    BY <1>0, <1>f DEF FailsStart, OwnerTypes
  <2>2. \/ Quits(t) /\ loc'[t].src = None
        \/ MovesTo(t, "failRelease") /\ loc'[t] = loc[t]
    BY <1>0, <1>f, FailsStartFacts
  <2>. QED
    BY <1>e, <1>f, <1>h, <1>m, <2>1, <2>2
<1>14. CASE AdmissionReturns(t)
  <2>1. /\ pc[t] = "admission" /\ UNCHANGED mic
        /\ \/ \E d \in BOOLEAN : FailsStart(t, owner, d, "DETACHED", FALSE)
           \/ /\ owner'.source = owner.source /\ owner'.retired = owner.retired
              /\ Ends(t, FALSE) \/ GoesOn(t, "opening") \/ GoesOn(t, "replace")
    <3>1. owner.desired \in BOOLEAN
      BY <1>0 DEF OwnerTypes
    <3>. QED
      BY <1>0, <1>14, <3>1 DEF AdmissionReturns, GoesForProvider, Held, At, Invalidated,
         OwnerTypes
  <2>. QED
    BY <1>0, <1>e, <1>f, <1>h, <1>m, <2>1, TaskFacts
<1>r. ASSUME ReplaceFails(t) \/ ReplaceSucceeds(t), pc[t] \in {"replace", "swap"},
             UNCHANGED mic
      PROVE  SourceEffect(t)
  <2>1. CASE FailsStart(t, owner, FALSE, "FAILED", FALSE)
    BY <1>f, <1>r, <2>1
  <2>. DEFINE o == [owner EXCEPT !.status = "READY", !.signature = loc[t].config,
                                 !.token = t]
  <2>2. ASSUME \/ owner' = owner
               \/ owner' = [owner EXCEPT !.status = "FAILED", !.state = "FAULTED"]
               \/ owner' = [owner EXCEPT !.status = "RELEASING"]
               \/ owner' = o \/ owner' = [o EXCEPT !.state = "STOPPED"]
        PROVE  owner'.source = owner.source /\ owner'.retired = owner.retired
    BY <1>0, <2>2 DEF OwnerTypes
  <2>3. CASE Ends(t, FALSE) /\ ~ FailsStart(t, owner, FALSE, "FAILED", FALSE)
    <3>1. owner'.source = owner.source /\ owner'.retired = owner.retired
      BY <1>r, <2>2, <2>3 DEF ReplaceFails, ReplaceSucceeds
    <3>. QED
      BY <1>0, <1>e, <1>h, <1>r, <2>3, <3>1, TaskFacts
  <2>4. ASSUME NEW place \in {"staleRelease", "opening"}, GoesOn(t, place),
               ~ FailsStart(t, owner, FALSE, "FAILED", FALSE)
        PROVE  SourceEffect(t)
    <3>1. owner'.source = owner.source /\ owner'.retired = owner.retired
      BY <1>r, <2>2, <2>4 DEF ReplaceFails, ReplaceSucceeds
    <3>. QED
      BY <1>0, <1>m, <1>h, <1>r, <2>4, <3>1, TaskFacts
  <2>. QED
    BY <1>r, <2>1, <2>3, <2>4 DEF ReplaceFails, ReplaceSucceeds
<1>15. CASE ProviderBuilt(t)
  <2>1. /\ pc[t] = "replace" /\ UNCHANGED mic
        /\ \/ ReplaceFails(t) \/ ReplaceSucceeds(t)
           \/ GoesOn(t, "swap") /\ UNCHANGED owner
    BY <1>15 DEF ProviderBuilt, At
  <2>2. CASE GoesOn(t, "swap") /\ UNCHANGED owner
    BY <1>0, <1>h, <1>m, <2>1, <2>2, TaskFacts
  <2>. QED
    BY <1>r, <2>1, <2>2
<1>16. CASE OldProviderClosed(t)
  BY <1>16, <1>r DEF OldProviderClosed, At
<1>17. CASE SourceOpened(t)
  <2>1. pc[t] = "opening"
    BY <1>17 DEF SourceOpened, At
  <2>2. CASE FailsStart(t, owner, FALSE, "DETACHED", TRUE) /\ UNCHANGED mic
    BY <1>f, <2>1, <2>2
  <2>3. ASSUME NEW s \in Sources, mic[s] = "unused", mic' = [mic EXCEPT ![s] = "open"],
               loc' = [loc EXCEPT ![t].src = s], Goes(t, "lateClose"), UNCHANGED owner
        PROVE  SourceEffect(t)
    <3>1. pc'[t] = "lateClose" /\ loc'[t].src = s
      BY <1>0, <2>3 DEF Goes, Locals
    <3>. QED
      BY <2>1, <2>3, <3>1 DEF SourceEffect, OpensSource
  <2>4. ASSUME NEW s \in Sources, mic[s] = "unused", mic' = [mic EXCEPT ![s] = "open"],
               owner' = [owner EXCEPT !.source = s, !.loop = s], GoesOn(t, "ingress")
        PROVE  SourceEffect(t)
    <3>1. pc'[t] = "ingress" /\ loc'[t] = loc[t]
      BY <1>0, <2>4, TaskFacts DEF MovesTo
    <3>2. owner'.source = s /\ owner'.retired = owner.retired
      BY <1>0, <2>4 DEF OwnerTypes
    <3>. QED
      BY <2>1, <2>4, <3>1, <3>2 DEF SourceEffect, OpensSource
  <2>. QED
    BY <1>17, <2>2, <2>3, <2>4 DEF SourceOpened
<1>19. CASE IngressStarted(t)
  <2>1. /\ At(t, "ingress") /\ pc[t] = "ingress"
        /\ \/ /\ owner' = [owner EXCEPT !.state = "RUNNING"] /\ Ends(t, FALSE)
              /\ UNCHANGED <<mic, capture, bound>>
           \/ FaultsLocked(t, loc[t].gen)
    BY <1>19 DEF IngressStarted, At
  <2>2. CASE /\ owner' = [owner EXCEPT !.state = "RUNNING"] /\ Ends(t, FALSE)
             /\ UNCHANGED <<mic, capture, bound>>
    <3>1. owner'.source = owner.source /\ owner'.retired = owner.retired
      BY <1>0, <2>2 DEF OwnerTypes
    <3>. QED
      BY <1>0, <1>e, <1>h, <2>1, <2>2, <3>1, TaskFacts
  <2>3. CASE TakesFaulted(t)
    BY <1>3, <2>1, <2>3 DEF TakesFaulted
  <2>4. CASE Quits(t) /\ loc'[t].src = None /\ UNCHANGED <<owner, mic, capture, bound>>
    BY <1>e, <1>h, <2>1, <2>4
  <2>. QED
    BY <1>0, <2>1, <2>2, <2>3, <2>4, TeardownFacts
<1>20. CASE StartReleased(t)
  <2>1. /\ pc[t] \in {"failRelease", "staleRelease"} /\ UNCHANGED mic
        /\ owner' = Detached(owner, "abort")
        /\ \E failed \in BOOLEAN : Ends(t, failed)
    BY <1>20 DEF StartReleased
  <2>2. owner'.source = owner.source /\ owner'.retired = owner.retired
    BY <1>0, <2>1 DEF Detached, OwnerTypes
  <2>. QED
    BY <1>0, <1>e, <1>h, <2>1, <2>2, TaskFacts
<1>21. CASE CandidateBuilt(t)
  <2>1. /\ pc[t] = "handoff" /\ UNCHANGED mic
        /\ owner'.source = owner.source /\ owner'.retired = owner.retired
        /\ Ends(t, FALSE) \/ GoesOn(t, "boundary") \/ GoesOn(t, "committed")
    BY <1>0, <1>21 DEF CandidateBuilt, HandoffFails, At, OwnerTypes
  <2>. QED
    BY <1>0, <1>e, <1>h, <1>m, <2>1, TaskFacts
<1>22. CASE HandoffResumes(t)
  <2>1. /\ pc[t] = "committed" /\ UNCHANGED mic /\ Ends(t, FALSE)
        /\ \/ owner' = owner
           \/ owner' = [owner EXCEPT !.config = loc[t].config,
                          !.signature = loc[t].config, !.token = t, !.status = "READY"]
    BY <1>22 DEF HandoffResumes, HandoffApplied, At
  <2>2. owner'.source = owner.source /\ owner'.retired = owner.retired
    BY <1>0, <2>1 DEF OwnerTypes
  <2>. QED
    BY <1>0, <1>e, <1>h, <2>1, <2>2, TaskFacts
<1>23. CASE CancelledQuietly(t) \/ CancelledReleasing(t) \/ CancelledWaiting(t)
  <2>1. /\ Abandons(t) /\ UNCHANGED mic
        /\ owner' = Detached(owner, "abort") \/ UNCHANGED owner
    BY <1>23 DEF CancelledQuietly, CancelledReleasing, CancelledWaiting, Held
  <2>2. owner'.source = owner.source /\ owner'.retired = owner.retired
    BY <1>0, <2>1 DEF Detached, OwnerTypes
  <2>. QED
    BY <1>0, <1>h, <2>1, <2>2, TaskFacts DEF SourceEffect, KeepsSources, Quits
<1>27. ASSUME Acquired(t), NEW g, FaultsLocked(t, g) PROVE SourceEffect(t)
  <2>1. CASE TakesFaulted(t)
    BY <1>3, <1>27, <2>1 DEF TakesFaulted
  <2>2. CASE Quits(t) /\ loc'[t].src = None /\ UNCHANGED <<owner, mic, capture, bound>>
    BY <1>e, <1>h, <1>27, <2>2 DEF Acquired, At
  <2>. QED
    BY <1>0, <1>27, <2>1, <2>2, TeardownFacts
<1>28. CASE FaultRuns(t) \/ TerminalRuns(t)
  <2>1. /\ Acquired(t) /\ pc[t] = "lock"
        /\ \/ \E g : FaultsLocked(t, g)
           \/ /\ Ends(t, FALSE) /\ UNCHANGED mic
              /\ \/ UNCHANGED owner
                 \/ owner' = [owner EXCEPT !.status = "FAILED", !.state = "FAULTED"]
    BY <1>28 DEF FaultRuns, TerminalRuns, Acquired, At
  <2>2. CASE /\ Ends(t, FALSE) /\ UNCHANGED mic
             /\ \/ UNCHANGED owner
                \/ owner' = [owner EXCEPT !.status = "FAILED", !.state = "FAULTED"]
    <3>1. owner'.source = owner.source /\ owner'.retired = owner.retired
      BY <1>0, <2>2 DEF OwnerTypes
    <3>. QED
      BY <1>0, <1>e, <1>h, <2>1, <2>2, <3>1, TaskFacts
  <2>. QED
    BY <1>27, <2>1, <2>2
<1>. QED
  BY <1>1, <1>2, <1>4, <1>5, <1>6, <1>7, <1>8, <1>9, <1>12, <1>13, <1>14, <1>15,
     <1>16, <1>17, <1>19, <1>20, <1>21, <1>22, <1>23, <1>28 DEF BodyStep

-----------------------------------------------------------------------------
(* The steps of the callers. *)

\* The call c is declared, for the next generation.
Declared(c, place) ==
    /\ OthersStay(c) /\ pc'[c] = place /\ pc[c] = "none"
    /\ loc'[c].gen = owner.generation + 1
    /\ loc'[c].src = None /\ loc'[c].then = "end"
    /\ owner'.generation = owner.generation + 1
    /\ owner'.source = owner.source /\ owner'.loop = owner.loop
    /\ owner'.retired = owner.retired
    /\ \A d \in Calls \ {c} : caller'[d] = caller[d]
    /\ caller[c] \in {"idle", "frozen"}
    /\ UNCHANGED <<mic, capture, runtime, queue>>

DeclaresIntent(c) ==
    /\ Declared(c, "start") /\ caller'[c] = "awaiting"
    /\ loc'[c].kind \in Intents
    /\ ~ owner.closed /\ ~ owner'.closed
    /\ owner'.state = owner.state
    /\ owner'.desired = (loc'[c].kind # "off")
    /\ bound' = IF loc'[c].kind = "on" /\ owner.state = "RUNNING"
                THEN Rebound(owner, owner.generation + 1) ELSE bound
    /\ transition' = c /\ killed' = WithKilled(Pending)

DeclaresPreparation(c) ==
    /\ Declared(c, "start") /\ caller'[c] = "awaiting"
    /\ loc'[c].kind = "prepare"
    /\ ~ owner.closed /\ ~ owner'.closed /\ owner.source = None
    /\ owner'.state = "STARTING"
    /\ UNCHANGED <<bound, transition, killed>>

DeclaresRetirement(c) ==
    /\ Declared(c, "none") /\ caller'[c] = "retiring"
    /\ loc'[c].kind \in {"suspend", "close"}
    /\ loc'[c].kind = "suspend" => ~ owner.closed
    /\ owner'.closed = (owner.closed \/ loc'[c].kind = "close")
    /\ owner'.state = "STOPPING"
    /\ UNCHANGED bound
    /\ transition' = None /\ killed' = WithKilled(Pending)

Freezes(c) ==
    /\ caller[c] = "idle" /\ caller' = [caller EXCEPT ![c] = "frozen"]
    /\ owner'.generation = owner.generation + 1
    /\ owner'.source = owner.source /\ owner'.loop = owner.loop
    /\ owner'.retired = owner.retired /\ owner'.state = owner.state
    /\ owner'.closed = owner.closed
    /\ UNCHANGED <<mic, capture, bound, runtime, queue, transition, pc, loc, killed>>

\* The caller of close or suspend has no transition to wait for any more.
Proceeds(c) ==
    /\ caller[c] = "retiring" /\ caller' = [caller EXCEPT ![c] = "awaiting"]
    /\ pc' = [pc EXCEPT ![c] = "start"]
    /\ UNCHANGED <<owner, mic, capture, bound, runtime, queue, transition, loc, killed>>

\* The call is over, or its caller finds it over.
Returns(c) ==
    /\ \/ /\ caller[c] = "awaiting" /\ pc[c] = "done"
          /\ \/ /\ loc[c].kind = "close"
                /\ caller' = [caller EXCEPT ![c] = "faults"]
                /\ killed' = WithKilled(Sources)
             \/ caller' = [caller EXCEPT ![c] = "returned"] /\ UNCHANGED killed
          /\ transition' = IF transition = c THEN None ELSE transition
       \/ /\ caller[c] = "faults" /\ caller' = [caller EXCEPT ![c] = "closed"]
          /\ UNCHANGED <<transition, killed>>
       \/ UNCHANGED <<caller, transition, killed>>
    /\ UNCHANGED <<owner, mic, capture, bound, runtime, queue, pc, loc>>

CallEffect(c) ==
    \/ DeclaresIntent(c) \/ DeclaresPreparation(c) \/ DeclaresRetirement(c)
    \/ Freezes(c) \/ Proceeds(c) \/ Returns(c)

\* Whatever a caller does, it has one of the six effects.
LEMMA CallEffects ==
    ASSUME CaptureInv, NEW c \in Calls, Start(c) \/ CallerStep(c)
    PROVE  CallEffect(c)
<1>0. /\ owner \in OwnerTypes /\ owner.generation + 1 \in Nat /\ c \in Tasks
      /\ caller \in [Calls -> {"idle", "awaiting", "retiring", "frozen", "returned",
                               "faults", "closed"}]
      /\ pc \in [Tasks -> Pcs] /\ loc \in [Tasks -> Locals]
      /\ caller[c] \in {"idle", "frozen", "retiring"} => pc[c] = "none"
  <2>1. Typed /\ Callers
    BY DEF CaptureInv
  <2>2. owner \in OwnerTypes
    BY <2>1 DEF Typed
  <2>. QED
    BY <2>1, <2>2 DEF Typed, OwnerTypes, Tasks, Callers
<1>1. ASSUME NEW k \in Intents, NEW f, NEW force, caller[c] = "idle",
             ApplyIntent(c, k, f, force)
      PROVE  DeclaresIntent(c)
  <2>. DEFINE g == owner.generation + 1
              l == [NoLocals EXCEPT !.kind = k, !.gen = g, !.config = f,
                                    !.force = force]
  <2>1. l.kind = k /\ l.gen = g /\ l.src = None /\ l.then = "end"
    BY DEF NoLocals
  <2>2. /\ owner' = [owner EXCEPT !.generation = g, !.desired = k # "off"]
        /\ loc' = [loc EXCEPT ![c] = l] /\ pc' = [pc EXCEPT ![c] = "start"]
        /\ caller' = [caller EXCEPT ![c] = "awaiting"]
        /\ bound' = IF k = "on" /\ owner.state = "RUNNING"
                    THEN Rebound(owner, g) ELSE bound
        /\ ~ owner.closed /\ transition' = c /\ killed' = WithKilled(Pending)
        /\ UNCHANGED <<mic, capture, runtime, queue>>
    BY <1>1 DEF ApplyIntent
  <2>3. /\ owner'.generation = g /\ owner'.source = owner.source
        /\ owner'.loop = owner.loop /\ owner'.retired = owner.retired
        /\ owner'.closed = owner.closed /\ owner'.state = owner.state
        /\ owner'.desired = (k # "off")
    BY <1>0, <2>2 DEF OwnerTypes
  <2>. HIDE DEF l
  <2>4. loc'[c] = l /\ OthersStay(c) /\ pc'[c] = "start"
    BY <1>0, <2>2 DEF OthersStay
  <2>5. caller'[c] = "awaiting" /\ \A d \in Calls \ {c} : caller'[d] = caller[d]
    BY <1>0, <2>2
  <2>. QED
    BY <1>0, <1>1, <2>1, <2>2, <2>3, <2>4, <2>5 DEF DeclaresIntent, Declared
<1>2. ASSUME NEW f, caller[c] = "idle", PrepareProvider(c, f)
      PROVE  DeclaresPreparation(c)
  <2>. DEFINE g == owner.generation + 1
              l == [NoLocals EXCEPT !.kind = "prepare", !.gen = g, !.config = f]
  <2>1. l.kind = "prepare" /\ l.gen = g /\ l.src = None /\ l.then = "end"
    BY DEF NoLocals
  <2>2. /\ owner' = [owner EXCEPT !.generation = g, !.config = f,
                                  !.state = "STARTING", !.status = "PENDING"]
        /\ loc' = [loc EXCEPT ![c] = l] /\ pc' = [pc EXCEPT ![c] = "start"]
        /\ caller' = [caller EXCEPT ![c] = "awaiting"]
        /\ ~ owner.closed /\ owner.source = None
        /\ UNCHANGED <<mic, capture, bound, runtime, queue, transition, killed>>
    BY <1>2 DEF PrepareProvider
  <2>3. /\ owner'.generation = g /\ owner'.source = owner.source
        /\ owner'.loop = owner.loop /\ owner'.retired = owner.retired
        /\ owner'.closed = owner.closed /\ owner'.state = "STARTING"
    BY <1>0, <2>2 DEF OwnerTypes
  <2>. HIDE DEF l
  <2>4. loc'[c] = l /\ OthersStay(c) /\ pc'[c] = "start"
    BY <1>0, <2>2 DEF OthersStay
  <2>5. caller'[c] = "awaiting" /\ \A d \in Calls \ {c} : caller'[d] = caller[d]
    BY <1>0, <2>2
  <2>. QED
    BY <1>0, <1>2, <2>1, <2>2, <2>3, <2>4, <2>5 DEF DeclaresPreparation, Declared
<1>3. ASSUME NEW k \in {"suspend", "close"}, caller[c] \in {"idle", "frozen"},
             Retire(c, k)
      PROVE  DeclaresRetirement(c)
  <2>. DEFINE g == owner.generation + 1
              l == [NoLocals EXCEPT !.kind = k, !.gen = g]
  <2>1. l.kind = k /\ l.gen = g /\ l.src = None /\ l.then = "end"
    BY DEF NoLocals
  <2>2. /\ owner' = [owner EXCEPT !.generation = g, !.state = "STOPPING",
                                  !.closed = @ \/ k = "close",
                                  !.desired = @ /\ k # "close"]
        /\ loc' = [loc EXCEPT ![c] = l]
        /\ caller' = [caller EXCEPT ![c] = "retiring"]
        /\ k = "suspend" => ~ owner.closed
        /\ transition' = None /\ killed' = WithKilled(Pending)
        /\ UNCHANGED <<mic, capture, bound, runtime, queue, pc>>
    BY <1>3 DEF Retire
  <2>3. /\ owner'.generation = g /\ owner'.source = owner.source
        /\ owner'.loop = owner.loop /\ owner'.retired = owner.retired
        /\ owner'.closed = (owner.closed \/ k = "close") /\ owner'.state = "STOPPING"
    BY <1>0, <2>2 DEF OwnerTypes
  <2>. HIDE DEF l
  <2>4. loc'[c] = l /\ OthersStay(c) /\ pc'[c] = "none"
    BY <1>0, <1>3, <2>2 DEF OthersStay
  <2>5. caller'[c] = "retiring" /\ \A d \in Calls \ {c} : caller'[d] = caller[d]
    BY <1>0, <2>2
  <2>. QED
    BY <1>0, <1>3, <2>1, <2>2, <2>3, <2>4, <2>5 DEF DeclaresRetirement, Declared
<1>4. ASSUME caller[c] = "idle", FreezeIngress(c)
      PROVE  Freezes(c)
  BY <1>0, <1>4 DEF FreezeIngress, Freezes, Invalidated, OwnerTypes
<1>5. CASE Start(c)
  <2>1. caller[c] = "idle"
    BY <1>5 DEF Start
  <2>2. ASSUME NEW k \in Kinds \cap {"on", "restart"}, NEW f \in Configs,
               NEW force \in IF k = "restart" THEN BOOLEAN ELSE {FALSE},
               ApplyIntent(c, k, f, force)
        PROVE  CallEffect(c)
    BY <1>1, <2>1, <2>2 DEF Intents, CallEffect
  <2>3. CASE ApplyIntent(c, "off", None, FALSE)
    BY <1>1, <2>1, <2>3 DEF Intents, CallEffect
  <2>4. CASE \E f \in Configs : PrepareProvider(c, f)
    BY <1>2, <2>1, <2>4 DEF CallEffect
  <2>5. CASE \E k \in Kinds \cap {"suspend", "close"} : Retire(c, k)
    BY <1>3, <2>1, <2>5 DEF CallEffect
  <2>6. CASE FreezeIngress(c)
    BY <1>4, <2>1, <2>6 DEF CallEffect
  <2>. QED
    BY <1>5, <2>2, <2>3, <2>4, <2>5, <2>6 DEF Start
<1>6. CASE FrozenCloses(c)
  BY <1>3, <1>6 DEF FrozenCloses, CallEffect
<1>7. CASE TransitionEnded(c)
  BY <1>7 DEF TransitionEnded, CallEffect, Proceeds, Returns
<1>8. CASE NothingToWaitFor(c)
  BY <1>8 DEF NothingToWaitFor, CallEffect, Proceeds
<1>9. CASE CallReturns(c)
  BY <1>9 DEF CallReturns, CallEffect, Returns
<1>10. CASE FaultTasksEnded(c)
  BY <1>10 DEF FaultTasksEnded, CallEffect, Returns
<1>. QED
  BY <1>5, <1>6, <1>7, <1>8, <1>9, <1>10 DEF CallerStep

-----------------------------------------------------------------------------
(* The lock. *)

\* Dropping an element of a queue without repetitions takes it out, and moves
\* nobody to the front unless it was there itself.
LEMMA LeavingFacts ==
    ASSUME Typed, LockOK, NEW t \in Tasks, LeavesLock(t)
    PROVE  /\ \A i, j \in DOMAIN queue' : queue'[i] = queue'[j] => i = j
           /\ \A u \in Tasks : (\E i \in DOMAIN queue' : queue'[i] = u)
                                <=> u # t /\ \E i \in DOMAIN queue : queue[i] = u
           /\ \A u \in Tasks \ {t} : queue # <<>> /\ queue[1] = u
                                      => queue' # <<>> /\ queue'[1] = u
<1>0. queue \in Seq(Tasks)
  BY DEF Typed
<1>1. CASE /\ \A i \in DOMAIN queue : queue[i] # t
           /\ queue' = queue
  BY <1>0, <1>1 DEF LockOK
<1>2. ASSUME NEW k \in DOMAIN queue, queue[k] = t,
             queue' = SubSeq(queue, 1, k - 1) \o SubSeq(queue, k + 1, Len(queue))
      PROVE  /\ \A i, j \in DOMAIN queue' : queue'[i] = queue'[j] => i = j
             /\ \A u \in Tasks : (\E i \in DOMAIN queue' : queue'[i] = u)
                                  <=> u # t /\ \E i \in DOMAIN queue : queue[i] = u
             /\ \A u \in Tasks \ {t} : queue # <<>> /\ queue[1] = u
                                        => queue' # <<>> /\ queue'[1] = u
  <2>. DEFINE a == SubSeq(queue, 1, k - 1)
              b == SubSeq(queue, k + 1, Len(queue))
              n == Len(queue)
  <2>1. k \in 1 .. n /\ n \in Nat /\ DOMAIN queue = 1 .. n
    BY <1>0
  <2>2. /\ a \in Seq(Tasks) /\ Len(a) = k - 1
        /\ \A i \in 1 .. k - 1 : a[i] = queue[i]
    BY <1>0, <2>1
  <2>3. /\ b \in Seq(Tasks) /\ Len(b) = n - k
        /\ \A i \in 1 .. n - k : b[i] = queue[i + k]
    BY <1>0, <2>1
  <2>q. queue' = a \o b
    BY <1>2
  <2>. HIDE DEF a, b, n
  <2>4. /\ queue' \in Seq(Tasks) /\ Len(queue') = n - 1
        /\ \A i \in 1 .. n - 1 : queue'[i] = IF i < k THEN queue[i] ELSE queue[i + 1]
    <3>1. queue' \in Seq(Tasks) /\ Len(queue') = n - 1
      <4>1. a \o b \in Seq(Tasks) /\ Len(a \o b) = Len(a) + Len(b)
        BY <2>2, <2>3
      <4>. QED
        BY ONLY <2>q, <2>1, <2>2, <2>3, <4>1
    <3>2. ASSUME NEW i \in 1 .. n - 1
          PROVE  queue'[i] = IF i < k THEN queue[i] ELSE queue[i + 1]
      <4>1. CASE i < k
        BY <2>q, <2>1, <2>2, <2>3, <4>1
      <4>2. CASE i >= k
        <5>1. queue'[i] = b[i - (k - 1)]
          BY <2>q, <2>1, <2>2, <2>3, <4>2
        <5>2. i - (k - 1) \in 1 .. n - k /\ (i - (k - 1)) + k = i + 1
          BY <2>1, <4>2
        <5>. QED
          BY <2>1, <2>3, <4>2, <5>1, <5>2
      <4>. QED
        BY <2>1, <4>1, <4>2
    <3>. QED
      BY <3>1, <3>2
  <2>5. DOMAIN queue' = 1 .. n - 1
    BY <2>4
  <2>6. \A i, j \in DOMAIN queue : queue[i] = queue[j] => i = j
    BY DEF LockOK
  <2>7. ASSUME NEW i \in DOMAIN queue', NEW j \in DOMAIN queue', queue'[i] = queue'[j]
        PROVE  i = j
    <3>. DEFINE old(x) == IF x < k THEN x ELSE x + 1
    <3>1. old(i) \in DOMAIN queue /\ old(j) \in DOMAIN queue
      BY <2>1, <2>5, <2>7
    <3>2. queue[old(i)] = queue[old(j)]
      BY <2>4, <2>5, <2>7
    <3>3. old(i) = old(j)
      BY <2>6, <3>1, <3>2
    <3>. QED
      BY <2>1, <2>5, <2>7, <3>3
  <2>8. ASSUME NEW u \in Tasks, NEW i \in DOMAIN queue', queue'[i] = u
        PROVE  u # t /\ \E j \in DOMAIN queue : queue[j] = u
    <3>. DEFINE j == IF i < k THEN i ELSE i + 1
    <3>1. j \in DOMAIN queue /\ j # k /\ queue[j] = u
      BY <2>1, <2>4, <2>5, <2>8
    <3>. QED
      BY <1>2, <2>6, <3>1
  <2>9. ASSUME NEW u \in Tasks, u # t, NEW j \in DOMAIN queue, queue[j] = u
        PROVE  \E i \in DOMAIN queue' : queue'[i] = u
    <3>1. j # k
      BY <1>2, <2>9
    <3>. DEFINE i == IF j < k THEN j ELSE j - 1
    <3>2. i \in 1 .. n - 1 /\ queue'[i] = queue[j]
      BY <2>1, <2>4, <2>9, <3>1
    <3>. QED
      BY <2>5, <2>9, <3>2
  <2>10. ASSUME NEW u \in Tasks \ {t}, queue # <<>>, queue[1] = u
         PROVE  queue' # <<>> /\ queue'[1] = u
    <3>1. k # 1 /\ n >= 2
      BY <1>2, <2>1, <2>10
    <3>2. 1 \in 1 .. n - 1 /\ queue'[1] = queue[1]
      BY <2>1, <2>4, <3>1
    <3>. QED
      BY <2>4, <2>10, <3>1, <3>2
  <2>. QED
    BY <2>7, <2>8, <2>9, <2>10
<1>. QED
  BY <1>1, <1>2 DEF LeavesLock

\* Who has the lock is alone inside.
LEMMA Alone ==
    ASSUME Typed, LockOK, NEW t \in Tasks, HasLock(t)
    PROVE  \A u \in Tasks : pc[u] \in Inside => u = t
BY DEF HasLock, Acquired, LockOK, Typed

\* The lock serves those who are past their start, in order.
LEMMA LockStep ==
    ASSUME CaptureInv, [Next]_vars, Typed'
    PROVE  LockOK'
<1>0. /\ Typed /\ LockOK /\ Callers /\ SourceLife /\ PendingHandoff
      /\ pc \in [Tasks -> Pcs] /\ queue \in Seq(Tasks)
      /\ Calls \subseteq Tasks /\ Sources \subseteq Tasks /\ Failures \subseteq Tasks
  BY DEF CaptureInv, Typed, Tasks
<1>i. \A place \in Inside : place \notin {"none", "start", "done", "lock"}
  BY DEF Inside, Tearing, Starting, Handing
<1>1. ASSUME NEW c \in Calls, Start(c) \/ CallerStep(c) PROVE LockOK'
  <2>1. CallEffect(c)
    BY <1>1, CallEffects
  <2>2. /\ UNCHANGED queue
        /\ \A u \in Tasks : \/ pc'[u] = pc[u]
                            \/ pc[u] = "none" /\ pc'[u] = "start"
    BY <1>0, <2>1 DEF CallEffect, DeclaresIntent, DeclaresPreparation,
       DeclaresRetirement, Declared, Freezes, Proceeds, Returns, OthersStay, Callers
  <2>. QED
    BY <1>0, <1>i, <2>2 DEF LockOK
<1>2. ASSUME NEW t \in Tasks, BodyStep(t) PROVE LockOK'
  <2>1. /\ OthersStay(t)
        /\ \/ Locks(t)
           \/ Quits(t)
           \/ HasLock(t) /\ \E place \in Inside : MovesTo(t, place)
    BY <1>2, BodyFrame
  <2>2. CASE Locks(t)
    <3>1. /\ queue' = Append(queue, t) /\ pc[t] = "start" /\ pc'[t] = "lock"
      BY <1>0, <2>2 DEF Locks
    <3>2. \A i \in DOMAIN queue : queue[i] # t
      BY <1>0, <3>1 DEF LockOK
    <3>3. /\ Len(queue') = Len(queue) + 1 /\ DOMAIN queue' = 1 .. Len(queue) + 1
          /\ \A i \in 1 .. Len(queue) : queue'[i] = queue[i]
          /\ queue'[Len(queue) + 1] = t /\ Len(queue) \in Nat
          /\ DOMAIN queue = 1 .. Len(queue)
      BY <1>0, <3>1
    <3>4. \A i, j \in DOMAIN queue' : queue'[i] = queue'[j] => i = j
      BY <1>0, <3>2, <3>3 DEF LockOK
    <3>5. \A u \in Tasks : (\E i \in DOMAIN queue' : queue'[i] = u)
                             <=> u = t \/ \E i \in DOMAIN queue : queue[i] = u
      BY <3>3
    <3>6. \A u \in Tasks : pc'[u] \notin {"none", "start", "done"}
                             <=> \E i \in DOMAIN queue' : queue'[i] = u
      BY <1>0, <2>1, <3>1, <3>5 DEF LockOK, OthersStay
    <3>7. ASSUME NEW u \in Tasks, pc'[u] \in Inside
          PROVE  queue' # <<>> /\ queue'[1] = u
      <4>1. u # t /\ pc[u] \in Inside
        BY <1>i, <2>1, <3>1, <3>7 DEF OthersStay
      <4>2. queue # <<>> /\ queue[1] = u
        BY <1>0, <4>1 DEF LockOK
      <4>. QED
        BY <1>0, <3>3, <4>2
    <3>. QED
      BY <3>4, <3>6, <3>7 DEF LockOK
  <2>3. CASE Quits(t)
    <3>1. pc'[t] = "done" /\ LeavesLock(t)
      BY <2>3 DEF Quits
    <3>2. /\ \A i, j \in DOMAIN queue' : queue'[i] = queue'[j] => i = j
          /\ \A u \in Tasks : (\E i \in DOMAIN queue' : queue'[i] = u)
                               <=> u # t /\ \E i \in DOMAIN queue : queue[i] = u
          /\ \A u \in Tasks \ {t} : queue # <<>> /\ queue[1] = u
                                     => queue' # <<>> /\ queue'[1] = u
      BY <1>0, <3>1, LeavingFacts
    <3>. QED
      BY <1>0, <1>i, <2>1, <3>1, <3>2 DEF LockOK, OthersStay
  <2>4. CASE HasLock(t) /\ \E place \in Inside : MovesTo(t, place)
    <3>1. /\ UNCHANGED queue /\ pc'[t] \in Inside
          /\ queue # <<>> /\ queue[1] = t
      BY <1>0, <2>4 DEF MovesTo, HasLock, Acquired, LockOK
    <3>. QED
      BY <1>0, <1>i, <2>1, <3>1 DEF LockOK, OthersStay
  <2>. QED
    BY <2>1, <2>2, <2>3, <2>4
<1>3. ASSUME NEW s \in Sources, LoopEnds(s) PROVE LockOK'
  <2>1. /\ UNCHANGED queue
        /\ \A u \in Tasks : \/ pc'[u] = pc[u]
                            \/ pc[u] = "none" /\ pc'[u] = "start"
    BY <1>0, <1>3 DEF LoopEnds, SourceLife
  <2>. QED
    BY <1>0, <1>i, <2>1 DEF LockOK
<1>4. ASSUME NEW x \in Failures, ProviderFails(x) PROVE LockOK'
  <2>1. /\ UNCHANGED queue
        /\ \A u \in Tasks : \/ pc'[u] = pc[u]
                            \/ pc[u] = "none" /\ pc'[u] = "start"
    BY <1>0, <1>4 DEF ProviderFails
  <2>. QED
    BY <1>0, <1>i, <2>1 DEF LockOK
<1>5. CASE Boundary
  <2>1. /\ UNCHANGED queue /\ runtime.pending \in Tasks
        /\ pc[runtime.pending] = "boundary"
        /\ pc' = [pc EXCEPT ![runtime.pending] = "committed"]
    BY <1>0, <1>5 DEF Boundary, PendingHandoff, Typed, RuntimeTypes
  <2>2. "boundary" \in Inside /\ "committed" \in Inside
    BY DEF Inside, Handing
  <2>3. \A u \in Tasks : \/ pc'[u] = pc[u]
                         \/ pc[u] \in Inside /\ pc'[u] \in Inside
    BY <1>0, <2>1, <2>2
  <2>. QED
    BY <1>0, <1>i, <2>1, <2>3 DEF LockOK
<1>6. CASE IdleRelease \/ UNCHANGED vars
  BY <1>0, <1>6 DEF IdleRelease, vars, LockOK
<1>. QED
  BY <1>1, <1>2, <1>3, <1>4, <1>5, <1>6 DEF Next
===============================================================================
