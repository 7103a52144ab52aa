-------------------------- MODULE SelfCaptureProofs --------------------------
(***************************************************************************)
(* Proofs about self capture, for every set of calls, sources and           *)
(* failures: each part of CaptureInv survives the effects of the bodies, of *)
(* the callers and of the steps outside of both, and the properties of the  *)
(* specification follow from it.                                            *)
(***************************************************************************)
EXTENDS SelfCaptureSteps

-----------------------------------------------------------------------------
(* The steps outside the bodies and the callers. *)

\* A loop ends; the task for its failure may be made.
LEMMA LoopFacts ==
    ASSUME CaptureInv, NEW s \in Sources, LoopEnds(s)
    PROVE  /\ OthersStay(s) /\ UNCHANGED <<owner, mic, bound, runtime, queue, Outside>>
           /\ capture[s] \in {"running", "cancelling"}
           /\ capture' = [capture EXCEPT ![s] = "ended"]
           /\ pc[s] = "none"
           /\ \/ pc'[s] = "none" /\ loc'[s] = loc[s]
              \/ /\ pc'[s] = "start" /\ loc'[s].kind = "fault"
                 /\ loc'[s].gen = bound[s] /\ loc'[s].src = None
                 /\ loc'[s].then = "end"
<1>0. /\ pc \in [Tasks -> Pcs] /\ loc \in [Tasks -> Locals] /\ s \in Tasks
      /\ pc[s] = "none"
  BY DEF CaptureInv, Typed, SourceLife, LoopEnds, Tasks
<1>. QED
  BY <1>0 DEF LoopEnds, OthersStay, NoLocals

\* A provider reports a failure of the attachment a call made.
LEMMA ReportFacts ==
    ASSUME CaptureInv, NEW x \in Failures, ProviderFails(x)
    PROVE  /\ OthersStay(x) /\ UNCHANGED <<owner, Held, queue, Outside>>
           /\ pc[x] = "none" /\ pc'[x] = "start"
           /\ loc'[x].kind = "terminal" /\ loc'[x].src \in Calls
           /\ loc'[x].then = "end"
<1>0. /\ pc \in [Tasks -> Pcs] /\ loc \in [Tasks -> Locals] /\ x \in Tasks
  BY DEF CaptureInv, Typed, Tasks
<1>. QED
  BY <1>0 DEF ProviderFails, OthersStay, NoLocals

\* The handoff that waits is committed.
LEMMA BoundaryFacts ==
    ASSUME CaptureInv, Boundary
    PROVE  \E t \in Calls :
             /\ t = runtime.pending /\ OthersStay(t) /\ runtime'.pending = None
             /\ UNCHANGED <<owner, mic, capture, bound, queue, loc, Outside>>
             /\ pc[t] = "boundary" /\ pc'[t] = "committed"
<1>0. /\ pc \in [Tasks -> Pcs] /\ runtime \in RuntimeTypes /\ Calls \subseteq Tasks
      /\ PendingHandoff
  BY DEF CaptureInv, Typed, Tasks
<1>1. runtime.pending \in Calls /\ pc[runtime.pending] = "boundary"
  BY <1>0 DEF PendingHandoff, Boundary, RuntimeTypes
<1>. QED
  BY <1>0, <1>1 DEF Boundary, OthersStay, RuntimeTypes

-----------------------------------------------------------------------------
(* The parts of the invariant. *)

\* Who cancels, cancels tasks that are under way.
LEMMA RolesStep ==
    ASSUME CaptureInv, [Next]_vars, Typed'
    PROVE  Roles'
<1>0. /\ Typed /\ Roles /\ Callers
      /\ Calls \subseteq Tasks /\ Sources \subseteq Tasks /\ Failures \subseteq Tasks
      /\ Calls \cap Sources = {} /\ Calls \cap Failures = {}
      /\ Sources \cap Failures = {}
  BY CaptureAssumption DEF CaptureInv, Tasks, CaptureAssumption
<1>p. /\ \A place \in Starting : place \in Inside
      /\ \A place \in Handing : place \in Inside
      /\ \A place \in {"none", "start", "done", "lock"} : place \notin Inside
      /\ \A place \in {"start", "lock", "done", "none", "loop"} :
           place \notin Starting \cup Handing
      /\ "ingress" \notin Handing /\ "ingress" \in Starting
  BY DEF Inside, Tearing, Starting, Handing
<1>1. ASSUME NEW c \in Calls, Start(c) \/ CallerStep(c) PROVE Roles'
  <2>1. CallEffect(c)
    BY <1>1, CallEffects
  <2>k. killed' = killed \/ \E ts : killed' = WithKilled(ts)
    BY <2>1 DEF CallEffect, DeclaresIntent, DeclaresPreparation,
       DeclaresRetirement, Freezes, Proceeds, Returns
  <2>l. \A u \in Tasks : u \in killed' => pc[u] # "none"
    BY <1>0, <2>k DEF Roles, WithKilled, Live
  <2>2. CASE UNCHANGED <<pc, loc>>
    BY <1>0, <2>2, <2>l DEF Roles
  <2>3. CASE Proceeds(c)
    BY <1>0, <1>p, <2>3 DEF Roles, Proceeds, Typed, Callers
  <2>4. CASE DeclaresIntent(c) \/ DeclaresPreparation(c) \/ DeclaresRetirement(c)
    <3>1. /\ OthersStay(c) /\ pc[c] = "none" /\ pc'[c] \in {"none", "start"}
          /\ loc'[c].kind \in Intents \cup {"prepare", "suspend", "close"}
          /\ loc'[c].then = "end"
      BY <2>4 DEF DeclaresIntent, DeclaresPreparation, DeclaresRetirement, Declared
    <3>. QED
      BY <1>0, <1>p, <2>l, <3>1 DEF Roles, OthersStay, Intents
  <2>. QED
    BY <2>1, <2>2, <2>3, <2>4 DEF CallEffect, Freezes, Returns
<1>2. ASSUME NEW t \in Tasks, BodyStep(t) PROVE Roles'
  <2>1. /\ Live(t) /\ OthersStay(t) /\ loc'[t].kind = loc[t].kind
        /\ UNCHANGED killed
    BY <1>2, BodyFrame DEF Outside
  <2>2. Effect(t)
    BY <1>2, BodyEffects
  <2>3. /\ pc'[t] # "none"
        /\ pc'[t] \in Starting => loc[t].kind \in {"on", "restart", "prepare"}
        /\ pc'[t] \in Starting \ {"replace", "swap"} => loc[t].kind # "prepare"
        /\ pc'[t] \in Handing => loc[t].kind = "on"
        /\ loc'[t].then = "start" => loc[t].kind \in {"on", "restart"}
    <3>1. CASE Locks(t)
      BY <1>0, <1>p, <3>1 DEF Locks, Roles, Typed
    <3>2. CASE LeavesSession(t) \/ LeavesNothing(t) \/ ReportsRunning(t)
                 \/ ReportsFault(t)
      BY <1>p, <3>2 DEF LeavesSession, LeavesNothing, ReportsRunning, ReportsFault,
         Quits
    <3>3. CASE TakesCurrent(t)
      BY <1>p, <3>3 DEF TakesCurrent, TakesSession, MovesTo
    <3>4. CASE TakesForFault(t)
      BY <1>p, <3>4 DEF TakesForFault, TakesFaulted, TakesSession, MovesTo
    <3>5. CASE MovesInside(t)
      <4>1. pc'[t] \in Inside
        BY <3>5 DEF MovesInside, MovesTo
      <4>. QED
        BY <1>0, <1>p, <3>5, <4>1 DEF MovesInside, Roles
    <3>6. CASE OpensSession(t)
      <4>1. /\ pc[t] = "opening" /\ pc'[t] = "ingress" /\ loc'[t] = loc[t]
            /\ "opening" \in Starting \ {"replace", "swap"}
        BY <3>6 DEF OpensSession, MovesTo, Starting
      <4>. QED
        BY <1>0, <1>p, <4>1 DEF Roles
    <3>. QED
      BY <2>2, <3>1, <3>2, <3>3, <3>4, <3>5, <3>6 DEF Effect
  <2>. QED
    BY <1>0, <2>1, <2>3 DEF Roles, OthersStay, Live
<1>3. ASSUME NEW s \in Sources, LoopEnds(s) PROVE Roles'
  BY <1>0, <1>p, <1>3, LoopFacts DEF Roles, OthersStay, Outside
<1>4. ASSUME NEW x \in Failures, ProviderFails(x) PROVE Roles'
  BY <1>0, <1>p, <1>4, ReportFacts DEF Roles, OthersStay, Outside
<1>5. CASE Boundary
  <2>1. "boundary" \in Handing /\ "committed" \notin Starting
    BY DEF Handing, Starting
  <2>. QED
    BY <1>0, <1>p, <1>5, <2>1, BoundaryFacts DEF Roles, OthersStay, Outside
<1>6. CASE IdleRelease \/ UNCHANGED vars
  BY <1>0, <1>6 DEF IdleRelease, vars, Roles, Outside
<1>. QED
  BY <1>1, <1>2, <1>3, <1>4, <1>5, <1>6 DEF Next

\* The callers and their bodies keep step.
LEMMA CallersStep ==
    ASSUME CaptureInv, [Next]_vars, Typed'
    PROVE  Callers'
<1>0. /\ Typed /\ Callers /\ Calls \subseteq Tasks
      /\ caller \in [Calls -> {"idle", "awaiting", "retiring", "frozen", "returned",
                               "faults", "closed"}]
      /\ pc \in [Tasks -> Pcs]
      /\ Calls \cap Sources = {} /\ Calls \cap Failures = {}
  BY CaptureAssumption DEF CaptureInv, Tasks, CaptureAssumption, Typed
<1>1. ASSUME NEW c \in Calls, Start(c) \/ CallerStep(c) PROVE Callers'
  <2>1. CallEffect(c)
    BY <1>1, CallEffects
  <2>2. CASE DeclaresIntent(c) \/ DeclaresPreparation(c) \/ DeclaresRetirement(c)
    BY <1>0, <2>2 DEF DeclaresIntent, DeclaresPreparation, DeclaresRetirement,
       Declared, OthersStay, Callers
  <2>3. CASE Freezes(c)
    BY <1>0, <2>3 DEF Freezes, Callers
  <2>4. CASE Proceeds(c)
    BY <1>0, <2>4 DEF Proceeds, Callers
  <2>5. CASE Returns(c)
    BY <1>0, <2>5 DEF Returns, Callers
  <2>. QED
    BY <2>1, <2>2, <2>3, <2>4, <2>5 DEF CallEffect
<1>2. ASSUME NEW t \in Tasks, BodyStep(t) PROVE Callers'
  <2>1. /\ Live(t) /\ OthersStay(t) /\ UNCHANGED caller
        /\ loc'[t].kind = loc[t].kind
    BY <1>2, BodyFrame DEF Outside
  <2>2. pc'[t] # "none"
    BY <1>0, <1>2, BodyFrame DEF Locks, Quits, MovesTo, Inside, Tearing, Starting,
       Handing
  <2>. QED
    BY <1>0, <2>1, <2>2 DEF Callers, OthersStay, Live
<1>3. ASSUME NEW s \in Sources, LoopEnds(s) PROVE Callers'
  <2>1. UNCHANGED caller /\ \A c \in Calls : pc'[c] = pc[c] /\ loc'[c] = loc[c]
    BY <1>0, <1>3, LoopFacts DEF OthersStay, Outside
  <2>. QED
    BY <1>0, <2>1 DEF Callers
<1>4. ASSUME NEW x \in Failures, ProviderFails(x) PROVE Callers'
  <2>1. UNCHANGED caller /\ \A c \in Calls : pc'[c] = pc[c] /\ loc'[c] = loc[c]
    BY <1>0, <1>4, ReportFacts DEF OthersStay, Outside
  <2>. QED
    BY <1>0, <2>1 DEF Callers
<1>5. CASE Boundary
  BY <1>0, <1>5, BoundaryFacts DEF Callers, OthersStay, Outside
<1>6. CASE IdleRelease \/ UNCHANGED vars
  BY <1>0, <1>6 DEF IdleRelease, vars, Callers, Outside
<1>. QED
  BY <1>1, <1>2, <1>3, <1>4, <1>5, <1>6 DEF Next

\* A transition that is followed by another intent, or by a retirement, is
\* cancelled.
LEMMA TransitionsStep ==
    ASSUME CaptureInv, [Next]_vars, Typed'
    PROVE  Transitions'
<1>0. /\ Typed /\ Transitions /\ Callers /\ Roles /\ Calls \subseteq Tasks
      /\ transition \in Calls \cup {None} /\ killed \subseteq Tasks
      /\ pc \in [Tasks -> Pcs] /\ None \notin Calls
      /\ Calls \cap Sources = {} /\ Calls \cap Failures = {}
  BY CaptureAssumption DEF CaptureInv, Tasks, CaptureAssumption, Typed
<1>1. ASSUME NEW c \in Calls, Start(c) \/ CallerStep(c) PROVE Transitions'
  <2>1. CallEffect(c)
    BY <1>1, CallEffects
  <2>2. ASSUME pc[c] = "none", OthersStay(c), killed' = WithKilled(Pending),
               \/ transition' = c /\ loc'[c].kind \in Intents /\ ~ owner'.closed
               \/ transition' = None /\ loc'[c].kind \notin Intents
        PROVE  Transitions'
    <3>1. \A d \in Calls : d \in killed' <=> d \in killed \/ (d = transition /\ Live(d))
      BY <1>0, <2>2 DEF WithKilled, Pending
    <3>2. c \notin killed'
      BY <1>0, <2>2, <3>1 DEF Roles, Live
    <3>3. \A d \in Calls \ {c} : loc'[d] = loc[d] /\ (Live(d)' <=> Live(d))
      BY <1>0, <2>2 DEF OthersStay, Live
    <3>. QED
      BY <1>0, <2>2, <3>1, <3>2, <3>3 DEF Transitions
  <2>3. CASE DeclaresIntent(c)
    BY <2>2, <2>3 DEF DeclaresIntent, Declared
  <2>4. CASE DeclaresPreparation(c)
    <3>1. /\ pc[c] = "none" /\ OthersStay(c) /\ loc'[c].kind \notin Intents
          /\ UNCHANGED <<transition, killed>> /\ ~ owner'.closed
      BY <2>4 DEF DeclaresPreparation, Declared, Intents
    <3>2. c \notin killed /\ (c # transition \/ loc[c].kind \in Intents)
      BY <1>0, <3>1 DEF Roles, Transitions
    <3>3. caller[c] \in {"idle", "frozen"} => loc[c].kind \notin Intents
      BY <1>0 DEF Callers, Intents
    <3>4. caller[c] \in {"idle", "frozen"}
      BY <2>4 DEF DeclaresPreparation, Declared
    <3>. QED
      BY <1>0, <3>1, <3>2, <3>3, <3>4 DEF Transitions, OthersStay, Live
  <2>5. CASE DeclaresRetirement(c)
    <3>1. loc'[c].kind \notin Intents
      BY <2>5 DEF DeclaresRetirement, Intents
    <3>. QED
      BY <2>2, <2>5, <3>1 DEF DeclaresRetirement, Declared
  <2>6. CASE Freezes(c)
    BY <1>0, <2>6 DEF Freezes, Transitions, Live
  <2>7. CASE Proceeds(c)
    <3>1. loc[c].kind \notin Intents /\ pc[c] = "none"
      BY <1>0, <2>7 DEF Proceeds, Callers, Intents
    <3>. QED
      BY <1>0, <2>7, <3>1 DEF Proceeds, Transitions, Live
  <2>8. CASE Returns(c)
    <3>1. /\ UNCHANGED <<owner, pc, loc>>
          /\ \A d \in Calls : d \in killed' <=> d \in killed
          /\ \/ UNCHANGED transition
             \/ transition = c /\ transition' = None /\ pc[c] = "done"
      BY <1>0, <2>8 DEF Returns, WithKilled
    <3>. QED
      BY <1>0, <3>1 DEF Transitions, Live
  <2>. QED
    BY <2>1, <2>3, <2>4, <2>5, <2>6, <2>7, <2>8 DEF CallEffect
<1>2. ASSUME NEW t \in Tasks, BodyStep(t) PROVE Transitions'
  <2>1. /\ Live(t) /\ OthersStay(t) /\ UNCHANGED <<transition, killed>>
        /\ loc'[t].kind = loc[t].kind /\ owner'.closed = owner.closed
    BY <1>2, BodyFrame DEF Outside
  <2>2. \A c \in Calls : loc'[c].kind = loc[c].kind /\ (Live(c)' => Live(c))
    BY <1>0, <2>1 DEF OthersStay, Live
  <2>. QED
    BY <1>0, <2>1, <2>2 DEF Transitions
<1>3. ASSUME NEW s \in Sources, LoopEnds(s) PROVE Transitions'
  <2>1. /\ UNCHANGED <<transition, killed, owner>>
        /\ \A c \in Calls : pc'[c] = pc[c] /\ loc'[c] = loc[c]
    BY <1>0, <1>3, LoopFacts DEF OthersStay, Outside
  <2>. QED
    BY <1>0, <2>1 DEF Transitions, Live
<1>4. ASSUME NEW x \in Failures, ProviderFails(x) PROVE Transitions'
  <2>1. /\ UNCHANGED <<transition, killed, owner>>
        /\ \A c \in Calls : pc'[c] = pc[c] /\ loc'[c] = loc[c]
    BY <1>0, <1>4, ReportFacts DEF OthersStay, Outside
  <2>. QED
    BY <1>0, <2>1 DEF Transitions, Live
<1>5. CASE Boundary
  <2>1. PICK t \in Calls :
          /\ OthersStay(t) /\ UNCHANGED <<transition, killed, owner, loc>>
          /\ pc[t] = "boundary"
    BY <1>5, BoundaryFacts DEF Outside
  <2>2. \A c \in Calls : Live(c)' => Live(c)
    BY <1>0, <2>1 DEF OthersStay, Live
  <2>. QED
    BY <1>0, <2>1, <2>2 DEF Transitions
<1>6. CASE IdleRelease \/ UNCHANGED vars
  BY <1>0, <1>6 DEF IdleRelease, vars, Transitions, Live, Outside
<1>. QED
  BY <1>1, <1>2, <1>3, <1>4, <1>5, <1>6 DEF Next

\* A handoff waits at the boundary until it is committed or cancelled.
LEMMA PendingStep ==
    ASSUME CaptureInv, [Next]_vars, Typed'
    PROVE  PendingHandoff'
<1>0. /\ Typed /\ PendingHandoff /\ Callers /\ SourceLife /\ runtime \in RuntimeTypes
      /\ runtime.pending \in Calls \cup {None} /\ pc \in [Tasks -> Pcs]
      /\ Calls \subseteq Tasks /\ None \notin Calls
  BY CaptureAssumption DEF CaptureInv, Typed, RuntimeTypes, CaptureAssumption, Tasks
<1>1. ASSUME NEW c \in Calls, Start(c) \/ CallerStep(c) PROVE PendingHandoff'
  <2>1. CallEffect(c)
    BY <1>1, CallEffects
  <2>2. /\ UNCHANGED runtime
        /\ \A u \in Tasks : pc'[u] = pc[u] \/ pc[u] = "none"
    BY <1>0, <2>1 DEF CallEffect, DeclaresIntent, DeclaresPreparation,
       DeclaresRetirement, Declared, Freezes, Proceeds, Returns, OthersStay, Callers
  <2>. QED
    BY <1>0, <2>2 DEF PendingHandoff
<1>2. ASSUME NEW t \in Tasks, BodyStep(t) PROVE PendingHandoff'
  <2>1. OthersStay(t)
    BY <1>2, BodyFrame
  <2>2. CASE CandidateBuilt(t)
    <3>1. /\ pc[t] = "handoff"
          /\ \/ runtime'.pending = t /\ pc'[t] = "boundary"
             \/ runtime'.pending = runtime.pending
      BY <1>0, <2>2 DEF CandidateBuilt, At, GoesOn, Goes, RuntimeTypes
    <3>. QED
      BY <1>0, <2>1, <3>1 DEF PendingHandoff, OthersStay
  <2>3. CASE CancelledWaiting(t)
    BY <1>0, <2>3 DEF CancelledWaiting, PendingHandoff, RuntimeTypes
  <2>4. CASE ~ CandidateBuilt(t) /\ ~ CancelledWaiting(t)
    <3>1. pc[t] # "boundary"
      BY <1>2, <2>4 DEF BodyStep, Locks, SupersededBody, TurnsOff, TurnsOn, Restarts,
         KeepsSession, Prepares, TearsDown, LoopEnded, SourceClosed, DebtRetried,
         DebtsSettled, ProviderReleased, AdmissionReturns, ProviderBuilt,
         OldProviderClosed, SourceOpened, LateSourceClosed, IngressStarted,
         StartReleased, HandoffResumes, CancelledQuietly, CancelledClosing,
         CancelledReleasing, FaultRuns, TerminalRuns, Acquired, At, Passive
    <3>2. CASE UNCHANGED runtime
      BY <1>0, <2>1, <3>1, <3>2 DEF PendingHandoff, OthersStay
    <3>r. \A mode : Released(mode) \/ ReleasedWithDebt
                      => runtime'.pending = runtime.pending
      BY <1>0 DEF Released, ReleasedWithDebt, RuntimeTypes
    <3>3. CASE ProviderReleased(t) \/ StartReleased(t) \/ CancelledReleasing(t)
      <4>1. runtime'.pending = runtime.pending
        BY <3>3, <3>r DEF ProviderReleased, StartReleased, CancelledReleasing
      <4>. QED
        BY <1>0, <2>1, <3>1, <4>1 DEF PendingHandoff, OthersStay
    <3>4. CASE ProviderBuilt(t) \/ OldProviderClosed(t) \/ IngressStarted(t)
                 \/ HandoffResumes(t)
      <4>1. runtime'.pending = runtime.pending
        BY <1>0, <3>4 DEF ProviderBuilt, OldProviderClosed, IngressStarted,
           HandoffResumes, RuntimeTypes
      <4>. QED
        BY <1>0, <2>1, <3>1, <4>1 DEF PendingHandoff, OthersStay
    <3>5. UNCHANGED runtime
            \/ ProviderReleased(t) \/ StartReleased(t) \/ CancelledReleasing(t)
            \/ ProviderBuilt(t) \/ OldProviderClosed(t) \/ IngressStarted(t)
            \/ HandoffResumes(t)
      BY <1>2, <2>4 DEF BodyStep, Locks, SupersededBody, TurnsOff, TurnsOn, BeginsStart,
         Restarts, KeepsSession, Prepares, TearsDown, LoopEnded, SourceClosed,
         DebtRetried, DebtsSettled, AdmissionReturns, SourceOpened, LateSourceClosed,
         CancelledQuietly, CancelledClosing, FaultRuns, TerminalRuns, Held
    <3>. QED
      BY <3>2, <3>3, <3>4, <3>5
  <2>. QED
    BY <2>2, <2>3, <2>4
<1>3. ASSUME NEW s \in Sources, LoopEnds(s) PROVE PendingHandoff'
  <2>1. pc[s] = "none" /\ OthersStay(s) /\ UNCHANGED runtime
    BY <1>3, LoopFacts
  <2>. QED
    BY <1>0, <2>1 DEF PendingHandoff, OthersStay
<1>4. ASSUME NEW x \in Failures, ProviderFails(x) PROVE PendingHandoff'
  <2>1. pc[x] = "none" /\ OthersStay(x) /\ UNCHANGED runtime
    BY <1>4, ReportFacts DEF Held
  <2>. QED
    BY <1>0, <2>1 DEF PendingHandoff, OthersStay
<1>5. CASE Boundary
  BY <1>0, <1>5, BoundaryFacts DEF PendingHandoff
<1>6. CASE IdleRelease \/ UNCHANGED vars
  BY <1>0, <1>6 DEF IdleRelease, vars, PendingHandoff, Outside, RuntimeTypes
<1>. QED
  BY <1>1, <1>2, <1>3, <1>4, <1>5, <1>6 DEF Next

\* A source is opened once.
LEMMA SourceLifeStep ==
    ASSUME CaptureInv, [Next]_vars, Typed'
    PROVE  SourceLife'
<1>0. /\ Typed /\ SourceLife /\ Callers /\ OneSession
      /\ pc \in [Tasks -> Pcs] /\ Sources \subseteq Tasks /\ None \notin Sources
      /\ mic \in [Sources -> {"unused", "open", "closed"}]
      /\ capture \in [Sources -> {"none", "running", "cancelling", "ended"}]
      /\ Calls \cap Sources = {} /\ Failures \cap Sources = {}
  BY CaptureAssumption DEF CaptureInv, Typed, Tasks, CaptureAssumption
<1>1. ASSUME NEW c \in Calls, Start(c) \/ CallerStep(c) PROVE SourceLife'
  <2>1. CallEffect(c)
    BY <1>1, CallEffects
  <2>2. /\ UNCHANGED <<mic, capture>>
        /\ \A s \in Sources : pc'[s] = pc[s]
    BY <1>0, <2>1 DEF CallEffect, DeclaresIntent, DeclaresPreparation,
       DeclaresRetirement, Declared, Freezes, Proceeds, Returns, OthersStay
  <2>. QED
    BY <1>0, <2>2 DEF SourceLife
<1>2. ASSUME NEW t \in Tasks, BodyStep(t) PROVE SourceLife'
  <2>1. OthersStay(t) /\ Live(t)
    BY <1>2, BodyFrame
  <2>2. /\ SourceEffect(t) /\ Effect(t)
    BY <1>2, BodySources, BodyEffects
  <2>3. \A s \in Sources : mic'[s] = "unused" => mic[s] = "unused"
    BY <1>0, <2>2 DEF SourceEffect, KeepsSources, OpensSource, TakesSession, LoopEnded,
       SourceClosed, DebtRetried, LateSourceClosed, CancelledClosing, Held
  <2>4. \/ UNCHANGED capture
        \/ \A s \in Sources : \/ capture'[s] = capture[s]
                              \/ capture[s] = "running" /\ capture'[s] = "cancelling"
        \/ \E s \in Sources : /\ mic[s] = "unused" /\ mic'[s] = "open"
                              /\ capture' = [capture EXCEPT ![s] = "running"]
    BY <2>2 DEF Effect, Locks, LeavesSession, LeavesNothing, ReportsRunning,
       ReportsFault, TakesCurrent, TakesForFault, TakesFaulted, TakesSession,
       MovesInside, OpensSession, SessionStays
  <2>5. \A s \in Sources :
          /\ mic'[s] = "unused" => capture'[s] = "none"
          /\ capture'[s] # "ended" => capture[s] # "ended"
    BY <1>0, <2>3, <2>4 DEF SourceLife
  <2>6. \A s \in Sources : pc[s] = "none" => pc'[s] = "none"
    BY <1>0, <2>1 DEF OthersStay, Live
  <2>. QED
    BY <1>0, <2>5, <2>6 DEF SourceLife
<1>3. ASSUME NEW s \in Sources, LoopEnds(s) PROVE SourceLife'
  BY <1>0, <1>3, LoopFacts DEF SourceLife, OthersStay
<1>4. ASSUME NEW x \in Failures, ProviderFails(x) PROVE SourceLife'
  BY <1>0, <1>4, ReportFacts DEF SourceLife, OthersStay, Held
<1>5. CASE Boundary
  BY <1>0, <1>5, BoundaryFacts DEF SourceLife, OthersStay
<1>6. CASE IdleRelease \/ UNCHANGED vars
  BY <1>0, <1>6 DEF IdleRelease, vars, SourceLife
<1>. QED
  BY <1>1, <1>2, <1>3, <1>4, <1>5, <1>6 DEF Next

\* Every open source is accounted for.
LEMMA HoldingStep ==
    ASSUME CaptureInv, [Next]_vars, Typed'
    PROVE  Holding'
<1>0. /\ Typed /\ Holding /\ Callers /\ OneSession /\ owner \in OwnerTypes
      /\ pc \in [Tasks -> Pcs] /\ loc \in [Tasks -> Locals]
      /\ mic \in [Sources -> {"unused", "open", "closed"}]
      /\ Sources \subseteq Tasks /\ Calls \subseteq Tasks /\ Failures \subseteq Tasks
      /\ None \notin Sources /\ Calls \cap Sources = {}
  BY CaptureAssumption DEF CaptureInv, Typed, Tasks, CaptureAssumption
<1>p. /\ \A t \in Tasks :
           /\ loc[t].src \in Sources => pc[t] \in Holders \cup {"done"}
           /\ pc[t] \in {"closing", "lateClose"} => loc[t].src \in Sources
           /\ pc[t] = "loop" => loc[t].src \in Sources \cup {None}
      /\ SourcesAreAccounted
  BY <1>0 DEF Holding, Holders
<1>i. ASSUME NEW t \in Tasks, OthersStay(t),
             loc'[t].src \in Sources => pc'[t] \in Holders \cup {"done"},
             pc'[t] \in {"closing", "lateClose"} => loc'[t].src \in Sources,
             pc'[t] = "loop" => loc'[t].src \in Sources \cup {None},
             \A s \in Sources : mic'[s] = "open" =>
               \/ s = owner'.source \/ s = loc'[t].src
               \/ /\ mic[s] = "open"
                  /\ s \in owner.retired => s \in owner'.retired
                  /\ s # owner.source
                  /\ s = loc[t].src => s \in owner'.retired
      PROVE  Holding'
  <2>1. ASSUME NEW s \in Sources, mic'[s] = "open"
        PROVE  \/ s = owner'.source \/ s \in owner'.retired
               \/ \E u \in Tasks : loc'[u].src = s
    <3>1. CASE s = owner'.source \/ s = loc'[t].src
      BY <3>1
    <3>2. CASE /\ mic[s] = "open"
               /\ s \in owner.retired => s \in owner'.retired
               /\ s # owner.source
               /\ s = loc[t].src => s \in owner'.retired
      <4>1. CASE s \in owner.retired
        BY <3>2, <4>1
      <4>2. ASSUME NEW u \in Tasks, loc[u].src = s
            PROVE  s \in owner'.retired \/ loc'[u].src = s
        BY <1>i, <3>2, <4>2 DEF OthersStay
      <4>. QED
        BY <1>p, <3>2, <4>1, <4>2 DEF SourcesAreAccounted
    <3>. QED
      BY <1>i, <2>1, <3>1, <3>2
  <2>2. \A u \in Tasks :
          /\ loc'[u].src \in Sources => pc'[u] \in Holders \cup {"done"}
          /\ pc'[u] \in {"closing", "lateClose"} => loc'[u].src \in Sources
          /\ pc'[u] = "loop" => loc'[u].src \in Sources \cup {None}
    BY <1>p, <1>i DEF OthersStay
  <2>. QED
    BY <2>1, <2>2 DEF Holding, Holders, SourcesAreAccounted
<1>n. ASSUME NEW t \in Tasks, OthersStay(t), pc[t] = "none", pc'[t] \in {"none", "start"},
             loc'[t].src \notin Sources \/ loc'[t] = loc[t],
             UNCHANGED mic, owner'.source = owner.source, owner'.retired = owner.retired
      PROVE  Holding'
  <2>1. loc[t].src \notin Sources /\ loc'[t].src \notin Sources
    BY <1>n, <1>p DEF Holders
  <2>. QED
    BY <1>i, <1>n, <2>1
<1>1. ASSUME NEW c \in Calls, Start(c) \/ CallerStep(c) PROVE Holding'
  <2>1. CallEffect(c)
    BY <1>1, CallEffects
  <2>2. CASE DeclaresIntent(c) \/ DeclaresPreparation(c) \/ DeclaresRetirement(c)
    BY <1>0, <1>n, <2>2 DEF DeclaresIntent, DeclaresPreparation, DeclaresRetirement,
       Declared
  <2>3. CASE Freezes(c) \/ Returns(c)
    BY <1>0, <2>3 DEF Freezes, Returns, Holding, SourcesAreAccounted
  <2>4. CASE Proceeds(c)
    <3>1. /\ OthersStay(c) /\ pc[c] = "none" /\ pc'[c] = "start" /\ loc'[c] = loc[c]
          /\ UNCHANGED <<mic, owner>>
      BY <1>0, <2>4 DEF Proceeds, Callers, OthersStay
    <3>. QED
      BY <1>0, <1>n, <3>1
  <2>. QED
    BY <2>1, <2>2, <2>3, <2>4 DEF CallEffect
<1>2. ASSUME NEW t \in Tasks, BodyStep(t) PROVE Holding'
  <2>1. OthersStay(t) /\ pc[t] # "done"
    BY <1>2, BodyFrame DEF Live
  <2>2. SourceEffect(t)
    BY <1>2, BodySources
  <2>3. CASE KeepsSources(t)
    <3>1. /\ loc'[t].src \in Sources => pc'[t] \in Holders \cup {"done"}
          /\ loc[t].src \in Sources => loc'[t].src = loc[t].src
      BY <1>0, <1>p, <2>1, <2>3 DEF KeepsSources
    <3>2. pc'[t] \notin {"closing", "lateClose", "loop"}
      BY <2>3 DEF KeepsSources, Holders
    <3>3. \A s \in Sources : mic'[s] = "open" =>
            \/ s = owner'.source \/ s = loc'[t].src
            \/ /\ mic[s] = "open"
               /\ s \in owner.retired => s \in owner'.retired
               /\ s # owner.source
               /\ s = loc[t].src => s \in owner'.retired
      BY <2>3, <3>1 DEF KeepsSources
    <3>. QED
      BY <1>i, <2>1, <3>1, <3>2, <3>3
  <2>4. CASE OpensSource(t)
    <3>1. owner.source = None /\ loc[t].src \notin Sources
      BY <1>0, <1>p, <2>4 DEF OpensSource, OneSession, Starting, Holders
    <3>2. PICK s \in Sources :
            /\ mic' = [mic EXCEPT ![s] = "open"] /\ owner'.retired = owner.retired
            /\ \/ owner'.source = s /\ pc'[t] = "ingress" /\ loc'[t].src = loc[t].src
               \/ UNCHANGED owner /\ pc'[t] = "lateClose" /\ loc'[t].src = s
      BY <2>4 DEF OpensSource
    <3>3. \A r \in Sources \ {s} : mic'[r] = mic[r]
      BY <1>0, <3>2
    <3>. QED
      BY <1>0, <1>i, <2>1, <3>1, <3>2, <3>3 DEF Holders
  <2>5. CASE TakesSession(t) /\ pc[t] \in {"lock", "ingress"}
    <3>1. loc[t].src \notin Sources
      BY <1>p, <2>5 DEF Holders
    <3>2. /\ pc'[t] = "loop" /\ loc'[t].src = owner.source
          /\ owner'.retired = owner.retired /\ UNCHANGED mic
      BY <2>5 DEF TakesSession, MovesTo
    <3>3. owner.source \in Sources \cup {None}
      BY <1>0 DEF OwnerTypes
    <3>. QED
      BY <1>i, <2>1, <3>1, <3>2, <3>3 DEF Holders
  <2>6. CASE LoopEnded(t)
    <3>1. /\ pc[t] = "loop" /\ UNCHANGED <<owner, mic>> /\ loc'[t] = loc[t]
          /\ pc'[t] = IF loc[t].src = None THEN "debts" ELSE "closing"
      BY <1>0, <2>6 DEF LoopEnded, At, GoesOn, Goes, Held
    <3>. QED
      BY <1>0, <1>i, <1>p, <2>1, <3>1 DEF Holders
  <2>7. CASE SourceClosed(t)
    <3>1. loc[t].src \in Sources /\ pc'[t] = "debts"
      BY <1>0, <1>p, <2>7 DEF SourceClosed, At, Goes
    <3>2. loc'[t].src = None
      BY <1>0, <2>7 DEF SourceClosed, Locals
    <3>3. owner'.source = owner.source /\ owner.retired \subseteq owner'.retired
      BY <1>0, <2>7 DEF SourceClosed, Retained, OwnerTypes
    <3>4. \/ mic' = [mic EXCEPT ![loc[t].src] = "closed"]
          \/ UNCHANGED mic /\ loc[t].src \in owner'.retired
      BY <1>0, <2>7 DEF SourceClosed, Retained, OwnerTypes
    <3>5. \A s \in Sources : mic'[s] = "open" =>
            mic[s] = "open" /\ (s = loc[t].src => s \in owner'.retired)
      BY <1>0, <3>1, <3>4
    <3>. QED
      BY <1>0, <1>i, <2>1, <3>1, <3>2, <3>3, <3>5
  <2>8. CASE DebtRetried(t)
    <3>1. pc[t] = "debts" /\ pc'[t] = "debts" /\ loc[t].src \notin Sources
      BY <1>0, <1>p, <2>8 DEF DebtRetried, At, Holders
    <3>2. PICK s \in loc[t].debts :
            \/ /\ mic' = [mic EXCEPT ![s] = "closed"]
               /\ owner' = [owner EXCEPT !.retired = @ \ {s}]
               /\ loc' = [loc EXCEPT ![t].debts = @ \ {s}]
            \/ /\ loc' = [loc EXCEPT ![t].debts = @ \ {s}, ![t].failed = TRUE]
               /\ UNCHANGED <<mic, owner>>
      BY <2>8 DEF DebtRetried
    <3>3. s \in Sources
      BY <1>0 DEF Locals
    <3>4. loc'[t].src = loc[t].src
      BY <1>0, <3>2 DEF Locals
    <3>5. /\ owner'.source = owner.source
          /\ \A r \in Sources : mic'[r] = "open" =>
               mic[r] = "open" /\ (r \in owner.retired => r \in owner'.retired)
      BY <1>0, <3>2, <3>3 DEF OwnerTypes
    <3>. QED
      BY <1>0, <1>i, <2>1, <3>1, <3>4, <3>5
  <2>9. CASE LateSourceClosed(t)
    <3>1. /\ loc[t].src \in Sources /\ pc'[t] = "staleRelease" /\ loc'[t].src = None
          /\ mic' = [mic EXCEPT ![loc[t].src] = "closed"]
      BY <1>0, <1>p, <2>9 DEF LateSourceClosed, At, Goes, Locals
    <3>2. owner'.source = owner.source /\ owner'.retired = owner.retired
      BY <1>0, <2>9 DEF LateSourceClosed, OwnerTypes
    <3>3. \A s \in Sources : mic'[s] = "open" => mic[s] = "open" /\ s # loc[t].src
      BY <1>0, <3>1
    <3>. QED
      BY <1>0, <1>i, <2>1, <3>1, <3>2, <3>3
  <2>10. CASE CancelledClosing(t)
    <3>1. /\ loc[t].src \in Sources /\ pc'[t] = "done" /\ loc'[t].src = loc[t].src
          /\ \A s \in Sources \ {loc[t].src} : mic'[s] = mic[s]
          /\ UNCHANGED owner
      BY <1>0, <1>p, <2>10, TaskFacts DEF CancelledClosing, Quits
    <3>. QED
      BY <1>i, <2>1, <3>1
  <2>. QED
    BY <2>2, <2>3, <2>4, <2>5, <2>6, <2>7, <2>8, <2>9, <2>10 DEF SourceEffect
<1>3. ASSUME NEW s \in Sources, LoopEnds(s) PROVE Holding'
  BY <1>0, <1>3, <1>n, LoopFacts
<1>4. ASSUME NEW x \in Failures, ProviderFails(x) PROVE Holding'
  BY <1>0, <1>4, <1>n, ReportFacts DEF Held
<1>5. CASE Boundary
  <2>1. PICK t \in Calls :
          /\ OthersStay(t) /\ UNCHANGED <<mic, owner, loc>>
          /\ pc[t] = "boundary" /\ pc'[t] = "committed"
    BY <1>5, BoundaryFacts
  <2>2. loc[t].src \notin Sources
    BY <1>0, <1>p, <2>1 DEF Holders
  <2>. QED
    BY <1>0, <1>i, <2>1, <2>2
<1>6. CASE IdleRelease \/ UNCHANGED vars
  BY <1>0, <1>6 DEF IdleRelease, vars, Holding, SourcesAreAccounted
<1>. QED
  BY <1>1, <1>2, <1>3, <1>4, <1>5, <1>6 DEF Next

\* There is one session, and it is replaced under the lock.
LEMMA OneSessionStep ==
    ASSUME CaptureInv, [Next]_vars, Typed'
    PROVE  OneSession'
<1>0. /\ Typed /\ LockOK /\ OneSession /\ Callers /\ owner \in OwnerTypes
      /\ pc \in [Tasks -> Pcs]
      /\ capture \in [Sources -> {"none", "running", "cancelling", "ended"}]
      /\ Sources \subseteq Tasks /\ Calls \subseteq Tasks /\ Failures \subseteq Tasks
      /\ None \notin Sources
  BY CaptureAssumption DEF CaptureInv, Typed, Tasks, CaptureAssumption
<1>p. /\ \A place \in {"none", "start", "lock", "done", "committed"} :
           place \notin Tearing \cup Starting
      /\ \A place \in Tearing \cup Starting : place \in Inside
      /\ "loop" \in Tearing /\ "opening" \in Starting \ {"ingress"}
      /\ "ingress" \in Starting /\ "ingress" \notin Tearing
      /\ "ingress" \in Inside /\ "opening" \in Inside
  BY DEF Inside, Tearing, Starting, Handing
<1>n. ASSUME owner'.source = owner.source, owner'.loop = owner.loop,
             owner'.state = "RUNNING" => owner.source # None,
             \A s \in Sources : capture'[s] = "running" => capture[s] = "running",
             \A u \in Tasks : pc'[u] = pc[u] \/ pc'[u] \notin Tearing \cup Starting
      PROVE  OneSession'
  BY <1>0, <1>n, <1>p DEF OneSession
<1>1. ASSUME NEW c \in Calls, Start(c) \/ CallerStep(c) PROVE OneSession'
  <2>1. CallEffect(c)
    BY <1>1, CallEffects
  <2>2. CASE DeclaresIntent(c) \/ DeclaresPreparation(c) \/ DeclaresRetirement(c)
    <3>1. /\ owner'.source = owner.source /\ owner'.loop = owner.loop
          /\ UNCHANGED capture /\ OthersStay(c) /\ pc'[c] \in {"none", "start"}
          /\ owner'.state \in {owner.state, "STARTING", "STOPPING"}
      BY <2>2 DEF DeclaresIntent, DeclaresPreparation, DeclaresRetirement, Declared
    <3>. QED
      BY <1>0, <1>n, <1>p, <3>1 DEF OneSession, OthersStay
  <2>3. CASE Freezes(c) \/ Returns(c)
    BY <1>0, <1>n, <2>3 DEF Freezes, Returns, OneSession
  <2>4. CASE Proceeds(c)
    BY <1>0, <1>n, <1>p, <2>4 DEF Proceeds, OneSession
  <2>. QED
    BY <2>1, <2>2, <2>3, <2>4 DEF CallEffect
<1>2. ASSUME NEW t \in Tasks, BodyStep(t) PROVE OneSession'
  <2>1. OthersStay(t) /\ Live(t)
    BY <1>2, BodyFrame
  <2>2. Effect(t)
    BY <1>2, BodyEffects
  <2>3. CASE Locks(t)
    <3>1. UNCHANGED <<owner, capture>> /\ pc'[t] = "lock"
      BY <1>0, <2>3 DEF Locks
    <3>. QED
      BY <1>0, <1>n, <1>p, <2>1, <3>1 DEF OneSession, OthersStay
  <2>4. CASE LeavesSession(t) \/ LeavesNothing(t) \/ ReportsRunning(t) \/ ReportsFault(t)
    <3>1. /\ SessionStays /\ pc'[t] = "done"
          /\ owner'.state = "RUNNING" => owner.source # None
      BY <1>0, <1>p, <2>4 DEF LeavesSession, LeavesNothing, ReportsRunning,
         ReportsFault, Quits, OneSession
    <3>. QED
      BY <1>0, <1>n, <1>p, <2>1, <3>1 DEF SessionStays, OthersStay
  <2>5. CASE TakesCurrent(t) \/ TakesForFault(t)
    <3>1. TakesSession(t) /\ HasLock(t)
      BY <1>p, <2>5 DEF TakesCurrent, TakesForFault, TakesFaulted, HasLock
    <3>2. \A u \in Tasks : pc[u] \in Inside => u = t
      BY <1>0, <3>1, Alone
    <3>3. pc'[t] = "loop"
      BY <3>1 DEF TakesSession, MovesTo
    <3>4. \A s \in Sources : capture'[s] # "running"
      BY <1>0, <3>1 DEF TakesSession, OneSession
    <3>. QED
      BY <1>p, <2>1, <3>1, <3>2, <3>3, <3>4 DEF TakesSession, OneSession, OthersStay
  <2>6. CASE MovesInside(t)
    <3>1. /\ SessionStays /\ pc'[t] \in Inside \ {"ingress", "loop"}
          /\ owner'.state = "RUNNING" => owner.source # None
          /\ pc'[t] \in Tearing \cup Starting => owner.source = None
      BY <1>0, <2>6 DEF MovesInside, MovesTo, OneSession
    <3>. QED
      BY <1>0, <1>p, <2>1, <3>1 DEF SessionStays, OneSession, OthersStay
  <2>7. CASE OpensSession(t)
    <3>1. HasLock(t) /\ pc[t] = "opening" /\ pc'[t] = "ingress"
      BY <1>p, <2>7 DEF OpensSession, HasLock, MovesTo
    <3>2. \A u \in Tasks : pc[u] \in Inside => u = t
      BY <1>0, <3>1, Alone
    <3>3. owner.source = None /\ owner.loop = None
      BY <1>0, <1>p, <3>1 DEF OneSession
    <3>4. PICK s \in Sources :
            /\ owner'.source = s /\ owner'.loop = s
            /\ capture' = [capture EXCEPT ![s] = "running"]
      BY <2>7 DEF OpensSession
    <3>5. \A r \in Sources : capture'[r] = "running" => r = s
      BY <1>0, <3>3, <3>4 DEF OneSession
    <3>. QED
      BY <1>0, <1>p, <2>1, <3>1, <3>2, <3>4, <3>5 DEF OneSession, OthersStay
  <2>. QED
    BY <2>2, <2>3, <2>4, <2>5, <2>6, <2>7 DEF Effect
<1>3. ASSUME NEW s \in Sources, LoopEnds(s) PROVE OneSession'
  <2>1. /\ OthersStay(s) /\ UNCHANGED owner /\ pc'[s] \in {"none", "start"}
        /\ capture' = [capture EXCEPT ![s] = "ended"]
    BY <1>3, LoopFacts
  <2>. QED
    BY <1>0, <1>n, <1>p, <2>1 DEF OneSession, OthersStay
<1>4. ASSUME NEW x \in Failures, ProviderFails(x) PROVE OneSession'
  BY <1>0, <1>4, <1>n, <1>p, ReportFacts DEF OneSession, OthersStay, Held
<1>5. CASE Boundary
  BY <1>0, <1>5, <1>n, <1>p, BoundaryFacts DEF OneSession, OthersStay
<1>6. CASE IdleRelease \/ UNCHANGED vars
  BY <1>0, <1>6 DEF IdleRelease, vars, OneSession
<1>. QED
  BY <1>1, <1>2, <1>3, <1>4, <1>5, <1>6 DEF Next

\* Generations are given once and bound the loops.
LEMMA GenerationsStep ==
    ASSUME CaptureInv, [Next]_vars, Typed'
    PROVE  Generations'
<1>0. /\ Typed /\ Generations /\ Callers /\ owner \in OwnerTypes
      /\ owner.generation \in Nat
      /\ pc \in [Tasks -> Pcs] /\ loc \in [Tasks -> Locals]
      /\ bound \in [Sources -> Nat]
      /\ caller \in [Calls -> {"idle", "awaiting", "retiring", "frozen", "returned",
                               "faults", "closed"}]
      /\ \A t \in Tasks : loc[t].gen \in Nat
      /\ Sources \subseteq Tasks /\ Calls \subseteq Tasks /\ Failures \subseteq Tasks
      /\ Calls \cap Sources = {} /\ Calls \cap Failures = {}
  BY CaptureAssumption DEF CaptureInv, Typed, Tasks, CaptureAssumption, OwnerTypes,
     Locals
<1>b. ASSUME NEW g \in Nat
      PROVE  \A s \in Sources : Rebound(owner, g)[s] \in {bound[s], g}
  BY <1>0 DEF Rebound
<1>1. ASSUME NEW c \in Calls, Start(c) \/ CallerStep(c) PROVE Generations'
  <2>1. CallEffect(c)
    BY <1>1, CallEffects
  <2>2. CASE DeclaresIntent(c) \/ DeclaresPreparation(c) \/ DeclaresRetirement(c)
    <3>1. /\ owner'.generation = owner.generation + 1
          /\ loc'[c].gen = owner.generation + 1
          /\ \A d \in Calls \ {c} :
               pc'[d] = pc[d] /\ loc'[d] = loc[d] /\ caller'[d] = caller[d]
          /\ owner'.closed /\ ~ owner.closed => loc'[c].kind = "close"
          /\ owner.closed => owner'.closed /\ loc'[c].kind = "close"
          /\ loc'[c].kind = "close" => owner'.closed
      BY <1>0, <2>2 DEF DeclaresIntent, DeclaresPreparation, DeclaresRetirement,
         Declared, OthersStay, Intents
    <3>2. \A s \in Sources : bound'[s] \in {bound[s], owner.generation + 1}
      BY <1>0, <1>b, <2>2 DEF DeclaresIntent, DeclaresPreparation, DeclaresRetirement
    <3>3. \A s \in Sources : bound'[s] <= owner.generation + 1
      BY <1>0, <3>2 DEF Generations
    <3>4. \A d \in Calls \ {c} : loc'[d].gen <= owner.generation
      BY <1>0, <3>1 DEF Generations
    <3>. QED
      BY <1>0, <3>1, <3>3, <3>4 DEF Generations, Live
  <2>3. CASE Freezes(c)
    BY <1>0, <2>3 DEF Freezes, Generations, Live
  <2>4. CASE Proceeds(c)
    BY <1>0, <2>4 DEF Proceeds, Generations, Live
  <2>5. CASE Returns(c)
    BY <1>0, <2>5 DEF Returns, Generations, Live
  <2>. QED
    BY <2>1, <2>2, <2>3, <2>4, <2>5 DEF CallEffect
<1>2. ASSUME NEW t \in Tasks, BodyStep(t) PROVE Generations'
  <2>1. /\ OthersStay(t) /\ Live(t) /\ UNCHANGED caller /\ loc'[t].kind = loc[t].kind
        /\ owner'.closed = owner.closed
    BY <1>2, BodyFrame DEF Outside
  <2>2. Effect(t)
    BY <1>2, BodyEffects
  <2>k. t \in Calls => caller[t] # "retiring"
    BY <1>0, <2>1 DEF Callers, Live
  <2>3. ASSUME owner'.generation \in {owner.generation, owner.generation + 1},
               \/ loc'[t].gen = loc[t].gen
               \/ loc'[t].gen = 0 /\ pc'[t] = "done"
               \/ /\ loc'[t].gen = owner.generation + 1
                  /\ owner'.generation = owner.generation + 1
                  /\ ~ owner.closed,
               \A s \in Sources : \/ bound'[s] = bound[s]
                                  \/ bound'[s] = loc[t].gen /\ t \in Calls
        PROVE  Generations'
    <3>1. \A s \in Sources : bound'[s] <= owner'.generation
      BY <1>0, <2>3 DEF Generations
    <3>2. \A c \in Calls \ {t} : /\ loc'[c] = loc[c] /\ pc'[c] = pc[c]
                                /\ caller'[c] = caller[c]
      BY <1>0, <2>1 DEF OthersStay
    <3>3. ASSUME NEW c \in Calls
          PROVE  /\ loc'[c].gen <= owner'.generation
                 /\ Live(c)' \/ caller'[c] = "retiring" => loc'[c].gen # 0
                 /\ owner'.closed /\ loc'[c].kind # "close"
                       => loc'[c].gen < owner'.generation
                 /\ loc'[c].kind = "close" => owner'.closed
      <4>1. CASE c # t
        BY <1>0, <2>1, <2>3, <3>2, <4>1 DEF Generations, Live
      <4>2. CASE c = t
        BY <1>0, <2>1, <2>3, <2>k, <4>2 DEF Generations, Live
      <4>. QED
        BY <4>1, <4>2
    <3>4. ASSUME NEW c \in Calls, NEW d \in Calls, loc'[c].gen = loc'[d].gen,
                 loc'[c].gen # 0
          PROVE  c = d
      <4>1. CASE c # t /\ d # t
        BY <1>0, <3>2, <3>4, <4>1 DEF Generations
      <4>2. CASE (c = t \/ d = t) /\ loc'[t].gen = loc[t].gen
        BY <1>0, <3>2, <3>4, <4>2 DEF Generations
      <4>3. CASE (c = t \/ d = t) /\ loc'[t].gen = owner.generation + 1
        BY <1>0, <3>2, <3>4, <4>3 DEF Generations
      <4>. QED
        BY <2>3, <3>4, <4>1, <4>2, <4>3
    <3>. QED
      BY <3>1, <3>3, <3>4 DEF Generations
  <2>b. Rebinds(t) => \A s \in Sources : \/ bound'[s] = bound[s]
                                         \/ bound'[s] = loc[t].gen /\ t \in Calls
    BY <1>0, <1>b DEF Rebinds
  <2>4. CASE Locks(t)
    BY <1>0, <2>3, <2>4 DEF Locks
  <2>5. CASE LeavesSession(t) \/ LeavesNothing(t) \/ ReportsRunning(t) \/ ReportsFault(t)
    <3>1. /\ loc'[t].gen = 0 /\ pc'[t] = "done"
          /\ owner'.generation \in {owner.generation, owner.generation + 1}
          /\ UNCHANGED bound \/ Rebinds(t)
      BY <2>5 DEF LeavesSession, LeavesNothing, ReportsRunning, ReportsFault, Quits,
         IntentStays
    <3>. QED
      BY <2>3, <2>b, <3>1
  <2>6. CASE TakesCurrent(t)
    BY <2>3, <2>6 DEF TakesCurrent, TakesSession, IntentStays
  <2>7. CASE TakesForFault(t)
    BY <2>3, <2>7 DEF TakesForFault, TakesFaulted, TakesSession
  <2>8. CASE MovesInside(t)
    BY <2>3, <2>8, <2>b DEF MovesInside
  <2>9. CASE OpensSession(t)
    <3>1. \A s \in Sources : bound'[s] \in {bound[s], loc[t].gen}
      BY <1>0, <2>9 DEF OpensSession
    <3>. QED
      BY <2>3, <2>9, <3>1 DEF OpensSession, IntentStays
  <2>. QED
    BY <2>2, <2>4, <2>5, <2>6, <2>7, <2>8, <2>9 DEF Effect
<1>3. ASSUME NEW s \in Sources, LoopEnds(s) PROVE Generations'
  <2>1. /\ UNCHANGED <<owner, bound, caller>>
        /\ \A c \in Calls : pc'[c] = pc[c] /\ loc'[c] = loc[c]
    BY <1>0, <1>3, LoopFacts DEF OthersStay, Outside
  <2>. QED
    BY <1>0, <2>1 DEF Generations, Live
<1>4. ASSUME NEW x \in Failures, ProviderFails(x) PROVE Generations'
  <2>1. /\ UNCHANGED <<owner, bound, caller>>
        /\ \A c \in Calls : pc'[c] = pc[c] /\ loc'[c] = loc[c]
    BY <1>0, <1>4, ReportFacts DEF OthersStay, Outside, Held
  <2>. QED
    BY <1>0, <2>1 DEF Generations, Live
<1>5. CASE Boundary
  <2>1. /\ UNCHANGED <<owner, bound, caller, loc>>
        /\ \A c \in Calls : pc'[c] = pc[c] \/ pc[c] = "boundary"
    BY <1>0, <1>5, BoundaryFacts DEF OthersStay, Outside
  <2>. QED
    BY <1>0, <2>1 DEF Generations, Live
<1>6. CASE IdleRelease \/ UNCHANGED vars
  BY <1>0, <1>6 DEF IdleRelease, vars, Generations, Live, Outside
<1>. QED
  BY <1>1, <1>2, <1>3, <1>4, <1>5, <1>6 DEF Next

\* Only one call is the current one, and it counts while it is in progress.
LEMMA OneCurrent ==
    ASSUME Typed, Generations, NEW c \in Calls, NEW d \in Calls,
           Current(c), Current(d), Live(c) \/ caller[c] = "retiring"
    PROVE  c = d
BY DEF Generations, Current

\* A loop that is replaced, or about to be, is bound to an earlier generation.
LEMMA OutdatedStep ==
    ASSUME CaptureInv, [Next]_vars, Typed'
    PROVE  Outdated'
<1>0. /\ Typed /\ Outdated /\ Generations /\ Callers /\ Attended /\ OneSession
      /\ owner \in OwnerTypes /\ owner.generation \in Nat
      /\ owner.loop \in Sources \cup {None}
      /\ pc \in [Tasks -> Pcs] /\ loc \in [Tasks -> Locals]
      /\ bound \in [Sources -> Nat]
      /\ capture \in [Sources -> {"none", "running", "cancelling", "ended"}]
      /\ caller \in [Calls -> {"idle", "awaiting", "retiring", "frozen", "returned",
                               "faults", "closed"}]
      /\ \A t \in Tasks : loc[t].gen \in Nat
      /\ Sources \subseteq Tasks /\ Calls \subseteq Tasks /\ Failures \subseteq Tasks
      /\ Calls \cap Sources = {} /\ Calls \cap Failures = {} /\ None \notin Sources
  BY CaptureAssumption DEF CaptureInv, Typed, Tasks, CaptureAssumption, OwnerTypes,
     Locals
<1>b. ASSUME NEW g \in Nat
      PROVE  \A s \in Sources :
               Rebound(owner, g)[s] = IF s = owner.loop THEN g ELSE bound[s]
  BY <1>0 DEF Rebound
<1>i. \A place \in Inside \cup {"done", "none"} : place \notin Entry
  BY DEF Inside, Tearing, Starting, Handing, Entry
<1>1. ASSUME NEW c \in Calls, Start(c) \/ CallerStep(c) PROVE Outdated'
  <2>1. CallEffect(c)
    BY <1>1, CallEffects
  <2>2. CASE DeclaresIntent(c) \/ DeclaresPreparation(c) \/ DeclaresRetirement(c)
    <3>1. /\ owner'.generation = owner.generation + 1 /\ owner'.loop = owner.loop
          /\ UNCHANGED capture
          /\ \A d \in Calls \ {c} : loc'[d] = loc[d]
          /\ \/ UNCHANGED bound
             \/ /\ loc'[c].kind = "on" /\ owner'.state = "RUNNING"
                /\ bound' = Rebound(owner, owner.generation + 1)
      BY <1>0, <2>2 DEF DeclaresIntent, DeclaresPreparation, DeclaresRetirement,
         Declared, OthersStay
    <3>2. \A s \in Sources : s # owner.loop => bound'[s] < owner'.generation
      BY <1>0, <1>b, <3>1 DEF Generations
    <3>3. \A d \in Calls : Current(d)' => d = c
      BY <1>0, <3>1 DEF Generations, Current
    <3>4. owner.loop # None =>
            \/ bound'[owner.loop] < owner'.generation
            \/ loc'[c].kind = "on" /\ owner'.state = "RUNNING"
      BY <1>0, <3>1 DEF Generations
    <3>. QED
      BY <3>1, <3>2, <3>3, <3>4 DEF Outdated
  <2>3. CASE Freezes(c)
    BY <1>0, <2>3 DEF Freezes, Outdated, Generations, Current
  <2>4. CASE Proceeds(c)
    <3>1. \A d \in Calls : Waiting(d)' => Waiting(d)
      BY <1>0, <2>4 DEF Proceeds, Waiting
    <3>. QED
      BY <1>0, <2>4, <3>1 DEF Proceeds, Outdated, Current, Running
  <2>5. CASE Returns(c)
    <3>1. \A d \in Calls : Waiting(d)' => Waiting(d)
      BY <1>0, <2>5 DEF Returns, Waiting
    <3>. QED
      BY <1>0, <2>5, <3>1 DEF Returns, Outdated, Current, Running
  <2>. QED
    BY <2>1, <2>2, <2>3, <2>4, <2>5 DEF CallEffect
<1>2. ASSUME NEW t \in Tasks, BodyStep(t) PROVE Outdated'
  <2>1. /\ OthersStay(t) /\ Live(t) /\ UNCHANGED caller
    BY <1>2, BodyFrame DEF Outside
  <2>2. Effect(t)
    BY <1>2, BodyEffects
  <2>k. t \in Calls => caller[t] # "retiring"
    BY <1>0, <2>1 DEF Callers, Live
  <2>w. \A c \in Calls \ {t} : /\ Waiting(c)' <=> Waiting(c)
                              /\ loc'[c] = loc[c]
    BY <1>0, <2>1 DEF OthersStay, Waiting
  <2>r. ASSUME Rebinds(t)
        PROVE  /\ \A s \in Sources : bound'[s] = IF s = owner.loop THEN loc[t].gen
                                                 ELSE bound[s]
               /\ \A c \in Calls : Current(c) => c = t
    <3>1. t \in Calls /\ Current(t) /\ bound' = Rebound(owner, loc[t].gen)
      BY <2>r DEF Rebinds, Superseded, Current
    <3>. QED
      BY <1>0, <1>b, <2>1, <3>1, OneCurrent
  <2>3. ASSUME SessionStays, owner'.generation = owner.generation,
               UNCHANGED bound \/ Rebinds(t),
               owner'.state = owner.state \/ owner'.state = "RUNNING"
                 \/ owner.source = None,
               t \in Calls => pc'[t] \in Inside \cup {"done"}
        PROVE  Outdated'
    <3>1. \A s \in Sources : s # owner.loop => bound'[s] = bound[s]
      BY <2>3, <2>r
    <3>2. t \in Calls => ~ Waiting(t)'
      BY <1>i, <2>1, <2>3, <2>k DEF Waiting
    <3>3. ASSUME NEW c \in Calls, Waiting(c)', Current(c)', owner'.loop # None
          PROVE  \/ bound'[owner'.loop] < owner'.generation
                 \/ loc'[c].kind = "on" /\ owner'.state = "RUNNING"
      <4>1. c # t /\ Waiting(c) /\ Current(c) /\ loc'[c] = loc[c]
        BY <2>3, <2>w, <3>2, <3>3 DEF Current
      <4>2. UNCHANGED bound
        BY <2>3, <2>r, <4>1
      <4>3. owner.source # None
        BY <1>0, <2>3, <3>3 DEF SessionStays, OneSession
      <4>. QED
        BY <1>0, <2>3, <3>3, <4>1, <4>2, <4>3 DEF SessionStays, Outdated
    <3>. QED
      BY <1>0, <2>3, <3>1, <3>3 DEF SessionStays, Outdated, Running
  <2>4. CASE Locks(t)
    <3>1. /\ UNCHANGED <<owner, capture, bound, loc>>
          /\ \A c \in Calls : Waiting(c)' => Waiting(c)
      BY <1>0, <2>4 DEF Locks, Waiting, Entry
    <3>. QED
      BY <1>0, <3>1 DEF Outdated, Running, Current
  <2>5. CASE LeavesSession(t) \/ ReportsRunning(t)
    BY <2>3, <2>5 DEF LeavesSession, ReportsRunning, Quits, IntentStays
  <2>6. CASE LeavesNothing(t)
    <3>1. owner'.loop = None /\ UNCHANGED <<capture, bound>>
          /\ owner'.generation >= owner.generation /\ owner.loop = None
      BY <1>0, <2>6 DEF LeavesNothing, SessionStays, OneSession
    <3>. QED
      BY <1>0, <2>6, <3>1 DEF LeavesNothing, Outdated, Running
  <2>7. CASE ReportsFault(t)
    <3>1. /\ SessionStays /\ UNCHANGED bound /\ owner'.generation = owner.generation
          /\ ~ owner.desired /\ t \notin Calls
      BY <1>0, <2>7 DEF ReportsFault, IntentStays
    <3>2. ASSUME NEW c \in Calls, Waiting(c)', Current(c)', owner'.loop # None
          PROVE  bound'[owner'.loop] < owner'.generation
      <4>1. Waiting(c) /\ Current(c) /\ owner.loop # None /\ owner.source # None
        BY <1>0, <2>w, <3>1, <3>2 DEF Current, SessionStays, OneSession
      <4>2. CASE loc[c].kind = "on"
        <5>1. pc[c] \in Entry /\ Live(c)
          BY <1>0, <4>1, <4>2 DEF Waiting, Callers, Entry, Live
        <5>. QED
          BY <1>0, <3>1, <4>1, <4>2, <5>1 DEF Attended
      <4>3. CASE loc[c].kind # "on"
        BY <1>0, <3>1, <4>1, <4>3 DEF Outdated, SessionStays
      <4>. QED
        BY <4>2, <4>3
    <3>. QED
      BY <1>0, <3>1, <3>2 DEF Outdated, Running, SessionStays
  <2>8. CASE TakesCurrent(t)
    <3>1. /\ owner'.loop = None /\ UNCHANGED bound
          /\ owner'.generation = owner.generation
          /\ \A s \in Sources : Running(s)' => Running(s)
      BY <1>0, <2>8 DEF TakesCurrent, TakesSession, IntentStays, Running
    <3>2. owner.loop # None => bound[owner.loop] < owner.generation
      BY <1>0, <2>8 DEF TakesCurrent, Outdated, Waiting, Entry, Acquired, At
    <3>. QED
      BY <1>0, <3>1, <3>2 DEF Outdated
  <2>9. CASE TakesForFault(t)
    <3>1. /\ owner'.loop = None /\ UNCHANGED bound
          /\ owner'.generation = owner.generation + 1
      BY <2>9 DEF TakesForFault, TakesFaulted, TakesSession
    <3>. QED
      BY <1>0, <3>1 DEF Outdated, Generations
  <2>10. CASE MovesInside(t)
    <3>1. t \in Calls => pc'[t] \in Inside
      BY <2>10 DEF MovesInside, MovesTo
    <3>. QED
      BY <2>3, <2>10, <3>1 DEF MovesInside
  <2>11. CASE OpensSession(t)
    <3>1. /\ t \in Calls /\ Current(t) /\ pc'[t] = "ingress"
          /\ owner'.generation = owner.generation
      BY <2>11 DEF OpensSession, Stale, Superseded, Current, MovesTo, IntentStays
    <3>2. owner.loop = None
      BY <1>0, <2>11 DEF OpensSession, OneSession, Starting
    <3>3. PICK s \in Sources :
            /\ owner'.loop = s /\ capture' = [capture EXCEPT ![s] = "running"]
            /\ bound' = [bound EXCEPT ![s] = loc[t].gen]
      BY <2>11 DEF OpensSession
    <3>4. \A c \in Calls : Current(c)' /\ Waiting(c)' => FALSE
      <4>1. ASSUME NEW c \in Calls, Current(c)', Waiting(c)', c # t PROVE FALSE
        <5>1. Current(c)
          BY <2>w, <3>1, <4>1 DEF Current
        <5>. QED
          BY <1>0, <2>1, <3>1, <4>1, <5>1, OneCurrent
      <4>2. ~ Waiting(t)'
        BY <2>1, <2>k, <3>1 DEF Waiting, Entry
      <4>. QED
        BY <4>1, <4>2
    <3>5. \A r \in Sources \ {s} : bound'[r] = bound[r] /\ capture'[r] = capture[r]
      BY <1>0, <3>3
    <3>. QED
      BY <1>0, <3>1, <3>2, <3>3, <3>4, <3>5 DEF Outdated, Running
  <2>. QED
    BY <2>2, <2>4, <2>5, <2>6, <2>7, <2>8, <2>9, <2>10, <2>11 DEF Effect
<1>3. ASSUME NEW s \in Sources, LoopEnds(s) PROVE Outdated'
  <2>1. /\ UNCHANGED <<owner, bound, caller>>
        /\ \A c \in Calls : pc'[c] = pc[c] /\ loc'[c] = loc[c]
        /\ \A r \in Sources : Running(r)' => Running(r)
    BY <1>0, <1>3, LoopFacts DEF OthersStay, Outside, Running
  <2>. QED
    BY <1>0, <2>1 DEF Outdated, Waiting, Current
<1>4. ASSUME NEW x \in Failures, ProviderFails(x) PROVE Outdated'
  <2>1. /\ UNCHANGED <<owner, bound, caller, capture>>
        /\ \A c \in Calls : pc'[c] = pc[c] /\ loc'[c] = loc[c]
    BY <1>0, <1>4, ReportFacts DEF OthersStay, Outside, Held
  <2>. QED
    BY <1>0, <2>1 DEF Outdated, Waiting, Current, Running
<1>5. CASE Boundary
  <2>1. /\ UNCHANGED <<owner, bound, caller, capture, loc>>
        /\ \A c \in Calls : pc'[c] = pc[c] \/ pc'[c] = "committed"
    BY <1>0, <1>5, BoundaryFacts DEF OthersStay, Outside
  <2>2. \A c \in Calls : Waiting(c)' => Waiting(c)
    BY <2>1 DEF Waiting, Entry
  <2>. QED
    BY <1>0, <2>1, <2>2 DEF Outdated, Current, Running
<1>6. CASE IdleRelease \/ UNCHANGED vars
  BY <1>0, <1>6 DEF IdleRelease, vars, Outdated, Running, Waiting, Current, Outside
<1>. QED
  BY <1>1, <1>2, <1>3, <1>4, <1>5, <1>6 DEF Next

\* Somebody looks after a session that is not as it should be.
LEMMA AttendedStep ==
    ASSUME CaptureInv, [Next]_vars, Typed'
    PROVE  Attended'
<1>0. /\ Typed /\ Attended /\ Generations /\ Callers /\ OneSession /\ Roles
      /\ owner \in OwnerTypes /\ owner.generation \in Nat
      /\ pc \in [Tasks -> Pcs] /\ loc \in [Tasks -> Locals]
      /\ caller \in [Calls -> {"idle", "awaiting", "retiring", "frozen", "returned",
                               "faults", "closed"}]
      /\ \A t \in Tasks : loc[t].gen \in Nat
      /\ Sources \subseteq Tasks /\ Calls \subseteq Tasks /\ Failures \subseteq Tasks
      /\ Calls \cap Sources = {} /\ Calls \cap Failures = {} /\ None \notin Sources
  BY CaptureAssumption DEF CaptureInv, Typed, Tasks, CaptureAssumption, OwnerTypes,
     Locals
<1>i. \A place \in Inside \cup {"done", "none", "ingress"} : place \notin Entry
  BY DEF Inside, Tearing, Starting, Handing, Entry
<1>1. ASSUME NEW c \in Calls, Start(c) \/ CallerStep(c) PROVE Attended'
  <2>1. CallEffect(c)
    BY <1>1, CallEffects
  <2>2. ASSUME Declared(c, "start") \/ Declared(c, "none")
        PROVE  /\ \A d \in Calls : Current(d)' => d = c
               /\ Current(c)'
               /\ \A ts : c \notin WithKilled(ts)
               /\ c \notin killed
    <3>1. /\ owner'.generation = owner.generation + 1
          /\ loc'[c].gen = owner.generation + 1 /\ pc[c] = "none"
          /\ \A d \in Calls \ {c} : loc'[d] = loc[d]
      BY <1>0, <2>2 DEF Declared, OthersStay
    <3>. QED
      BY <1>0, <3>1 DEF Generations, Current, WithKilled, Live, Roles
  <2>3. CASE DeclaresIntent(c)
    <3>1. Responsible(c)'
      BY <2>2, <2>3 DEF DeclaresIntent, Responsible, Waiting, Declared, Entry
    <3>2. loc'[c].kind \in {"on", "restart"} => owner'.desired
      BY <2>3 DEF DeclaresIntent
    <3>3. loc'[c].kind # "prepare"
      BY <2>3 DEF DeclaresIntent, Intents
    <3>. QED
      BY <2>2, <2>3, <3>1, <3>2, <3>3 DEF DeclaresIntent, Attended
  <2>4. CASE DeclaresPreparation(c)
    BY <2>2, <2>4 DEF DeclaresPreparation, Declared, Attended
  <2>5. CASE DeclaresRetirement(c)
    <3>1. Responsible(c)'
      BY <2>2, <2>5 DEF DeclaresRetirement, Responsible, Waiting
    <3>2. ~ Live(c)'
      BY <2>5 DEF DeclaresRetirement, Declared, Live
    <3>. QED
      BY <2>2, <2>5, <3>1, <3>2 DEF DeclaresRetirement, Attended
  <2>6. CASE Freezes(c)
    <3>1. Responsible(c)'
      BY <1>0, <2>6 DEF Freezes, Responsible
    <3>2. \A d \in Calls : ~ Current(d)'
      BY <1>0, <2>6 DEF Freezes, Current, Generations
    <3>. QED
      BY <3>1, <3>2 DEF Attended
  <2>7. CASE Proceeds(c)
    <3>1. \A d \in Calls : Responsible(d) => Responsible(d)'
      BY <1>0, <2>7 DEF Proceeds, Responsible, Waiting, Current, Entry, Callers
    <3>2. loc[c].kind \in {"suspend", "close"} /\ UNCHANGED <<owner, loc>>
      BY <1>0, <2>7 DEF Proceeds, Callers
    <3>3. \A d \in Calls \ {c} : pc'[d] = pc[d]
      BY <1>0, <2>7 DEF Proceeds
    <3>. QED
      BY <1>0, <3>1, <3>2, <3>3 DEF Attended, Live, Current
  <2>8. CASE Returns(c)
    <3>1. \A d \in Calls : d \in killed' <=> d \in killed
      BY <1>0, <2>8 DEF Returns, WithKilled
    <3>2. \A d \in Calls : Responsible(d) => Responsible(d)'
      BY <1>0, <2>8, <3>1 DEF Returns, Responsible, Waiting, Current
    <3>. QED
      BY <1>0, <2>8, <3>2 DEF Returns, Attended, Live, Current
  <2>. QED
    BY <2>1, <2>3, <2>4, <2>5, <2>6, <2>7, <2>8 DEF CallEffect
<1>2. ASSUME NEW t \in Tasks, BodyStep(t) PROVE Attended'
  <2>1. /\ OthersStay(t) /\ Live(t) /\ UNCHANGED <<caller, killed>>
        /\ loc'[t].kind = loc[t].kind
    BY <1>2, BodyFrame DEF Outside
  <2>2. Effect(t)
    BY <1>2, BodyEffects
  <2>k. t \in Calls => caller[t] \notin {"retiring", "frozen"}
    BY <1>0, <2>1 DEF Callers, Live
  <2>w. ASSUME owner'.generation = owner.generation, NEW c \in Calls \ {t}
        PROVE  /\ Responsible(c) => Responsible(c)'
               /\ Current(c)' <=> Current(c)
               /\ Live(c)' <=> Live(c)
               /\ loc'[c] = loc[c] /\ pc'[c] = pc[c]
    BY <1>0, <2>1, <2>w DEF OthersStay, Responsible, Waiting, Current, Live
  <2>n. owner'.source = None => Attended'
    BY DEF Attended
  <2>d. ASSUME t \in Calls, Current(t), pc[t] \in Entry \cup {"ingress"},
               owner.source # None, loc[t].kind \in {"on", "restart"}
        PROVE  owner.desired
    BY <1>0, <2>1, <2>d DEF Attended
  <2>3. CASE Locks(t)
    <3>1. /\ UNCHANGED <<owner, loc>> /\ pc[t] = "start" /\ pc'[t] = "lock"
      BY <1>0, <2>3 DEF Locks
    <3>2. \A c \in Calls : Responsible(c) => Responsible(c)'
      BY <1>0, <2>w, <3>1, <2>1 DEF Responsible, Waiting, Current, Entry
    <3>3. \A c \in Calls : Current(c)' /\ Live(c)' =>
            /\ Current(c) /\ Live(c)
            /\ pc'[c] \in Entry \cup {"ingress"} => pc[c] \in Entry \cup {"ingress"}
      BY <1>0, <2>w, <3>1 DEF Current, Live, Entry
    <3>. QED
      BY <1>0, <3>1, <3>2, <3>3 DEF Attended
  <2>4. ASSUME SessionStays, owner'.generation = owner.generation,
               owner'.desired = owner.desired,
               owner'.state = owner.state \/ owner'.state = "RUNNING",
               t \in Calls /\ Responsible(t) /\ owner.source # None
                 => owner'.state = "RUNNING" /\ owner.desired,
               t \in Calls =>
                 \/ pc'[t] = "done"
                 \/ /\ pc'[t] \in Inside \ {"ingress"} /\ loc'[t].gen = loc[t].gen
        PROVE  Attended'
    <3>1. owner'.source = owner.source
      BY <2>4 DEF SessionStays
    <3>2. owner'.source # None =>
            \/ owner'.state = "RUNNING" /\ owner'.desired
            \/ \E c \in Calls : Responsible(c)'
      <4>1. CASE owner.state = "RUNNING" /\ owner.desired
        BY <2>4, <4>1
      <4>2. ASSUME NEW c \in Calls, Responsible(c), owner.source # None
            PROVE  \/ owner'.state = "RUNNING" /\ owner'.desired
                   \/ Responsible(c)'
        <5>1. CASE c = t
          BY <2>4, <4>2, <5>1
        <5>2. CASE c # t
          BY <2>4, <2>w, <4>2, <5>2
        <5>. QED
          BY <5>1, <5>2
      <4>. QED
        BY <1>0, <3>1, <4>1, <4>2 DEF Attended
    <3>3. ASSUME NEW c \in Calls, Live(c)', Current(c)'
          PROVE  /\ loc'[c].kind = "prepare" => owner'.source = None
                 /\ owner'.source # None =>
                      (loc'[c].kind \in {"on", "restart"}
                         /\ pc'[c] \in Entry \cup {"ingress"} => owner'.desired)
      <4>1. CASE c # t
        <5>1. Live(c) /\ Current(c) /\ loc'[c] = loc[c] /\ pc'[c] = pc[c]
          BY <2>4, <2>w, <3>3, <4>1
        <5>. QED
          BY <1>0, <2>4, <3>1, <5>1 DEF Attended
      <4>2. CASE c = t
        <5>1. pc'[t] \in Inside \ {"ingress"} /\ loc'[t].gen = loc[t].gen
          BY <2>4, <3>3, <4>2 DEF Live
        <5>2. pc'[t] \notin Entry \cup {"ingress"} /\ Current(t)
          BY <1>i, <2>4, <3>3, <4>2, <5>1 DEF Current
        <5>. QED
          BY <1>0, <2>1, <3>1, <4>2, <5>2 DEF Attended
      <4>. QED
        BY <4>1, <4>2
    <3>. QED
      BY <3>2, <3>3 DEF Attended
  <2>r. ASSUME t \in Calls, Responsible(t)
        PROVE  /\ t \notin killed /\ Current(t) /\ pc[t] \in Entry \cup {"ingress"}
    BY <2>k, <2>r DEF Responsible, Waiting
  <2>5. CASE LeavesSession(t)
    <3>1. t \in Calls /\ Responsible(t) /\ owner.source # None
            => owner.state = "RUNNING" /\ owner.desired
      <4>1. ASSUME t \in Calls, Responsible(t), owner.source # None
            PROVE  owner.state = "RUNNING" /\ owner.desired
        <5>1. Rebinds(t)
          BY <2>5, <2>r, <4>1 DEF LeavesSession
        <5>. QED
          BY <2>d, <2>r, <4>1, <5>1 DEF Rebinds
      <4>. QED
        BY <4>1
    <3>. QED
      BY <2>4, <2>5, <3>1 DEF LeavesSession, IntentStays, Quits
  <2>6. CASE LeavesNothing(t)
    BY <2>6, <2>n DEF LeavesNothing, SessionStays
  <2>7. CASE ReportsRunning(t)
    <3>1. t \in Calls /\ pc[t] = "ingress" /\ loc[t].kind \in {"on", "restart"}
      BY <1>0, <2>7 DEF ReportsRunning, Roles, Starting
    <3>2. Responsible(t) /\ owner.source # None => owner.desired
      BY <2>d, <2>r, <3>1
    <3>. QED
      BY <2>4, <2>7, <3>1, <3>2 DEF ReportsRunning, IntentStays, Quits
  <2>8. CASE ReportsFault(t)
    <3>1. /\ t \notin Calls /\ owner'.source = owner.source /\ ~ owner.desired
          /\ owner'.desired = owner.desired
          /\ owner'.generation = owner.generation
      BY <1>0, <2>8 DEF ReportsFault, SessionStays, IntentStays
    <3>2. \A c \in Calls : /\ Responsible(c) => Responsible(c)'
                           /\ Current(c)' <=> Current(c)
                           /\ Live(c)' <=> Live(c)
                           /\ loc'[c] = loc[c] /\ pc'[c] = pc[c]
      BY <2>w, <3>1
    <3>. QED
      BY <1>0, <3>1, <3>2 DEF Attended
  <2>9. CASE TakesCurrent(t) \/ TakesForFault(t)
    BY <2>9, <2>n DEF TakesCurrent, TakesForFault, TakesFaulted, TakesSession
  <2>10. CASE MovesInside(t)
    <3>1. CASE owner.source = None
      BY <2>10, <2>n, <3>1 DEF MovesInside, SessionStays
    <3>2. CASE owner.source # None
      <4>1. /\ SessionStays /\ owner'.generation = owner.generation
            /\ owner'.desired = owner.desired /\ owner'.state = owner.state
            /\ pc[t] # "ingress" /\ HasLock(t)
            /\ pc[t] = "lock" => Rebinds(t)
            /\ pc'[t] \in Inside \ {"ingress"} /\ loc'[t].gen = loc[t].gen
        BY <2>10, <3>2 DEF MovesInside, MovesTo
      <4>2. pc[t] \in Entry => pc[t] = "lock"
        BY <1>i, <4>1 DEF HasLock, Acquired, At
      <4>3. t \in Calls /\ Responsible(t) => owner.state = "RUNNING" /\ owner.desired
        <5>1. ASSUME t \in Calls, Responsible(t)
              PROVE  owner.state = "RUNNING" /\ owner.desired
          <6>1. Rebinds(t)
            BY <2>r, <4>1, <4>2, <5>1
          <6>. QED
            BY <2>d, <2>r, <3>2, <5>1, <6>1 DEF Rebinds
        <5>. QED
          BY <5>1
      <4>. QED
        BY <2>4, <4>1, <4>3
    <3>. QED
      BY <3>1, <3>2
  <2>11. CASE OpensSession(t)
    <3>1. /\ t \in Calls /\ t \notin killed /\ Current(t) /\ owner.desired
          /\ pc'[t] = "ingress" /\ loc'[t] = loc[t] /\ pc[t] = "opening"
          /\ owner'.generation = owner.generation /\ owner'.desired = owner.desired
      BY <2>11 DEF OpensSession, Stale, Superseded, Current, MovesTo, IntentStays
    <3>2. Responsible(t)'
      BY <2>1, <3>1 DEF Responsible, Current
    <3>3. \A c \in Calls : Current(c)' => c = t
      <4>1. ASSUME NEW c \in Calls, Current(c)', c # t PROVE FALSE
        <5>1. Current(c)
          BY <2>w, <3>1, <4>1
        <5>. QED
          BY <1>0, <2>1, <3>1, <4>1, <5>1, OneCurrent
      <4>. QED
        BY <4>1
    <3>4. loc'[t].kind # "prepare"
      BY <1>0, <3>1 DEF Roles, Starting
    <3>. QED
      BY <3>1, <3>2, <3>3, <3>4 DEF Attended
  <2>. QED
    BY <2>2, <2>3, <2>5, <2>6, <2>7, <2>8, <2>9, <2>10, <2>11 DEF Effect
<1>n. ASSUME owner' = owner, caller' = caller, killed' = killed,
             \A c \in Calls :
               /\ loc'[c] = loc[c]
               /\ \/ pc'[c] = pc[c]
                  \/ pc[c] = "boundary" /\ pc'[c] = "committed"
      PROVE  Attended'
  <2>1. \A c \in Calls : /\ Responsible(c) => Responsible(c)'
                         /\ Current(c)' <=> Current(c)
                         /\ Live(c)' <=> Live(c)
                         /\ pc'[c] \in Entry \cup {"ingress"}
                              => pc[c] \in Entry \cup {"ingress"}
    BY <1>n DEF Responsible, Waiting, Current, Live, Entry
  <2>. QED
    BY <1>0, <1>n, <2>1 DEF Attended
<1>3. ASSUME NEW s \in Sources, LoopEnds(s) PROVE Attended'
  BY <1>0, <1>3, <1>n, LoopFacts DEF OthersStay, Outside
<1>4. ASSUME NEW x \in Failures, ProviderFails(x) PROVE Attended'
  BY <1>0, <1>4, <1>n, ReportFacts DEF OthersStay, Outside
<1>5. CASE Boundary
  BY <1>0, <1>5, <1>n, BoundaryFacts DEF OthersStay, Outside
<1>6. CASE IdleRelease \/ UNCHANGED vars
  BY <1>0, <1>6, <1>n DEF IdleRelease, vars, Outside
<1>. QED
  BY <1>1, <1>2, <1>3, <1>4, <1>5, <1>6 DEF Next

\* A body acts with the lock, but for one that enters its queue or was cancelled.
LEMMA BodyLock ==
    ASSUME NEW t \in Tasks, BodyStep(t), ~ Locks(t), t \notin killed
    PROVE  HasLock(t)
<1>1. Acquired(t) \/ (pc[t] \in Inside /\ t \notin killed)
  <2>1. \A place \in {"loop", "closing", "debts", "release", "admission", "replace",
                      "swap", "opening", "lateClose", "ingress", "failRelease",
                      "staleRelease", "handoff", "committed"} : place \in Inside
    BY DEF Inside, Tearing, Starting, Handing
  <2>. QED
    BY <2>1 DEF BodyStep, SupersededBody, TurnsOff, TurnsOn, Restarts, KeepsSession,
       Prepares, TearsDown, LoopEnded, SourceClosed, DebtRetried, DebtsSettled,
       ProviderReleased, AdmissionReturns, ProviderBuilt, OldProviderClosed,
       SourceOpened, LateSourceClosed, IngressStarted, StartReleased, CandidateBuilt,
       HandoffResumes, CancelledQuietly, CancelledClosing, CancelledReleasing,
       CancelledWaiting, FaultRuns, TerminalRuns, At
<1>. QED
  BY <1>1 DEF HasLock

\* After a body of close has the lock, no body but one of close gets it.
LEMMA ClosingStep ==
    ASSUME CaptureInv, [Next]_vars, Typed'
    PROVE  Closing'
<1>0. /\ Typed /\ Closing /\ Generations /\ Callers /\ Transitions /\ LockOK
      /\ owner \in OwnerTypes /\ owner.generation \in Nat
      /\ pc \in [Tasks -> Pcs] /\ loc \in [Tasks -> Locals]
      /\ caller \in [Calls -> {"idle", "awaiting", "retiring", "frozen", "returned",
                               "faults", "closed"}]
      /\ \A t \in Tasks : loc[t].gen \in Nat
      /\ Sources \subseteq Tasks /\ Calls \subseteq Tasks /\ Failures \subseteq Tasks
      /\ Calls \cap Sources = {} /\ Calls \cap Failures = {} /\ None \notin Sources
  BY CaptureAssumption DEF CaptureInv, Typed, Tasks, CaptureAssumption, OwnerTypes,
     Locals
<1>i. /\ \A place \in {"none", "start", "lock"} : place \notin Inside \cup {"done"}
      /\ "done" \notin Inside
      /\ {"loop", "ingress", "opening", "boundary", "committed"} \subseteq Inside
  BY DEF Inside, Tearing, Starting, Handing
<1>e. \A place \in Inside \cup {"done"} : place \notin Entry
  BY DEF Inside, Tearing, Starting, Handing, Entry
\* Nobody goes inside, and who was there stays there or ends.
<1>n. ASSUME \A u \in Tasks :
               \/ pc'[u] \notin Inside \cup {"done"}
               \/ /\ loc'[u].kind = loc[u].kind
                  /\ pc[u] \in Inside \/ pc'[u] = pc[u]
             PROVE (\E c \in Calls : loc'[c].kind = "close" /\ pc'[c] \in Inside \cup {"done"})
                      => \A u \in Tasks : pc'[u] \in Inside => loc'[u].kind = "close"
  <2>1. ASSUME NEW c \in Calls, loc'[c].kind = "close", pc'[c] \in Inside \cup {"done"},
               NEW u \in Tasks, pc'[u] \in Inside
        PROVE  loc'[u].kind = "close"
    <3>1. loc[c].kind = "close" /\ pc[c] \in Inside \cup {"done"}
      BY <1>0, <1>n, <2>1
    <3>2. pc[u] \in Inside /\ loc'[u].kind = loc[u].kind
      BY <1>n, <2>1
    <3>. QED
      BY <1>0, <3>1, <3>2 DEF Closing
  <2>. QED
    BY <2>1
<1>1. ASSUME NEW c \in Calls, Start(c) \/ CallerStep(c) PROVE Closing'
  <2>1. CallEffect(c)
    BY <1>1, CallEffects
  <2>2. \A u \in Tasks : \/ pc'[u] \notin Inside \cup {"done"}
                         \/ loc'[u].kind = loc[u].kind /\ pc'[u] = pc[u]
    BY <1>0, <1>i, <2>1 DEF CallEffect, DeclaresIntent, DeclaresPreparation,
       DeclaresRetirement, Declared, Freezes, Proceeds, Returns, OthersStay
  <2>3. owner'.closed /\ owner'.source # None =>
          \E d \in Calls : \/ caller'[d] = "frozen"
                           \/ loc'[d].kind = "close" /\ Waiting(d)' /\ Current(d)'
    <3>1. CASE DeclaresIntent(c)
      BY <3>1 DEF DeclaresIntent
    <3>2. CASE DeclaresPreparation(c)
      BY <3>2 DEF DeclaresPreparation, Declared
    <3>3. CASE DeclaresRetirement(c)
      <4>1. owner'.closed => loc'[c].kind = "close"
        BY <1>0, <3>3 DEF DeclaresRetirement
      <4>2. Waiting(c)' /\ Current(c)'
        BY <3>3 DEF DeclaresRetirement, Declared, Waiting, Current
      <4>. QED
        BY <4>1, <4>2
    <3>4. CASE Freezes(c)
      BY <1>0, <3>4 DEF Freezes
    <3>5. CASE Proceeds(c)
      <4>1. \A d \in Calls : /\ Waiting(d) => Waiting(d)'
                             /\ Current(d) => Current(d)'
                             /\ caller[d] = "frozen" => caller'[d] = "frozen"
        BY <1>0, <3>5 DEF Proceeds, Waiting, Current, Entry
      <4>. QED
        BY <1>0, <3>5, <4>1 DEF Proceeds, Closing
    <3>6. CASE Returns(c)
      <4>1. \A d \in Calls : /\ Waiting(d) => Waiting(d)'
                             /\ Current(d) => Current(d)'
                             /\ caller[d] = "frozen" => caller'[d] = "frozen"
        BY <1>0, <3>6 DEF Returns, Waiting, Current
      <4>. QED
        BY <1>0, <3>6, <4>1 DEF Returns, Closing
    <3>. QED
      BY <2>1, <3>1, <3>2, <3>3, <3>4, <3>5, <3>6 DEF CallEffect
  <2>. QED
    BY <1>n, <2>2, <2>3 DEF Closing
<1>2. ASSUME NEW t \in Tasks, BodyStep(t) PROVE Closing'
  <2>1. /\ OthersStay(t) /\ Live(t) /\ UNCHANGED <<caller, killed>>
        /\ loc'[t].kind = loc[t].kind /\ owner'.closed = owner.closed
    BY <1>2, BodyFrame DEF Outside
  <2>2. Effect(t)
    BY <1>2, BodyEffects
  <2>a. HasLock(t) => \A u \in Tasks : pc[u] \in Inside => u = t
    BY <1>0, Alone
  <2>c. t \in Calls /\ loc[t].kind = "close" /\ ~ Locks(t) => HasLock(t)
    BY <1>0, <1>2, BodyLock DEF Transitions, Intents
  <2>3. (\E c \in Calls : loc'[c].kind = "close" /\ pc'[c] \in Inside \cup {"done"})
           => \A u \in Tasks : pc'[u] \in Inside => loc'[u].kind = "close"
    <3>1. CASE pc'[t] \notin Inside \cup {"done"}
      BY <1>n, <2>1, <3>1 DEF OthersStay
    <3>2. CASE pc[t] \in Inside
      BY <1>n, <2>1, <3>2 DEF OthersStay
    <3>3. CASE pc'[t] = "done"
      <4>1. CASE t \in Calls /\ loc[t].kind = "close"
        <5>1. HasLock(t)
          BY <1>0, <2>c, <3>3, <4>1 DEF Locks
        <5>2. \A u \in Tasks : pc'[u] \notin Inside
          BY <1>i, <2>1, <2>a, <3>3, <5>1 DEF OthersStay
        <5>. QED
          BY <5>2
      <4>2. CASE ~ (t \in Calls /\ loc[t].kind = "close")
        <5>1. ASSUME NEW c \in Calls, loc'[c].kind = "close",
                     pc'[c] \in Inside \cup {"done"},
                     NEW u \in Tasks, pc'[u] \in Inside
              PROVE  loc'[u].kind = "close"
          <6>1. c # t /\ u # t
            BY <1>i, <2>1, <3>3, <4>2, <5>1
          <6>. QED
            BY <1>0, <2>1, <5>1, <6>1 DEF OthersStay, Closing
        <5>. QED
          BY <5>1
      <4>. QED
        BY <4>1, <4>2
    <3>4. CASE pc'[t] \in Inside /\ pc[t] \notin Inside
      <4>1. /\ HasLock(t)
            /\ owner.closed => loc[t].kind = "close"
        <5>1. CASE Locks(t)
          BY <1>0, <1>i, <3>4, <5>1 DEF Locks
        <5>2. CASE LeavesSession(t) \/ LeavesNothing(t) \/ ReportsRunning(t)
                      \/ ReportsFault(t)
          BY <1>i, <3>4, <5>2 DEF LeavesSession, LeavesNothing, ReportsRunning,
             ReportsFault, Quits
        <5>3. CASE TakesCurrent(t)
          BY <5>3 DEF TakesCurrent, HasLock
        <5>4. CASE TakesForFault(t)
          BY <1>i, <3>4, <5>4 DEF TakesForFault, TakesFaulted, HasLock
        <5>5. CASE MovesInside(t)
          BY <3>4, <5>5 DEF MovesInside, HasLock, Acquired, At
        <5>6. CASE OpensSession(t)
          BY <1>i, <3>4, <5>6 DEF OpensSession
        <5>. QED
          BY <2>2, <5>1, <5>2, <5>3, <5>4, <5>5, <5>6 DEF Effect
      <4>2. \A u \in Tasks : pc'[u] \in Inside => u = t
        BY <2>1, <2>a, <4>1 DEF OthersStay
      <4>3. \A c \in Calls : loc'[c].kind = "close" => owner.closed
        BY <1>0, <2>1 DEF Generations, OthersStay
      <4>. QED
        BY <2>1, <4>1, <4>2, <4>3
    <3>. QED
      BY <1>i, <3>1, <3>2, <3>3, <3>4
  <2>4. ASSUME owner.closed, owner'.source # None
        PROVE  \E d \in Calls : \/ caller'[d] = "frozen"
                                \/ loc'[d].kind = "close" /\ Waiting(d)' /\ Current(d)'
    <3>1. owner'.generation = owner.generation /\ owner'.source = owner.source
      BY <2>2, <2>4 DEF Effect, Locks, LeavesSession, LeavesNothing, ReportsRunning,
         ReportsFault, TakesCurrent, TakesForFault, TakesFaulted, TakesSession,
         MovesInside, OpensSession, SessionStays, IntentStays, Stale, Superseded
    <3>3. ASSUME t \in Calls, loc[t].kind = "close", Waiting(t), Current(t)
          PROVE  Waiting(t)' /\ Current(t)'
      <4>1. /\ pc[t] \in Entry /\ t \notin killed
            /\ pc[t] \notin Inside
        BY <1>0, <1>e, <2>1, <3>3 DEF Waiting, Callers, Live, Transitions, Intents
      <4>2. CASE Locks(t)
        BY <1>0, <3>1, <3>3, <4>2 DEF Locks, Waiting, Current, Entry
      <4>3. CASE LeavesSession(t)
        BY <3>3, <4>1, <4>3 DEF LeavesSession, Rebinds
      <4>4. CASE LeavesNothing(t) \/ TakesCurrent(t) \/ TakesForFault(t)
        BY <2>4, <3>1, <4>4 DEF LeavesNothing, TakesCurrent, TakesForFault,
           TakesFaulted, TakesSession
      <4>5. CASE ReportsRunning(t) \/ OpensSession(t)
        BY <1>i, <4>1, <4>5 DEF ReportsRunning, OpensSession
      <4>6. CASE ReportsFault(t)
        BY <1>0, <3>3, <4>6 DEF ReportsFault
      <4>7. CASE MovesInside(t)
        <5>1. pc[t] = "lock"
          BY <4>1, <4>7 DEF MovesInside, HasLock, Acquired, At
        <5>. QED
          BY <2>4, <4>7, <5>1 DEF MovesInside
      <4>. QED
        BY <2>2, <4>2, <4>3, <4>4, <4>5, <4>6, <4>7 DEF Effect
    <3>4. PICK d \in Calls : \/ caller[d] = "frozen"
                             \/ loc[d].kind = "close" /\ Waiting(d) /\ Current(d)
      BY <1>0, <2>4, <3>1 DEF Closing
    <3>5. CASE d = t
      <4>1. caller[d] # "frozen"
        BY <1>0, <2>1, <3>5 DEF Callers, Live
      <4>2. loc'[d].kind = "close" /\ Waiting(d)' /\ Current(d)'
        BY <2>1, <3>3, <3>4, <3>5, <4>1
      <4>. QED
        BY <4>2
    <3>6. CASE d # t
      <4>1. /\ Waiting(d)' <=> Waiting(d)
            /\ Current(d)' <=> Current(d)
            /\ loc'[d] = loc[d] /\ caller'[d] = caller[d]
        BY <1>0, <2>1, <3>1, <3>6 DEF OthersStay, Waiting, Current
      <4>. QED
        BY <3>4, <4>1
    <3>. QED
      BY <3>5, <3>6
  <2>. QED
    BY <2>1, <2>3, <2>4 DEF Closing
<1>m. ASSUME owner' = owner, caller' = caller,
             \A c \in Calls : /\ loc'[c] = loc[c]
                              /\ \/ pc'[c] = pc[c]
                                 \/ pc[c] = "boundary" /\ pc'[c] = "committed",
             \A u \in Tasks : \/ pc'[u] \notin Inside \cup {"done"}
                              \/ /\ loc'[u].kind = loc[u].kind
                                 /\ pc[u] \in Inside \/ pc'[u] = pc[u]
      PROVE  Closing'
  <2>1. \A c \in Calls : /\ Waiting(c) => Waiting(c)'
                         /\ Current(c) => Current(c)'
    BY <1>m DEF Waiting, Current, Entry
  <2>. QED
    BY <1>0, <1>m, <1>n, <2>1 DEF Closing
<1>3. ASSUME NEW s \in Sources, LoopEnds(s) PROVE Closing'
  BY <1>0, <1>3, <1>i, <1>m, LoopFacts DEF OthersStay, Outside
<1>4. ASSUME NEW x \in Failures, ProviderFails(x) PROVE Closing'
  BY <1>0, <1>4, <1>i, <1>m, ReportFacts DEF OthersStay, Outside
<1>5. CASE Boundary
  BY <1>0, <1>5, <1>i, <1>m, BoundaryFacts DEF OthersStay, Outside
<1>6. CASE IdleRelease \/ UNCHANGED vars
  BY <1>0, <1>6, <1>m DEF IdleRelease, vars, Outside
<1>. QED
  BY <1>1, <1>2, <1>3, <1>4, <1>5, <1>6 DEF Next

-----------------------------------------------------------------------------
(* The invariant. *)

\* The owner is made stopped, with no session, no transition and a free lock.
LEMMA InitInv == Init => CaptureInv
<1>. SUFFICES ASSUME Init PROVE CaptureInv
  OBVIOUS
<1>0. /\ \A t \in Tasks : pc[t] = "none" /\ loc[t] = NoLocals
      /\ \A c \in Calls : caller[c] = "idle" /\ waits[c] = None
      /\ \A s \in Sources : mic[s] = "unused" /\ capture[s] = "none" /\ bound[s] = 0
      /\ Calls \subseteq Tasks /\ Sources \subseteq Tasks /\ Failures \subseteq Tasks
      /\ queue = <<>> /\ transition = None /\ killed = {}
      /\ NoLocals.kind = "none" /\ NoLocals.gen = 0 /\ NoLocals.src = None
      /\ NoLocals.then = "end"
      /\ None \notin Sources
      /\ owner.closed = FALSE /\ owner.source = None /\ owner.loop = None
      /\ owner.generation = 0 /\ owner.state = "STOPPED"
      /\ runtime.pending = None
  BY CaptureAssumption DEF Init, Tasks, NoLocals, CaptureAssumption
<1>1. Typed
  <2>1. owner \in OwnerTypes /\ runtime \in RuntimeTypes /\ NoLocals \in Locals
    BY DEF Init, OwnerTypes, RuntimeTypes, NoLocals, Locals, Bodies
  <2>2. loc \in [Tasks -> Locals] /\ pc \in [Tasks -> Pcs]
    BY <2>1 DEF Init, Pcs
  <2>. QED
    BY <1>0, <2>1, <2>2 DEF Typed, Init
<1>2. LockOK
  BY <1>0 DEF LockOK, Inside, Tearing, Starting, Handing
<1>3. Roles
  BY <1>0 DEF Roles, Starting, Handing
<1>4. Callers /\ Transitions /\ SourceLife
  BY <1>0 DEF Callers, Transitions, SourceLife, Live
<1>5. OneSession
  BY <1>0 DEF OneSession, Tearing, Starting
<1>6. Holding
  BY <1>0 DEF Holding, SourcesAreAccounted
<1>7. PendingHandoff /\ Generations
  BY <1>0 DEF PendingHandoff, Generations, Live
<1>8. Outdated
  BY <1>0 DEF Outdated, Running, Waiting, Entry
<1>9. Attended
  BY <1>0 DEF Attended, Live
<1>10. Closing
  BY <1>0 DEF Closing, Inside, Tearing, Starting, Handing
<1>. QED
  BY <1>1, <1>2, <1>3, <1>4, <1>5, <1>6, <1>7, <1>8, <1>9, <1>10 DEF CaptureInv

\* CaptureInv is an invariant of every interleaving of the callers (apply_intent,
\* prepare_local_asr_configuration, suspend, close), the bodies they start under
\* _activation_lock, the loops that end and the callbacks of the provider.
THEOREM CaptureInvariance == Spec => []CaptureInv
<1>1. CaptureInv /\ [Next]_vars => CaptureInv'
  <2>. SUFFICES ASSUME CaptureInv, [Next]_vars PROVE CaptureInv'
    OBVIOUS
  <2>1. Typed'
    BY TypesStep DEF CaptureInv
  <2>. QED
    BY <2>1, LockStep, RolesStep, CallersStep, TransitionsStep, SourceLifeStep,
       OneSessionStep, HoldingStep, PendingStep, GenerationsStep, OutdatedStep,
       AttendedStep, ClosingStep DEF CaptureInv
<1>. QED
  BY InitInv, <1>1, PTL DEF Spec

\* However callers, bodies, loops and failures interleave, every open microphone
\* is the session's, or kept to be closed again, or in the hands of a task
\* (_retain_source, _close_source, _teardown).
THEOREM SourcesAccounted == Spec => []SourcesAreAccounted
<1>1. CaptureInv => SourcesAreAccounted
  BY DEF CaptureInv, Holding
<1>. QED
  BY <1>1, CaptureInvariance, PTL

\* A loop whose events are let through is the session's (is_current_generation).
THEOREM CurrentLoopPublishes == Spec => []OnlyCurrentLoopPublishes
<1>1. CaptureInv => OnlyCurrentLoopPublishes
  <2>. SUFFICES ASSUME CaptureInv, NEW s \in Sources, Running(s), Publishes(s)
                PROVE  s = owner.loop
    BY DEF OnlyCurrentLoopPublishes
  <2>1. /\ bound[s] = owner.generation /\ Outdated
        /\ owner.generation \in Nat
    BY DEF Publishes, CaptureInv, Typed, OwnerTypes
  <2>. QED
    BY <2>1 DEF Outdated
<1>. QED
  BY <1>1, CaptureInvariance, PTL

\* At rest the owner reports a session running exactly when it has one that is
\* wanted, and no other loop runs.
THEOREM RestIsSettled == Spec => []Settled
<1>1. CaptureInv => Settled
  <2>. SUFFICES ASSUME CaptureInv, Quiet PROVE Settled
    BY DEF Settled
  <2>1. OneSession /\ Attended
    BY DEF CaptureInv
  <2>2. \A c \in Calls : ~ Responsible(c)
    BY DEF Quiet, Responsible, Waiting, Live, Entry, Tasks
  <2>3. owner.source # None => owner.state = "RUNNING" /\ owner.desired
    BY <2>1, <2>2 DEF Attended
  <2>. QED
    BY <2>1, <2>3 DEF Settled, OneSession
<1>. QED
  BY <1>1, CaptureInvariance, PTL

\* Once close has returned nothing is captured, no source is the session's, and
\* whoever still waits for the lock finds the owner closed.
THEOREM CloseReleases == Spec => []ClosedMeansReleased
<1>1. CaptureInv => ClosedMeansReleased
  <2>. SUFFICES ASSUME CaptureInv, CloseReturned
                PROVE  /\ owner.source = None /\ owner.loop = None
                       /\ \A s \in Sources : capture[s] # "running"
                       /\ \A t \in Tasks : pc[t] \in {"none", "start", "lock", "done"}
                       /\ runtime.pending = None
    BY DEF ClosedMeansReleased
  <2>0. /\ Typed /\ LockOK /\ Roles /\ Callers /\ OneSession /\ PendingHandoff
        /\ Generations /\ Closing
        /\ Calls \subseteq Tasks /\ None \notin Sources
        /\ Calls \cap Sources = {} /\ Calls \cap Failures = {}
        /\ pc \in [Tasks -> Pcs] /\ loc \in [Tasks -> Locals]
        /\ runtime.pending \in Calls \cup {None}
    BY CaptureAssumption DEF CaptureInv, Tasks, CaptureAssumption, Typed, RuntimeTypes
  <2>1. PICK c \in Calls : caller[c] = "closed"
    BY DEF CloseReturned
  <2>2. loc[c].kind = "close" /\ pc[c] = "done" /\ owner.closed
    BY <2>0, <2>1 DEF Callers, Generations
  <2>3. \A d \in Calls : loc[d].kind = "close" => pc[d] = "done"
    BY <2>0 DEF CloseReturned, Callers
  <2>4. \A t \in Tasks : pc[t] \notin Inside
    <3>1. ASSUME NEW t \in Tasks, pc[t] \in Inside PROVE FALSE
      <4>1. loc[t].kind = "close"
        BY <2>0, <2>2, <3>1 DEF Closing
      <4>2. t \in Calls
        BY <2>0, <4>1, CallKinds
      <4>. QED
        BY <2>3, <3>1, <4>1, <4>2 DEF Inside, Tearing, Starting, Handing
    <3>. QED
      BY <3>1
  <2>5. \A t \in Tasks : pc[t] \in {"none", "start", "lock", "done"}
    BY <2>0, <2>4 DEF Pcs, Entry
  <2>6. owner.source = None
    <3>1. ASSUME NEW d \in Calls, caller[d] = "frozen"
                   \/ (loc[d].kind = "close" /\ Waiting(d) /\ Current(d))
          PROVE  FALSE
      BY <3>1, <2>3 DEF CloseReturned, Waiting, Entry
    <3>. QED
      BY <2>0, <2>2, <3>1 DEF Closing
  <2>7. runtime.pending = None
    BY <2>0, <2>4 DEF PendingHandoff, Inside, Handing
  <2>. QED
    BY <2>0, <2>5, <2>6, <2>7 DEF OneSession
<1>. QED
  BY <1>1, CaptureInvariance, PTL

\* The lock holds exactly the tasks past their start, each once, and only its
\* first one is inside (_activation_lock).
THEOREM LockTypes == Spec => []CaptureTypeOK
<1>1. CaptureInv => CaptureTypeOK
  <2>. SUFFICES ASSUME CaptureInv PROVE CaptureTypeOK
    OBVIOUS
  <2>0. /\ Typed /\ LockOK /\ owner \in OwnerTypes /\ runtime \in RuntimeTypes
        /\ queue \in Seq(Tasks) /\ pc \in [Tasks -> Pcs]
        /\ DOMAIN queue = 1 .. Len(queue) /\ Len(queue) \in Nat
    BY DEF CaptureInv, Typed
  <2>1. {queue[i] : i \in DOMAIN queue} = LockOrder
    BY <2>0 DEF LockOK, LockOrder
  <2>2. Len(queue) = Cardinality(LockOrder)
    <3>1. queue \in [1 .. Len(queue) -> LockOrder]
      BY <2>0, <2>1
    <3>2. queue \in Bijection(1 .. Len(queue), LockOrder)
      <4>1. queue \in Injection(1 .. Len(queue), LockOrder)
        BY <2>0, <3>1 DEF LockOK, Injection, IsInjective
      <4>2. \A t \in LockOrder : \E i \in 1 .. Len(queue) : queue[i] = t
        BY <2>0, <2>1
      <4>3. queue \in Surjection(1 .. Len(queue), LockOrder)
        BY <3>1, <4>2 DEF Surjection
      <4>. QED
        BY <4>1, <4>3 DEF Bijection
    <3>3. \A n \in Nat : Cardinality(1 .. n) = n /\ IsFiniteSet(1 .. n)
      <4>. TAKE n \in Nat
      <4>1. n \in Int /\ 1 \in Int /\ (1 > n => n = 0) /\ n - 1 + 1 = n
        OBVIOUS
      <4>. QED
        BY <4>1, FS_Interval
    <3>. QED
      BY <2>0, <3>2, <3>3, FS_Bijection DEF ExistsBijection
  <2>3. \A t \in Tasks : pc[t] \notin {"none", "start", "lock", "done"} => t = Head(queue)
    BY <2>0 DEF LockOK, Pcs, Entry
  <2>4. /\ owner.state \in {"STOPPED", "STARTING", "ADMISSION_PENDING", "RUNNING",
                           "STOPPING", "FAULTED"}
        /\ owner.status \in {"DETACHED", "PENDING", "READY", "RELEASING", "FAILED"}
        /\ owner.source \in Sources \cup {None} /\ owner.loop \in Sources \cup {None}
        /\ owner.config \in Configs \cup {None}
        /\ owner.token \in Calls \cup {None} /\ owner.retired \subseteq Sources
        /\ runtime.attached \in Configs \cup {None}
    BY <2>0 DEF OwnerTypes, RuntimeTypes
  <2>. QED
    BY <2>0, <2>1, <2>2, <2>3, <2>4 DEF CaptureTypeOK, Typed
<1>. QED
  BY <1>1, CaptureInvariance, PTL
===============================================================================
