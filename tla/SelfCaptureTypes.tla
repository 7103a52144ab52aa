--------------------------- MODULE SelfCaptureTypes ---------------------------
(***************************************************************************)
(* What the pieces of a body of SelfCapture do, and that every action       *)
(* keeps the variables within their types.                                  *)
(***************************************************************************)
EXTENDS SelfCaptureInv, FiniteSetTheorems, TLAPS


\* Every label is one.
LEMMA PlaceFacts ==
    \A place \in Inside \cup Entry \cup {"none", "done"} : place \in Pcs
BY DEF Pcs, Inside, Entry

\* Dropping one element of a sequence leaves a sequence.
LEMMA DroppingOne ==
    ASSUME NEW q \in Seq(Tasks), NEW i \in DOMAIN q
    PROVE  SubSeq(q, 1, i - 1) \o SubSeq(q, i + 1, Len(q)) \in Seq(Tasks)
<1>1. SubSeq(q, 1, i - 1) \in Seq(Tasks) /\ SubSeq(q, i + 1, Len(q)) \in Seq(Tasks)
  OBVIOUS
<1>. QED
  BY <1>1

\* A task that leaves the lock leaves a queue of tasks.
LEMMA LeavesTyped ==
    ASSUME Typed, NEW t \in Tasks, LeavesLock(t)
    PROVE  queue' \in Seq(Tasks)
BY DroppingOne DEF Typed, LeavesLock

\* A task that ends is done and forgets its locals.
LEMMA EndsTyped ==
    ASSUME Typed, NEW t \in Tasks, NEW failed \in BOOLEAN, Ends(t, failed)
    PROVE  /\ queue' \in Seq(Tasks) /\ pc' \in [Tasks -> Pcs]
           /\ loc' \in [Tasks -> Locals]
<1>1. queue' \in Seq(Tasks)
  BY LeavesTyped DEF Ends
<1>2. pc' \in [Tasks -> Pcs]
  BY PlaceFacts DEF Typed, Ends
<1>3. loc' \in [Tasks -> Locals]
  BY DEF Typed, Ends, Locals, NoLocals
<1>. QED
  BY <1>1, <1>2, <1>3

\* A task that ends where it is cancelled keeps what it was to close.
LEMMA AbandonsTyped ==
    ASSUME Typed, NEW t \in Tasks, Abandons(t)
    PROVE  /\ queue' \in Seq(Tasks) /\ pc' \in [Tasks -> Pcs]
           /\ loc' \in [Tasks -> Locals]
<1>1. queue' \in Seq(Tasks)
  BY LeavesTyped DEF Abandons
<1>2. pc' \in [Tasks -> Pcs]
  BY PlaceFacts DEF Typed, Abandons
<1>3. loc' \in [Tasks -> Locals]
  BY DEF Typed, Abandons, Locals, NoLocals
<1>. QED
  BY <1>1, <1>2, <1>3

\* A task that goes on keeps its place in the queue.
LEMMA GoesTyped ==
    ASSUME Typed, NEW t \in Tasks, NEW place \in Inside, Goes(t, place)
    PROVE  queue' \in Seq(Tasks) /\ pc' \in [Tasks -> Pcs]
BY PlaceFacts DEF Typed, Goes

\* A task that goes on may change its locals.
LEMMA GoesOnTyped ==
    ASSUME Typed, NEW t \in Tasks, NEW place \in Inside, GoesOn(t, place)
    PROVE  /\ queue' \in Seq(Tasks) /\ pc' \in [Tasks -> Pcs]
           /\ loc' \in [Tasks -> Locals]
BY GoesTyped DEF Typed, GoesOn

\* The next generation is one.
LEMMA InvalidatedTyped ==
    ASSUME Typed
    PROVE  Invalidated \in OwnerTypes
<1>1. owner \in OwnerTypes
  BY DEF Typed
<1>2. owner.generation + 1 \in Nat
  BY <1>1 DEF OwnerTypes
<1>3. \A g \in Nat :
        [owner EXCEPT !.desired = FALSE, !.generation = g] \in OwnerTypes
  BY <1>1, Zenon DEF OwnerTypes
<1>. QED
  BY <1>2, <1>3 DEF Invalidated

\* Teardown takes the session away and leaves it to the task.
LEMMA TeardownTyped ==
    ASSUME Typed, NEW t \in Tasks, NEW o \in OwnerTypes, NEW td \in Locals,
           BeginsTeardown(t, o, td)
    PROVE  /\ owner' \in OwnerTypes
           /\ mic' = mic /\ bound' = bound
           /\ capture' \in [Sources -> {"none", "running", "cancelling", "ended"}]
           /\ queue' \in Seq(Tasks) /\ pc' \in [Tasks -> Pcs]
           /\ loc' \in [Tasks -> Locals]
<1>1. owner' \in OwnerTypes
  BY DEF BeginsTeardown, OwnerTypes
<1>2. mic' = mic /\ bound' = bound
  BY DEF BeginsTeardown
<1>3. capture' \in [Sources -> {"none", "running", "cancelling", "ended"}]
  BY DEF BeginsTeardown, Typed
<1>4. queue' \in Seq(Tasks) /\ pc' \in [Tasks -> Pcs]
  BY GoesTyped DEF BeginsTeardown, Inside, Tearing
<1>5. loc' \in [Tasks -> Locals]
  <2>. DEFINE l == [td EXCEPT !.src = o.source, !.loop = o.loop,
                              !.debts = o.retired, !.failed = FALSE]
  <2>1. /\ o.source \in Sources \cup {None} /\ o.loop \in Sources \cup {None}
        /\ o.retired \in SUBSET Sources
    BY DEF OwnerTypes
  <2>2. l \in Locals
    BY ONLY <2>1, td \in Locals DEF Locals
  <2>3. loc' = [loc EXCEPT ![t] = l]
    BY DEF BeginsTeardown
  <2>. QED
    BY <2>2, <2>3 DEF Typed
<1>. QED
  BY <1>1, <1>2, <1>3, <1>4, <1>5

\* A failure takes the session away, if it is the current one, or ends the task.
LEMMA FaultsTyped ==
    ASSUME Typed, NEW t \in Tasks, NEW g, FaultsLocked(t, g)
    PROVE  /\ owner' \in OwnerTypes
           /\ mic' = mic /\ bound' = bound
           /\ capture' \in [Sources -> {"none", "running", "cancelling", "ended"}]
           /\ queue' \in Seq(Tasks) /\ pc' \in [Tasks -> Pcs]
           /\ loc' \in [Tasks -> Locals]
<1>1. CASE Stale(owner, g)
  BY <1>1, EndsTyped DEF FaultsLocked, Typed
<1>2. CASE ~ Stale(owner, g)
  <2>. DEFINE td == [NoLocals EXCEPT !.kind = loc[t].kind,
                        !.gen = owner.generation + 1, !.target = "FAULTED"]
  <2>1. loc[t].kind \in Bodies /\ owner.generation + 1 \in Nat
    BY DEF Typed, Locals, OwnerTypes
  <2>2. td \in Locals
    BY ONLY <2>1 DEF NoLocals, Locals
  <2>3. BeginsTeardown(t, Invalidated, td)
    BY <1>2 DEF FaultsLocked
  <2>. HIDE DEF td
  <2>. QED
    BY <2>2, <2>3, TeardownTyped, InvalidatedTyped
<1>. QED
  BY <1>1, <1>2

\* A start that fails is recorded; an idle provider is to be released.
LEMMA FailsStartTyped ==
    ASSUME Typed, NEW t \in Tasks, NEW o \in OwnerTypes, NEW desired \in BOOLEAN,
           NEW status \in {"DETACHED", "FAILED"}, NEW releases \in BOOLEAN,
           FailsStart(t, o, desired, status, releases)
    PROVE  /\ owner' \in OwnerTypes
           /\ queue' \in Seq(Tasks) /\ pc' \in [Tasks -> Pcs]
           /\ loc' \in [Tasks -> Locals]
<1>1. owner' \in OwnerTypes
  <2>1. \A s \in {status, "RELEASING"} :
          [o EXCEPT !.state = "FAULTED", !.desired = desired, !.status = s]
            \in OwnerTypes
    BY Zenon DEF OwnerTypes
  <2>. QED
    BY <2>1 DEF FailsStart
<1>2. \/ Ends(t, FALSE) \/ GoesOn(t, "failRelease")
  BY DEF FailsStart
<1>3. "failRelease" \in Inside
  BY DEF Inside, Starting
<1>. QED
  BY <1>1, <1>2, <1>3, EndsTyped, GoesOnTyped

\* A teardown ends, releases the provider or goes on with the start.
LEMMA FinishesTyped ==
    ASSUME Typed, NEW t \in Tasks, NEW o \in OwnerTypes, NEW failed \in BOOLEAN,
           FinishesTeardown(t, o, failed)
    PROVE  /\ owner' \in OwnerTypes
           /\ queue' \in Seq(Tasks) /\ pc' \in [Tasks -> Pcs]
           /\ loc' \in [Tasks -> Locals]
<1>1. loc[t] \in Locals
  BY DEF Typed
<1>2. owner' \in OwnerTypes
  <2>1. /\ loc[t].config \in Configs \cup {None}
        /\ loc[t].preserve \in BOOLEAN /\ loc[t].target \in {"STOPPED", "FAULTED"}
    BY <1>1 DEF Locals
  <2>. DEFINE p == [o EXCEPT !.desired = @ /\ loc[t].preserve,
                             !.state = IF failed THEN "FAULTED" ELSE loc[t].target]
  <2>2. p \in OwnerTypes
    <3>1. \A d \in BOOLEAN : \A s \in {"STOPPED", "FAULTED"} :
            [o EXCEPT !.desired = d, !.state = s] \in OwnerTypes
      BY Zenon DEF OwnerTypes
    <3>2. (o.desired /\ loc[t].preserve) \in BOOLEAN
      OBVIOUS
    <3>. QED
      BY <2>1, <3>1, <3>2
  <2>3. \A q \in OwnerTypes, f \in Configs \cup {None} :
          [q EXCEPT !.state = "STARTING", !.config = f] \in OwnerTypes
    BY Zenon DEF OwnerTypes
  <2>4. owner' = p \/ owner' = [p EXCEPT !.state = "STARTING", !.config = loc[t].config]
    BY DEF FinishesTeardown
  <2>. HIDE DEF p
  <2>. QED
    BY <2>1, <2>2, <2>3, <2>4
<1>3. CASE Ends(t, failed)
  BY <1>2, <1>3, EndsTyped
<1>4. CASE /\ loc' = [loc EXCEPT ![t] = [NoLocals EXCEPT !.kind = loc[t].kind,
                                 !.gen = loc[t].gen, !.config = loc[t].config]]
           /\ Goes(t, "admission")
  <2>1. loc' \in [Tasks -> Locals]
    BY <1>1, <1>4 DEF Typed, Locals, NoLocals
  <2>2. "admission" \in Inside
    BY DEF Inside, Starting
  <2>. QED
    BY <1>2, <1>4, <2>1, <2>2, GoesTyped
<1>. QED
  BY <1>3, <1>4 DEF FinishesTeardown

\* The replacement of the provider before a start fails or succeeds.
LEMMA ReplaceTyped ==
    ASSUME Typed, NEW t \in Tasks, t \in Calls, ReplaceFails(t) \/ ReplaceSucceeds(t)
    PROVE  /\ owner' \in OwnerTypes
           /\ queue' \in Seq(Tasks) /\ pc' \in [Tasks -> Pcs]
           /\ loc' \in [Tasks -> Locals]
<1>1. "staleRelease" \in Inside /\ "opening" \in Inside
  BY DEF Inside, Starting
<1>2. loc[t].config \in Configs \cup {None}
  BY DEF Typed, Locals
<1>3. CASE ReplaceFails(t)
  <2>1. \/ Ends(t, FALSE) \/ GoesOn(t, "staleRelease")
        \/ FailsStart(t, owner, FALSE, "FAILED", FALSE)
    BY <1>3 DEF ReplaceFails
  <2>2. /\ [owner EXCEPT !.status = "FAILED", !.state = "FAULTED"] \in OwnerTypes
        /\ [owner EXCEPT !.status = "RELEASING"] \in OwnerTypes
    BY Zenon DEF Typed, OwnerTypes
  <2>. QED
    BY <1>1, <1>3, <2>1, <2>2, EndsTyped, GoesOnTyped, FailsStartTyped
       DEF Typed, ReplaceFails
<1>4. CASE ReplaceSucceeds(t)
  <2>1. \/ Ends(t, FALSE) \/ GoesOn(t, "staleRelease") \/ GoesOn(t, "opening")
    BY <1>4 DEF ReplaceSucceeds
  <2>. DEFINE o == [owner EXCEPT !.status = "READY", !.signature = loc[t].config,
                                 !.token = t]
  <2>2. o \in OwnerTypes
    BY <1>2, Zenon DEF Typed, OwnerTypes
  <2>3. /\ [owner EXCEPT !.status = "RELEASING"] \in OwnerTypes
        /\ [o EXCEPT !.state = "STOPPED"] \in OwnerTypes
    BY <2>2, Zenon DEF Typed, OwnerTypes
  <2>4. owner' \in OwnerTypes
    BY <1>4, <2>2, <2>3 DEF ReplaceSucceeds, Typed
  <2>. QED
    BY <1>1, <2>1, <2>4, EndsTyped, GoesOnTyped
<1>. QED
  BY <1>3, <1>4

\* What a step of a body may change is typed after it.
BodyTyped ==
    /\ owner' \in OwnerTypes /\ runtime' \in RuntimeTypes
    /\ mic' \in [Sources -> {"unused", "open", "closed"}]
    /\ capture' \in [Sources -> {"none", "running", "cancelling", "ended"}]
    /\ bound' \in [Sources -> Nat]
    /\ queue' \in Seq(Tasks) /\ pc' \in [Tasks -> Pcs] /\ loc' \in [Tasks -> Locals]

\* The channel of the runtime stays typed.
LEMMA ChannelTyped ==
    ASSUME Typed
    PROVE  /\ \A mode : Released(mode) => runtime' \in RuntimeTypes
           /\ ReleasedWithDebt => runtime' \in RuntimeTypes
           /\ \A f \in Configs \cup {None} :
                /\ [runtime EXCEPT !.attached = f, !.idle = FALSE] \in RuntimeTypes
                /\ [runtime EXCEPT !.attached = f, !.recorded = f, !.idle = FALSE]
                      \in RuntimeTypes
                /\ [runtime EXCEPT !.recorded = f] \in RuntimeTypes
                /\ [runtime EXCEPT !.recorded = f, !.debt = TRUE] \in RuntimeTypes
           /\ [runtime EXCEPT !.idle = FALSE] \in RuntimeTypes
           /\ \A p \in Calls \cup {None} :
                /\ [runtime EXCEPT !.pending = p, !.idle = FALSE] \in RuntimeTypes
                /\ [runtime EXCEPT !.pending = p] \in RuntimeTypes
                /\ \A f \in Configs \cup {None} :
                     [runtime EXCEPT !.pending = p, !.attached = f, !.recorded = f]
                        \in RuntimeTypes
           /\ \A debt \in BOOLEAN :
                [runtime EXCEPT !.attached = None, !.idle = FALSE, !.debt = debt]
                   \in RuntimeTypes
<1>1. runtime \in RuntimeTypes
  BY DEF Typed
<1>2. /\ \A b \in BOOLEAN : [runtime EXCEPT !.idle = b] \in RuntimeTypes
      /\ [runtime EXCEPT !.attached = None, !.recorded = None, !.idle = FALSE]
            \in RuntimeTypes
      /\ [runtime EXCEPT !.attached = None, !.recorded = None, !.idle = FALSE,
                         !.debt = TRUE] \in RuntimeTypes
  BY <1>1, Zenon DEF RuntimeTypes
<1>3. \A b \in BOOLEAN : (b /\ runtime.attached # None) \in BOOLEAN
  OBVIOUS
<1>4. \A mode : Released(mode) => runtime' \in RuntimeTypes
  BY <1>2, <1>3 DEF Released
<1>5. ReleasedWithDebt => runtime' \in RuntimeTypes
  BY <1>2 DEF ReleasedWithDebt
<1>6. \A f \in Configs \cup {None} :
        /\ [runtime EXCEPT !.attached = f, !.idle = FALSE] \in RuntimeTypes
        /\ [runtime EXCEPT !.attached = f, !.recorded = f, !.idle = FALSE]
              \in RuntimeTypes
        /\ [runtime EXCEPT !.recorded = f] \in RuntimeTypes
        /\ [runtime EXCEPT !.recorded = f, !.debt = TRUE] \in RuntimeTypes
  BY <1>1, Zenon DEF RuntimeTypes
<1>7. \A p \in Calls \cup {None} :
        /\ [runtime EXCEPT !.pending = p, !.idle = FALSE] \in RuntimeTypes
        /\ [runtime EXCEPT !.pending = p] \in RuntimeTypes
        /\ \A f \in Configs \cup {None} :
             [runtime EXCEPT !.pending = p, !.attached = f, !.recorded = f]
                \in RuntimeTypes
  BY <1>1, Zenon DEF RuntimeTypes
<1>8. \A debt \in BOOLEAN :
        [runtime EXCEPT !.attached = None, !.idle = FALSE, !.debt = debt]
           \in RuntimeTypes
  BY <1>1, Zenon DEF RuntimeTypes
<1>9. [runtime EXCEPT !.idle = FALSE] \in RuntimeTypes
  BY <1>2
<1>. QED
  BY <1>4, <1>5, <1>6, <1>7, <1>8, <1>9

\* The updates of the owner's fields that actions make themselves.
LEMMA OwnerTyped ==
    ASSUME Typed
    PROVE  /\ owner \in OwnerTypes
           /\ \A s \in {"DETACHED", "PENDING", "READY", "RELEASING", "FAILED"} :
                [owner EXCEPT !.status = s] \in OwnerTypes
           /\ [owner EXCEPT !.status = "READY", !.state = "STOPPED"] \in OwnerTypes
           /\ [owner EXCEPT !.state = "ADMISSION_PENDING", !.status = "PENDING"]
                 \in OwnerTypes
           /\ [owner EXCEPT !.state = "RUNNING"] \in OwnerTypes
           /\ [owner EXCEPT !.status = "FAILED", !.state = "FAULTED"] \in OwnerTypes
           /\ \A f \in Configs \cup {None} :
                [owner EXCEPT !.state = "STARTING", !.config = f] \in OwnerTypes
           /\ \A s \in Sources :
                [owner EXCEPT !.source = s, !.loop = s] \in OwnerTypes
           /\ \A S \in SUBSET Sources : [owner EXCEPT !.retired = S] \in OwnerTypes
           /\ \A f \in Configs \cup {None}, t \in Calls :
                [owner EXCEPT !.config = f, !.signature = f, !.token = t,
                              !.status = "READY"] \in OwnerTypes
           /\ \A mode : Detached(owner, mode) \in OwnerTypes
<1>1. owner \in OwnerTypes
  BY DEF Typed
<1>2. \A s \in {"DETACHED", "PENDING", "READY", "RELEASING", "FAILED"} :
        [owner EXCEPT !.status = s] \in OwnerTypes
  BY <1>1, Zenon DEF OwnerTypes
<1>3. /\ [owner EXCEPT !.status = "READY", !.state = "STOPPED"] \in OwnerTypes
      /\ [owner EXCEPT !.state = "ADMISSION_PENDING", !.status = "PENDING"]
            \in OwnerTypes
      /\ [owner EXCEPT !.state = "RUNNING"] \in OwnerTypes
      /\ [owner EXCEPT !.status = "FAILED", !.state = "FAULTED"] \in OwnerTypes
  BY <1>1, Zenon DEF OwnerTypes
<1>4. \A f \in Configs \cup {None} :
        [owner EXCEPT !.state = "STARTING", !.config = f] \in OwnerTypes
  BY <1>1, Zenon DEF OwnerTypes
<1>5. \A s \in Sources : [owner EXCEPT !.source = s, !.loop = s] \in OwnerTypes
  BY <1>1, Zenon DEF OwnerTypes
<1>6. \A S \in SUBSET Sources : [owner EXCEPT !.retired = S] \in OwnerTypes
  BY <1>1, Zenon DEF OwnerTypes
<1>7. \A f \in Configs \cup {None}, t \in Calls :
        [owner EXCEPT !.config = f, !.signature = f, !.token = t,
                      !.status = "READY"] \in OwnerTypes
  BY <1>1, Zenon DEF OwnerTypes
<1>8. ASSUME NEW mode PROVE Detached(owner, mode) \in OwnerTypes
  <2>1. \A f \in Configs \cup {None} :
          [owner EXCEPT !.status = "DETACHED", !.token = None, !.signature = f]
            \in OwnerTypes
    BY <1>1, Zenon DEF OwnerTypes
  <2>2. owner.signature \in Configs \cup {None}
    BY <1>1 DEF OwnerTypes
  <2>. QED
    BY <2>1, <2>2 DEF Detached
<1>. QED
  BY <1>1, <1>2, <1>3, <1>4, <1>5, <1>6, <1>7, <1>8

\* Locals that an action updates itself.
LEMMA LocalsTyped ==
    ASSUME Typed, NEW t \in Tasks
    PROVE  /\ loc[t] \in Locals /\ NoLocals \in Locals
           /\ \A s \in Sources \cup {None} :
                [loc EXCEPT ![t].src = s] \in [Tasks -> Locals]
           /\ \A s : [loc EXCEPT ![t].debts = @ \ {s}] \in [Tasks -> Locals]
           /\ [loc EXCEPT ![t].src = None, ![t].failed = TRUE] \in [Tasks -> Locals]
           /\ \A s : [loc EXCEPT ![t].debts = @ \ {s}, ![t].failed = TRUE]
                        \in [Tasks -> Locals]
           /\ \A l \in Locals : [loc EXCEPT ![t] = l] \in [Tasks -> Locals]
<1>1. loc \in [Tasks -> Locals] /\ loc[t] \in Locals
  BY DEF Typed
<1>2. \A l \in Locals : [loc EXCEPT ![t] = l] \in [Tasks -> Locals]
  BY <1>1
<1>3. NoLocals \in Locals
  BY Zenon DEF NoLocals, Locals, Bodies
<1>4. \A s \in Sources \cup {None} :
        /\ [loc[t] EXCEPT !.src = s] \in Locals
        /\ [loc[t] EXCEPT !.src = s, !.failed = TRUE] \in Locals
  BY <1>1, Zenon DEF Locals
<1>5. ASSUME NEW s
      PROVE  /\ [loc[t] EXCEPT !.debts = @ \ {s}] \in Locals
             /\ [loc[t] EXCEPT !.debts = @ \ {s}, !.failed = TRUE] \in Locals
  <2>1. loc[t].debts \ {s} \in SUBSET Sources
    BY <1>1 DEF Locals
  <2>. QED
    BY <1>1, <2>1, Zenon DEF Locals
<1>. QED
  BY <1>1, <1>2, <1>3, <1>4, <1>5

\* Only calls have the bodies of calls.
LEMMA CallKinds ==
    ASSUME Roles, NEW t \in Tasks, loc[t].kind \notin {"none", "fault", "terminal"}
    PROVE  t \in Calls
BY DEF Roles, Tasks

\* Every step of a body keeps the types.
LEMMA BodyTypes ==
    ASSUME Typed, Roles, Holding, NEW t \in Tasks, BodyStep(t)
    PROVE  BodyTyped
<1>. USE DEF Held
<1>0. /\ runtime \in RuntimeTypes
      /\ mic \in [Sources -> {"unused", "open", "closed"}]
      /\ capture \in [Sources -> {"none", "running", "cancelling", "ended"}]
      /\ bound \in [Sources -> Nat] /\ queue \in Seq(Tasks)
      /\ pc \in [Tasks -> Pcs] /\ loc \in [Tasks -> Locals]
      /\ owner \in OwnerTypes /\ loc[t] \in Locals
  BY DEF Typed
<1>l. /\ loc[t].gen \in Nat /\ loc[t].config \in Configs \cup {None}
      /\ loc[t].failed \in BOOLEAN /\ loc[t].src \in Sources \cup Calls \cup {None}
      /\ loc[t].debts \in SUBSET Sources /\ loc[t].force \in BOOLEAN
  BY <1>0 DEF Locals
<1>o. /\ owner.retired \in SUBSET Sources /\ owner.loop \in Sources \cup {None}
      /\ owner.generation \in Nat
  BY <1>0 DEF OwnerTypes
<1>p. /\ Inside \subseteq Pcs
      /\ \A place \in Tearing \cup Starting \cup Handing : place \in Inside
  BY PlaceFacts DEF Inside
<1>b. \A g \in Nat : Rebound(owner, g) \in [Sources -> Nat]
  BY <1>0, <1>o DEF Rebound
<1>1. CASE Locks(t)
  <2>1. "lock" \in Pcs
    BY PlaceFacts DEF Entry
  <2>. QED
    BY ONLY <1>0, <1>1, <2>1, t \in Tasks DEF Locks, BodyTyped
<1>2. CASE SupersededBody(t)
  BY <1>0, <1>2, EndsTyped DEF SupersededBody, BodyTyped
<1>3. CASE TurnsOff(t)
  <2>. DEFINE o == [owner EXCEPT !.status = IF @ = "DETACHED" THEN "READY" ELSE @]
  <2>1. owner.status \in {"DETACHED", "PENDING", "READY", "RELEASING", "FAILED"}
    BY <1>0 DEF OwnerTypes
  <2>2. o \in OwnerTypes
    BY <2>1, OwnerTyped
  <2>3. BeginsTeardown(t, o, loc[t]) /\ UNCHANGED runtime
    BY <1>3 DEF TurnsOff
  <2>. HIDE DEF o
  <2>. QED
    BY <1>0, <2>2, <2>3, TeardownTyped DEF BodyTyped
<1>4. CASE TurnsOn(t)
  <2>1. "admission" \in Inside
    BY <1>p DEF Starting
  <2>2. /\ owner' = [owner EXCEPT !.state = "STARTING", !.config = loc[t].config]
        /\ GoesOn(t, "admission") /\ UNCHANGED <<mic, capture, bound, runtime>>
    BY <1>4 DEF TurnsOn, BeginsStart
  <2>. QED
    BY <1>0, <1>l, <2>1, <2>2, OwnerTyped, GoesOnTyped DEF BodyTyped
<1>5. CASE Restarts(t)
  <2>. DEFINE td == [loc[t] EXCEPT !.mode = IF loc[t].force THEN "abort" ELSE "drain",
                                   !.preserve = TRUE, !.then = "start"]
  <2>1. td \in Locals
    <3>1. \A m \in {"abort", "drain"} :
            [loc[t] EXCEPT !.mode = m, !.preserve = TRUE, !.then = "start"] \in Locals
      BY ONLY <1>0, Zenon DEF Locals
    <3>. QED
      BY <1>l, <3>1
  <2>2. BeginsTeardown(t, owner, td) /\ UNCHANGED runtime
    BY <1>5 DEF Restarts
  <2>. HIDE DEF td
  <2>. QED
    BY <1>0, <2>1, <2>2, TeardownTyped DEF BodyTyped
<1>6. CASE KeepsSession(t)
  <2>1. "handoff" \in Inside
    BY <1>p DEF Handing
  <2>2. /\ bound' = Rebound(owner, loc[t].gen) /\ UNCHANGED <<mic, capture, runtime>>
        /\ \/ Ends(t, FALSE) /\ UNCHANGED owner
           \/ owner' = [owner EXCEPT !.status = "PENDING"] /\ GoesOn(t, "handoff")
    BY <1>6 DEF KeepsSession
  <2>. QED
    BY <1>0, <1>l, <1>b, <2>1, <2>2, OwnerTyped, EndsTyped, GoesOnTyped DEF BodyTyped
<1>7. CASE Prepares(t)
  <2>1. "replace" \in Inside
    BY <1>p DEF Starting
  <2>. QED
    BY <1>0, <1>7, <2>1, OwnerTyped, EndsTyped, GoesOnTyped DEF Prepares, BodyTyped
<1>8. CASE TearsDown(t)
  <2>. DEFINE td == [loc[t] EXCEPT !.preserve = loc[t].kind = "suspend",
                                   !.release = loc[t].kind = "close"]
  <2>1. td \in Locals
    <3>1. \A a, b \in BOOLEAN :
            [loc[t] EXCEPT !.preserve = a, !.release = b] \in Locals
      BY ONLY <1>0, Zenon DEF Locals
    <3>2. (loc[t].kind = "suspend") \in BOOLEAN /\ (loc[t].kind = "close") \in BOOLEAN
      OBVIOUS
    <3>. QED
      BY <3>1, <3>2
  <2>2. /\ \/ Ends(t, FALSE) /\ UNCHANGED <<owner, mic, capture, bound>>
           \/ BeginsTeardown(t, owner, td)
        /\ UNCHANGED runtime
    BY <1>8 DEF TearsDown
  <2>. HIDE DEF td
  <2>. QED
    BY <1>0, <2>1, <2>2, EndsTyped, TeardownTyped DEF BodyTyped
<1>9. CASE LoopEnded(t)
  <2>1. "debts" \in Inside /\ "closing" \in Inside
    BY <1>p DEF Tearing
  <2>. QED
    BY <1>0, <1>9, <2>1, GoesOnTyped DEF LoopEnded, BodyTyped
<1>10. CASE SourceClosed(t)
  <2>1. "debts" \in Inside
    BY <1>p DEF Tearing
  <2>2. mic' \in [Sources -> {"unused", "open", "closed"}]
    BY <1>0, <1>10 DEF SourceClosed
  <2>3. loc' \in [Tasks -> Locals]
    <3>1. \/ loc' = [loc EXCEPT ![t].src = None]
          \/ loc' = [loc EXCEPT ![t].src = None, ![t].failed = TRUE]
      BY <1>10 DEF SourceClosed
    <3>2. /\ [loc EXCEPT ![t].src = None] \in [Tasks -> Locals]
          /\ [loc EXCEPT ![t].src = None, ![t].failed = TRUE] \in [Tasks -> Locals]
      BY LocalsTyped, Zenon
    <3>. QED
      BY ONLY <3>1, <3>2, Zenon
  <2>4. owner' \in OwnerTypes
    <3>1. CASE UNCHANGED owner
      BY <1>0, <3>1
    <3>2. CASE owner' = [owner EXCEPT !.retired = Retained(loc[t].src)]
      <4>1. loc[t].src \in Sources
        BY <1>10 DEF SourceClosed, At, Holding
      <4>. QED
        BY <1>o, <3>2, <4>1, OwnerTyped DEF Retained
    <3>. QED
      BY <1>10, <3>1, <3>2 DEF SourceClosed
  <2>. QED
    <3>1. Goes(t, "debts") /\ UNCHANGED <<capture, bound, runtime>>
      BY <1>10 DEF SourceClosed
    <3>. QED
      BY <1>0, <3>1, <2>1, <2>2, <2>3, <2>4, GoesTyped DEF BodyTyped
<1>11. CASE DebtRetried(t)
  <2>1. PICK s \in loc[t].debts :
          \/ /\ mic' = [mic EXCEPT ![s] = "closed"]
             /\ owner' = [owner EXCEPT !.retired = @ \ {s}]
             /\ loc' = [loc EXCEPT ![t].debts = @ \ {s}]
          \/ /\ loc' = [loc EXCEPT ![t].debts = @ \ {s}, ![t].failed = TRUE]
             /\ UNCHANGED <<mic, owner>>
    BY <1>11 DEF DebtRetried
  <2>2. owner.retired \ {s} \in SUBSET Sources
    BY <1>o
  <2>3. owner' \in OwnerTypes
    BY <1>0, <2>1, <2>2, OwnerTyped
  <2>4. loc' \in [Tasks -> Locals]
    <3>1. /\ [loc EXCEPT ![t].debts = @ \ {s}] \in [Tasks -> Locals]
          /\ [loc EXCEPT ![t].debts = @ \ {s}, ![t].failed = TRUE]
                \in [Tasks -> Locals]
      BY LocalsTyped, Zenon
    <3>. QED
      BY ONLY <2>1, <3>1, Zenon
  <2>5. mic' \in [Sources -> {"unused", "open", "closed"}]
    BY <1>0, <2>1
  <2>6. UNCHANGED <<pc, queue, capture, bound, runtime>>
    BY <1>11 DEF DebtRetried
  <2>. QED
    BY <1>0, <2>3, <2>4, <2>5, <2>6 DEF BodyTyped
<1>12. CASE DebtsSettled(t)
  <2>1. "release" \in Inside
    BY <1>p DEF Tearing
  <2>2. /\ \/ owner' = [owner EXCEPT !.status = "RELEASING"] /\ GoesOn(t, "release")
           \/ FinishesTeardown(t, owner, loc[t].failed)
        /\ UNCHANGED <<mic, capture, bound, runtime>>
    BY <1>12 DEF DebtsSettled
  <2>. QED
    BY <1>0, <1>l, <2>1, <2>2, OwnerTyped, GoesOnTyped, FinishesTyped DEF BodyTyped
<1>13. CASE ProviderReleased(t)
  <2>. DEFINE mode == loc[t].mode
  <2>1. /\ \/ /\ Released(mode)
              /\ FinishesTeardown(t, Detached(owner, mode), loc[t].failed)
           \/ ReleasedWithDebt /\ FinishesTeardown(t, owner, TRUE)
        /\ UNCHANGED <<mic, capture, bound>>
    BY <1>13 DEF ProviderReleased
  <2>2. Detached(owner, mode) \in OwnerTypes
    BY OwnerTyped
  <2>3. runtime' \in RuntimeTypes
    BY <2>1, ChannelTyped
  <2>. HIDE DEF mode
  <2>. QED
    BY <1>0, <1>l, <2>1, <2>2, <2>3, FinishesTyped DEF BodyTyped
<1>14. CASE AdmissionReturns(t)
  <2>1. UNCHANGED Held
    BY <1>14 DEF AdmissionReturns
  <2>2. "opening" \in Inside /\ "replace" \in Inside
    BY <1>p DEF Starting
  <2>3. \/ \E d \in BOOLEAN : FailsStart(t, owner, d, "DETACHED", FALSE)
        \/ Ends(t, FALSE) /\ UNCHANGED owner
        \/ owner' = Invalidated /\ Ends(t, FALSE)
        \/ /\ owner' = [owner EXCEPT !.state = "ADMISSION_PENDING",
                                     !.status = "PENDING"]
           /\ Ends(t, FALSE)
        \/ owner' = [owner EXCEPT !.status = "READY"] /\ GoesOn(t, "opening")
        \/ owner' = [owner EXCEPT !.status = "PENDING"] /\ GoesOn(t, "replace")
    <3>1. owner.desired \in BOOLEAN
      BY <1>0 DEF OwnerTypes
    <3>. QED
      BY <1>14, <3>1 DEF AdmissionReturns, GoesForProvider
  <2>4. /\ owner' \in OwnerTypes
        /\ queue' \in Seq(Tasks) /\ pc' \in [Tasks -> Pcs]
        /\ loc' \in [Tasks -> Locals]
    BY <1>0, <2>2, <2>3, OwnerTyped, InvalidatedTyped, EndsTyped, GoesOnTyped,
       FailsStartTyped
  <2>. QED
    BY <1>0, <2>1, <2>4 DEF BodyTyped
<1>15. CASE ProviderBuilt(t)
  <2>1. "swap" \in Inside
    BY <1>p DEF Starting
  <2>2. UNCHANGED <<mic, capture, bound>>
    BY <1>15 DEF ProviderBuilt
  <2>3. runtime' \in RuntimeTypes
    <3>1. /\ [runtime EXCEPT !.attached = loc[t].config, !.idle = FALSE]
                \in RuntimeTypes
          /\ [runtime EXCEPT !.attached = loc[t].config, !.recorded = loc[t].config,
                             !.idle = FALSE] \in RuntimeTypes
      BY <1>l, ChannelTyped, Zenon
    <3>. QED
      BY <1>0, <1>15, <3>1 DEF ProviderBuilt
  <2>4. \/ ReplaceFails(t) \/ ReplaceSucceeds(t)
        \/ GoesOn(t, "swap") /\ UNCHANGED owner
    BY <1>15 DEF ProviderBuilt
  <2>5. t \in Calls
    BY <1>15, CallKinds DEF ProviderBuilt, At, Roles, Starting
  <2>. QED
    BY <1>0, <2>1, <2>2, <2>3, <2>4, <2>5, GoesOnTyped, ReplaceTyped DEF BodyTyped
<1>16. CASE OldProviderClosed(t)
  <2>1. UNCHANGED <<mic, capture, bound>>
    BY <1>16 DEF OldProviderClosed
  <2>2. runtime' \in RuntimeTypes
    BY <1>0, <1>l, <1>16, ChannelTyped DEF OldProviderClosed
  <2>3. ReplaceFails(t) \/ ReplaceSucceeds(t)
    BY <1>16 DEF OldProviderClosed
  <2>4. t \in Calls
    BY <1>16, CallKinds DEF OldProviderClosed, At, Roles, Starting
  <2>. QED
    BY <1>0, <2>1, <2>2, <2>3, <2>4, ReplaceTyped DEF BodyTyped
<1>17. CASE SourceOpened(t)
  <2>1. \A place \in {"failRelease", "lateClose", "ingress"} : place \in Inside
    BY <1>p DEF Starting
  <2>2. UNCHANGED runtime
    BY <1>17 DEF SourceOpened
  <2>3. CASE /\ FailsStart(t, owner, FALSE, "DETACHED", TRUE)
             /\ UNCHANGED <<mic, capture, bound>>
    BY <1>0, <2>2, <2>3, FailsStartTyped DEF BodyTyped
  <2>4. ASSUME NEW s \in Sources, mic' = [mic EXCEPT ![s] = "open"],
               loc' = [loc EXCEPT ![t].src = s], Goes(t, "lateClose"),
               UNCHANGED <<owner, capture, bound>>
        PROVE  BodyTyped
    BY <1>0, <2>1, <2>2, <2>4, LocalsTyped, GoesTyped DEF BodyTyped
  <2>5. ASSUME NEW s \in Sources, mic' = [mic EXCEPT ![s] = "open"],
               owner' = [owner EXCEPT !.source = s, !.loop = s],
               capture' = [capture EXCEPT ![s] = "running"],
               bound' = [bound EXCEPT ![s] = loc[t].gen],
               GoesOn(t, "ingress")
        PROVE  BodyTyped
    BY <1>0, <1>l, <2>1, <2>2, <2>5, OwnerTyped, GoesOnTyped DEF BodyTyped
  <2>. QED
    BY <1>17, <2>3, <2>4, <2>5 DEF SourceOpened
<1>18. CASE LateSourceClosed(t)
  <2>1. "staleRelease" \in Inside
    BY <1>p DEF Starting
  <2>2. mic' \in [Sources -> {"unused", "open", "closed"}]
    BY <1>0, <1>18 DEF LateSourceClosed
  <2>3. /\ loc' = [loc EXCEPT ![t].src = None]
        /\ owner' = [owner EXCEPT !.status = "RELEASING"]
        /\ Goes(t, "staleRelease") /\ UNCHANGED <<capture, bound, runtime>>
    BY <1>18 DEF LateSourceClosed
  <2>. QED
    BY <1>0, <2>1, <2>2, <2>3, OwnerTyped, LocalsTyped, GoesTyped DEF BodyTyped
<1>19. CASE IngressStarted(t)
  <2>1. runtime' \in RuntimeTypes
    BY <1>19, ChannelTyped DEF IngressStarted
  <2>2. \/ /\ owner' = [owner EXCEPT !.state = "RUNNING"] /\ Ends(t, FALSE)
           /\ UNCHANGED <<mic, capture, bound>>
        \/ FaultsLocked(t, loc[t].gen)
    BY <1>19 DEF IngressStarted
  <2>. QED
    BY <1>0, <2>1, <2>2, OwnerTyped, EndsTyped, FaultsTyped DEF BodyTyped
<1>20. CASE StartReleased(t)
  <2>1. runtime' \in RuntimeTypes
    BY <1>20, ChannelTyped DEF StartReleased
  <2>2. /\ owner' = Detached(owner, "abort")
        /\ \E failed \in BOOLEAN : Ends(t, failed)
        /\ UNCHANGED <<mic, capture, bound>>
    BY <1>20 DEF StartReleased
  <2>. QED
    BY <1>0, <2>1, <2>2, OwnerTyped, EndsTyped DEF BodyTyped
<1>21. CASE CandidateBuilt(t)
  <2>1. "boundary" \in Inside /\ "committed" \in Inside
    BY <1>p DEF Handing
  <2>2. UNCHANGED <<mic, capture, bound>>
    BY <1>21 DEF CandidateBuilt
  <2>3. t \in Calls
    BY <1>21, CallKinds DEF CandidateBuilt, At, Roles, Handing
  <2>4. runtime' \in RuntimeTypes
    <3>1. /\ [runtime EXCEPT !.attached = loc[t].config, !.idle = FALSE]
                \in RuntimeTypes
          /\ [runtime EXCEPT !.pending = t, !.idle = FALSE] \in RuntimeTypes
      BY <1>l, <2>3, ChannelTyped, Zenon
    <3>. QED
      BY <1>0, <1>21, <3>1 DEF CandidateBuilt
  <2>5. \/ owner' = [owner EXCEPT !.status = "READY"] /\ Ends(t, FALSE)
        \/ (GoesOn(t, "boundary") \/ GoesOn(t, "committed")) /\ UNCHANGED owner
    BY <1>21 DEF CandidateBuilt, HandoffFails
  <2>. QED
    BY <1>0, <2>1, <2>2, <2>4, <2>5, OwnerTyped, EndsTyped, GoesOnTyped DEF BodyTyped
<1>22. CASE HandoffResumes(t)
  <2>1. runtime' \in RuntimeTypes
    BY <1>l, <1>22, ChannelTyped DEF HandoffResumes
  <2>2. UNCHANGED <<mic, capture, bound>> /\ Ends(t, FALSE)
    BY <1>22 DEF HandoffResumes, HandoffApplied
  <2>3. t \in Calls
    BY <1>22, CallKinds DEF HandoffResumes, At, Roles, Handing
  <2>4. owner' \in OwnerTypes
    BY <1>l, <1>22, <2>3, OwnerTyped DEF HandoffResumes, HandoffApplied
  <2>. QED
    BY <1>0, <2>1, <2>2, <2>4, EndsTyped DEF BodyTyped
<1>23. CASE CancelledQuietly(t)
  BY <1>0, <1>23, AbandonsTyped DEF CancelledQuietly, BodyTyped
<1>24. CASE CancelledClosing(t)
  <2>1. mic' \in [Sources -> {"unused", "open", "closed"}]
    BY <1>0, <1>24 DEF CancelledClosing
  <2>2. Abandons(t) /\ UNCHANGED <<owner, capture, bound, runtime>>
    BY <1>24 DEF CancelledClosing
  <2>. QED
    BY <1>0, <2>1, <2>2, AbandonsTyped DEF BodyTyped
<1>25. CASE CancelledReleasing(t)
  <2>1. runtime' \in RuntimeTypes
    BY <1>0, <1>25, ChannelTyped DEF CancelledReleasing
  <2>2. /\ owner' = Detached(owner, "abort") \/ UNCHANGED owner
        /\ Abandons(t) /\ UNCHANGED <<mic, capture, bound>>
    BY <1>25 DEF CancelledReleasing
  <2>. QED
    BY <1>0, <2>1, <2>2, OwnerTyped, AbandonsTyped DEF BodyTyped
<1>26. CASE CancelledWaiting(t)
  <2>1. runtime' \in RuntimeTypes
    BY <1>26, ChannelTyped DEF CancelledWaiting
  <2>2. Abandons(t) /\ UNCHANGED <<owner, mic, capture, bound>>
    BY <1>26 DEF CancelledWaiting
  <2>. QED
    BY <1>0, <2>1, <2>2, AbandonsTyped DEF BodyTyped
<1>27. CASE FaultRuns(t)
  BY <1>0, <1>27, FaultsTyped DEF FaultRuns, BodyTyped
<1>28. CASE TerminalRuns(t)
  <2>1. UNCHANGED runtime
    BY <1>28 DEF TerminalRuns
  <2>2. \/ /\ UNCHANGED owner \/ owner' = [owner EXCEPT !.status = "FAILED",
                                                        !.state = "FAULTED"]
           /\ Ends(t, FALSE) /\ UNCHANGED <<mic, capture, bound>>
        \/ FaultsLocked(t, owner.generation)
    BY <1>28 DEF TerminalRuns
  <2>. QED
    BY <1>0, <2>1, <2>2, OwnerTyped, EndsTyped, FaultsTyped DEF BodyTyped
<1>. QED
  BY <1>1, <1>2, <1>3, <1>4, <1>5, <1>6, <1>7, <1>8, <1>9, <1>10, <1>11, <1>12,
     <1>13, <1>14, <1>15, <1>16, <1>17, <1>18, <1>19, <1>20, <1>21, <1>22, <1>23,
     <1>24, <1>25, <1>26, <1>27, <1>28 DEF BodyStep

\* The locals a call begins with.
LEMMA NewLocalsTyped ==
    /\ \A k \in Bodies, g \in Nat :
         [NoLocals EXCEPT !.kind = k, !.gen = g] \in Locals
    /\ \A k \in Bodies, g \in Nat, f \in Configs \cup {None} :
         [NoLocals EXCEPT !.kind = k, !.gen = g, !.config = f] \in Locals
    /\ \A k \in Bodies, g \in Nat, f \in Configs \cup {None}, b \in BOOLEAN :
         [NoLocals EXCEPT !.kind = k, !.gen = g, !.config = f, !.force = b]
            \in Locals
    /\ \A k \in Bodies, c \in Calls :
         [NoLocals EXCEPT !.kind = k, !.src = c] \in Locals
BY Zenon DEF NoLocals, Locals

\* Every call keeps the types.
LEMMA CallTypes ==
    ASSUME Typed, NEW c \in Calls, Start(c) \/ CallerStep(c)
    PROVE  Typed'
<1>0. /\ owner \in OwnerTypes /\ owner.generation + 1 \in Nat
      /\ owner.loop \in Sources \cup {None} /\ c \in Tasks /\ "start" \in Pcs
      /\ caller \in [Calls -> {"idle", "awaiting", "retiring", "frozen", "returned",
                               "faults", "closed"}]
      /\ waits \in [Calls -> Calls \cup {None}] /\ transition \in Calls \cup {None}
      /\ pc \in [Tasks -> Pcs] /\ loc \in [Tasks -> Locals] /\ killed \subseteq Tasks
      /\ bound \in [Sources -> Nat]
  <2>1. owner \in OwnerTypes
    BY DEF Typed
  <2>. QED
    BY <2>1 DEF Typed, OwnerTypes, Tasks, Pcs, Entry
<1>1. \A ts \in {Pending, Sources} : WithKilled(ts) \subseteq Tasks
  BY <1>0 DEF WithKilled, Pending, Tasks
<1>2. ASSUME NEW k \in Intents, NEW f \in Configs \cup {None}, NEW force \in BOOLEAN,
             ApplyIntent(c, k, f, force)
      PROVE  Typed'
  <2>. DEFINE g == owner.generation + 1
              l == [NoLocals EXCEPT !.kind = k, !.gen = g, !.config = f,
                                    !.force = force]
  <2>1. owner' \in OwnerTypes
    <3>1. \A n \in Nat, d \in BOOLEAN :
            [owner EXCEPT !.generation = n, !.desired = d] \in OwnerTypes
      BY <1>0, Zenon DEF OwnerTypes
    <3>2. owner' = [owner EXCEPT !.generation = g, !.desired = k # "off"]
      BY <1>2 DEF ApplyIntent
    <3>. QED
      BY <1>0, <3>1, <3>2
  <2>2. l \in Locals
    BY <1>0, NewLocalsTyped, Zenon DEF Bodies
  <2>3. loc' = [loc EXCEPT ![c] = l]
    BY <1>2 DEF ApplyIntent
  <2>. HIDE DEF l
  <2>4. loc' \in [Tasks -> Locals]
    BY <1>0, <2>2, <2>3
  <2>5. bound' \in [Sources -> Nat]
    BY <1>0, <1>2 DEF ApplyIntent, Rebound
  <2>6. pc' \in [Tasks -> Pcs] /\ killed' \subseteq Tasks
    BY <1>0, <1>1, <1>2 DEF ApplyIntent
  <2>7. /\ caller' \in [Calls -> {"idle", "awaiting", "retiring", "frozen",
                                  "returned", "faults", "closed"}]
        /\ waits' \in [Calls -> Calls \cup {None}]
        /\ transition' \in Calls \cup {None}
    BY <1>0, <1>2 DEF ApplyIntent
  <2>8. UNCHANGED <<mic, capture, runtime, queue>>
    BY <1>2 DEF ApplyIntent
  <2>. QED
    BY <2>1, <2>4, <2>5, <2>6, <2>7, <2>8 DEF Typed
<1>3. ASSUME NEW f \in Configs, PrepareProvider(c, f)
      PROVE  Typed'
  <2>. DEFINE g == owner.generation + 1
              l == [NoLocals EXCEPT !.kind = "prepare", !.gen = g, !.config = f]
  <2>1. owner' \in OwnerTypes
    <3>1. \A n \in Nat :
            [owner EXCEPT !.generation = n, !.config = f, !.state = "STARTING",
                          !.status = "PENDING"] \in OwnerTypes
      BY <1>0, Zenon DEF OwnerTypes
    <3>. QED
      BY <1>0, <1>3, <3>1 DEF PrepareProvider
  <2>2. l \in Locals
    BY <1>0, NewLocalsTyped, Zenon DEF Bodies
  <2>3. loc' = [loc EXCEPT ![c] = l]
    BY <1>3 DEF PrepareProvider
  <2>. HIDE DEF l
  <2>4. loc' \in [Tasks -> Locals]
    BY <1>0, <2>2, <2>3
  <2>5. /\ pc' \in [Tasks -> Pcs]
        /\ caller' \in [Calls -> {"idle", "awaiting", "retiring", "frozen",
                                  "returned", "faults", "closed"}]
    BY <1>0, <1>3 DEF PrepareProvider
  <2>6. UNCHANGED <<mic, capture, bound, runtime, queue, transition, waits, killed>>
    BY <1>3 DEF PrepareProvider
  <2>. QED
    BY <2>1, <2>4, <2>5, <2>6 DEF Typed
<1>4. ASSUME NEW k \in {"suspend", "close"}, Retire(c, k)
      PROVE  Typed'
  <2>. DEFINE g == owner.generation + 1
              l == [NoLocals EXCEPT !.kind = k, !.gen = g]
  <2>1. owner' \in OwnerTypes
    <3>1. \A n \in Nat, a, b \in BOOLEAN :
            [owner EXCEPT !.generation = n, !.state = "STOPPING", !.closed = a,
                          !.desired = b] \in OwnerTypes
      BY <1>0, Zenon DEF OwnerTypes
    <3>2. /\ (owner.closed \/ k = "close") \in BOOLEAN
          /\ (owner.desired /\ k # "close") \in BOOLEAN
      OBVIOUS
    <3>. QED
      BY <1>0, <1>4, <3>1, <3>2 DEF Retire
  <2>2. l \in Locals
    BY <1>0, NewLocalsTyped, Zenon DEF Bodies
  <2>3. loc' = [loc EXCEPT ![c] = l]
    BY <1>4 DEF Retire
  <2>. HIDE DEF l
  <2>4. loc' \in [Tasks -> Locals]
    BY <1>0, <2>2, <2>3
  <2>5. /\ caller' \in [Calls -> {"idle", "awaiting", "retiring", "frozen",
                                  "returned", "faults", "closed"}]
        /\ waits' \in [Calls -> Calls \cup {None}]
        /\ transition' \in Calls \cup {None} /\ killed' \subseteq Tasks
    BY <1>0, <1>1, <1>4 DEF Retire
  <2>6. UNCHANGED <<mic, capture, bound, runtime, queue, pc>>
    BY <1>4 DEF Retire
  <2>. QED
    BY <2>1, <2>4, <2>5, <2>6 DEF Typed
<1>5. CASE FreezeIngress(c)
  <2>1. owner' \in OwnerTypes
    BY <1>5, InvalidatedTyped DEF FreezeIngress
  <2>2. caller' \in [Calls -> {"idle", "awaiting", "retiring", "frozen",
                               "returned", "faults", "closed"}]
    BY <1>0, <1>5 DEF FreezeIngress
  <2>3. UNCHANGED <<mic, capture, bound, runtime, queue, transition, waits, pc,
                    loc, killed>>
    BY <1>5 DEF FreezeIngress
  <2>. QED
    BY <2>1, <2>2, <2>3 DEF Typed
<1>6. CASE TransitionEnded(c) \/ NothingToWaitFor(c)
  <2>1. /\ waits' \in [Calls -> Calls \cup {None}] /\ pc' \in [Tasks -> Pcs]
        /\ caller' \in [Calls -> {"idle", "awaiting", "retiring", "frozen",
                                  "returned", "faults", "closed"}]
    BY <1>0, <1>6 DEF TransitionEnded, NothingToWaitFor
  <2>2. UNCHANGED <<owner, mic, capture, bound, runtime, queue, transition, loc,
                    killed>>
    BY <1>6 DEF TransitionEnded, NothingToWaitFor
  <2>. QED
    BY <2>1, <2>2 DEF Typed
<1>7. CASE CallReturns(c) \/ FaultTasksEnded(c)
  <2>1. /\ caller' \in [Calls -> {"idle", "awaiting", "retiring", "frozen",
                                  "returned", "faults", "closed"}]
        /\ transition' \in Calls \cup {None} /\ killed' \subseteq Tasks
    BY <1>0, <1>1, <1>7 DEF CallReturns, FaultTasksEnded
  <2>2. UNCHANGED <<owner, mic, capture, bound, runtime, queue, waits, pc, loc>>
    BY <1>7 DEF CallReturns, FaultTasksEnded
  <2>. QED
    BY <2>1, <2>2 DEF Typed
<1>8. CASE Start(c)
  <2>1. ASSUME NEW k \in Kinds \cap {"on", "restart"}, NEW f \in Configs,
               NEW force \in IF k = "restart" THEN BOOLEAN ELSE {FALSE},
               ApplyIntent(c, k, f, force)
        PROVE  Typed'
    BY <1>2, <2>1 DEF Intents
  <2>2. CASE ApplyIntent(c, "off", None, FALSE)
    BY <1>2, <2>2 DEF Intents
  <2>3. CASE \E f \in Configs : PrepareProvider(c, f)
    BY <1>3, <2>3
  <2>4. CASE \E k \in Kinds \cap {"suspend", "close"} : Retire(c, k)
    BY <1>4, <2>4
  <2>. QED
    BY <1>5, <1>8, <2>1, <2>2, <2>3, <2>4 DEF Start
<1>9. CASE FrozenCloses(c)
  BY <1>4, <1>9 DEF FrozenCloses
<1>. QED
  BY <1>6, <1>7, <1>8, <1>9 DEF CallerStep

\* No step of a body concerns the callers.
LEMMA BodyOutside ==
    ASSUME NEW t \in Tasks, BodyStep(t)
    PROVE  UNCHANGED Outside
BY DEF BodyStep, Locks, SupersededBody, TurnsOff, TurnsOn, Restarts, KeepsSession,
   Prepares, TearsDown, LoopEnded, SourceClosed, DebtRetried, DebtsSettled,
   ProviderReleased, AdmissionReturns, ProviderBuilt, OldProviderClosed,
   SourceOpened, LateSourceClosed, IngressStarted, StartReleased, CandidateBuilt,
   HandoffResumes, CancelledQuietly, CancelledClosing, CancelledReleasing,
   CancelledWaiting, FaultRuns, TerminalRuns, Outside

\* Every step keeps the types.
LEMMA TypesStep ==
    ASSUME Typed, Roles, Holding, [Next]_vars
    PROVE  Typed'
<1>0. /\ capture \in [Sources -> {"none", "running", "cancelling", "ended"}]
      /\ bound \in [Sources -> Nat] /\ pc \in [Tasks -> Pcs]
      /\ loc \in [Tasks -> Locals] /\ "start" \in Pcs /\ "committed" \in Pcs
      /\ Sources \subseteq Tasks /\ Calls \subseteq Tasks /\ Failures \subseteq Tasks
  BY DEF Typed, Pcs, Entry, Inside, Handing, Tasks
<1>1. ASSUME NEW c \in Calls, Start(c) \/ CallerStep(c) PROVE Typed'
  BY <1>1, CallTypes
<1>2. ASSUME NEW t \in Tasks, BodyStep(t) PROVE Typed'
  <2>1. BodyTyped
    BY <1>2, BodyTypes
  <2>2. UNCHANGED Outside
    BY <1>2, BodyOutside
  <2>. QED
    BY <2>1, <2>2 DEF BodyTyped, Typed, Outside
<1>3. ASSUME NEW s \in Sources, LoopEnds(s) PROVE Typed'
  <2>1. /\ capture' \in [Sources -> {"none", "running", "cancelling", "ended"}]
        /\ pc' \in [Tasks -> Pcs]
    BY <1>0, <1>3 DEF LoopEnds
  <2>2. loc' \in [Tasks -> Locals]
    <3>1. [NoLocals EXCEPT !.kind = "fault", !.gen = bound[s]] \in Locals
      BY <1>0, NewLocalsTyped, Zenon DEF Bodies
    <3>2. \/ loc' = [loc EXCEPT ![s] = [NoLocals EXCEPT !.kind = "fault",
                                                        !.gen = bound[s]]]
          \/ loc' = loc
      BY <1>3 DEF LoopEnds
    <3>. QED
      BY <1>0, <3>1, <3>2
  <2>3. UNCHANGED <<owner, mic, bound, runtime, queue, Outside>>
    BY <1>3 DEF LoopEnds
  <2>. QED
    BY <2>1, <2>2, <2>3 DEF Typed, Outside
<1>4. ASSUME NEW x \in Failures, ProviderFails(x) PROVE Typed'
  <2>1. PICK c \in Calls :
          loc' = [loc EXCEPT ![x] = [NoLocals EXCEPT !.kind = "terminal", !.src = c]]
    BY <1>4 DEF ProviderFails
  <2>2. [NoLocals EXCEPT !.kind = "terminal", !.src = c] \in Locals
    BY NewLocalsTyped, Zenon DEF Bodies
  <2>3. loc' \in [Tasks -> Locals] /\ pc' \in [Tasks -> Pcs]
    BY <1>0, <1>4, <2>1, <2>2 DEF ProviderFails
  <2>4. UNCHANGED <<owner, Held, queue, Outside>>
    BY <1>4 DEF ProviderFails
  <2>. QED
    BY <2>3, <2>4 DEF Typed, Outside, Held
<1>5. CASE Boundary
  <2>1. runtime.pending \in Calls
    BY <1>5 DEF Boundary, Typed, RuntimeTypes
  <2>2. loc[runtime.pending].config \in Configs \cup {None}
    BY <1>0, <2>1 DEF Locals
  <2>3. runtime' \in RuntimeTypes
    <3>1. [runtime EXCEPT !.pending = None,
                          !.attached = loc[runtime.pending].config,
                          !.recorded = loc[runtime.pending].config] \in RuntimeTypes
      BY <2>2, ChannelTyped, Zenon
    <3>. QED
      BY <1>5, <3>1 DEF Boundary
  <2>4. pc' \in [Tasks -> Pcs]
    BY <1>0, <1>5, <2>1 DEF Boundary
  <2>5. UNCHANGED <<owner, mic, capture, bound, queue, loc, Outside>>
    BY <1>5 DEF Boundary
  <2>. QED
    BY <2>3, <2>4, <2>5 DEF Typed, Outside
<1>6. CASE IdleRelease
  <2>1. runtime' \in RuntimeTypes
    <3>1. runtime.debt \in BOOLEAN /\ (runtime.debt \/ MayFail("release")) \in BOOLEAN
      BY DEF Typed, RuntimeTypes
    <3>. QED
      BY <1>6, <3>1, ChannelTyped DEF IdleRelease
  <2>2. UNCHANGED <<owner, mic, capture, bound, queue, pc, loc, Outside>>
    BY <1>6 DEF IdleRelease
  <2>. QED
    BY <2>1, <2>2 DEF Typed, Outside
<1>7. CASE UNCHANGED vars
  BY <1>7 DEF vars, Typed
<1>. QED
  BY <1>1, <1>2, <1>3, <1>4, <1>5, <1>6, <1>7 DEF Next
===============================================================================
