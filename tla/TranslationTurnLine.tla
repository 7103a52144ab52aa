--------------------------- MODULE TranslationTurnLine ---------------------------
(***************************************************************************)
(* The turns of a channel form a line: they are numbered, queue for the    *)
(* lock, are admitted one behind the other, and are processed in that      *)
(* order.  A step of the owner has one of a few effects on the line        *)
(* (OpenEffects), and each of them keeps each part of LineOK.              *)
(***************************************************************************)
EXTENDS TranslationTurnSteps, TranslationTurnOrder, WellFoundedInduction

\* The caller of submit never returns to the start.
LEMMA SubmitterFrame ==
    ASSUME TypeOK, [Next]_vars
    PROVE  \A p \in Parents : pc'[Submitter(p)] \in {"idle", "rejected"} =>
             pc[Submitter(p)] \in {"idle", "rejected"} /\ ~ Register(p)
<1>. USE DEF registry, admission, progress, tasks, control
<1>. pc \in [Actors -> PcValues]
  BY DEF TypeOK
<1>0. \A p \in Parents : Register(p) => pc'[Submitter(p)] \notin {"idle", "rejected"}
  BY ActorFacts DEF Register, Goto
<1>. DEFINE Steady == \A p \in Parents : pc'[Submitter(p)] \in {"idle", "rejected"} =>
                         pc[Submitter(p)] \in {"idle", "rejected"}
<1>1. ASSUME UNCHANGED vars PROVE Steady
  <2>1. pc' = pc
    BY <1>1 DEF vars
  <2>. QED
    BY <2>1
<1>2. ASSUME NEW p \in Parents,
               \/ Reject(p) \/ Register(p) \/ SubmitterCancelled(p)
               \/ LockAcquired(p) \/ Admitted(p) \/ NotAdmitted(p)
               \/ Withdraw(p) \/ Withdrawn(p) \/ ChildCreationFails(p)
      PROVE  Steady
  <2>1. pc' = pc \/ (pc[Submitter(p)] = "idle" /\ Goto(Submitter(p), "rejected"))
          \/ \E l \in PcValues \ {"idle", "rejected"} : Goto(Submitter(p), l)
    BY <1>2
    DEF Reject, Register, SubmitterCancelled, LockAcquired, Admitted, NotAdmitted,
        Withdraw, Withdrawn, ChildCreationFails, SweepOne, PcValues
  <2>. QED
    BY <2>1, ActorFacts DEF Goto
<1>3. ASSUME NEW p \in Parents, ChildCreated(p) PROVE Steady
  <2>1. CASE /\ p \in parents /\ ~ CancellationRequested(p)
             /\ StartRunner(p)
             /\ UNCHANGED creating
    <3>1. RunnerMoves(p) /\ pc'[Submitter(p)] = "return"
      BY <2>1, StartMoves
    <3>. QED
      BY <1>3, <3>1 DEF RunnerMoves, ChildCreated
  <2>2. CASE \E l \in {"return", "create", "sweep"} : Goto(Submitter(p), l)
    BY <1>3, <2>2, ActorFacts DEF Goto, ChildCreated
  <2>. QED
    BY <1>3, <2>1, <2>2 DEF ChildCreated, CreateNext, PcValues
<1>4. ASSUME NEW p \in Parents, LoopContinues(p) PROVE Steady
  <2>1. RunnerMoves(p) /\ pc'[Submitter(p)] = pc[Submitter(p)]
    BY <1>4, LoopMoves DEF LoopContinues
  <2>. QED
    BY <1>4, <2>1 DEF RunnerMoves, LoopContinues
<1>5. ASSUME NEW p \in Parents,
               \/ Gathered(p) \/ RunnerCancelled(p) \/ RunnerSweeps(p)
               \/ RunnerEnds(p)
      PROVE  Steady
  BY <1>5, ActorFacts
  DEF Gathered, RunnerCancelled, RunnerSweeps, RunnerEnds, SweepOne, Unwind, Goto
<1>6. ASSUME NEW k \in Children, ChildStep(k) \/ ChildDropped(k)
      PROVE  Steady
  BY <1>6, ActorFacts
  DEF ChildStep, ChildStarted, ChildProcessed, PredecessorClosed, OutputReturns,
      ChildInterrupted, ChildEnds, ChildDropped, Deliver, Goto
<1>7. ASSUME NEW x \in Controllers, NEW op, NEW c \in Channels,
               \/ CancelQueued(x, op, c) \/ CancelStarts(x, op, c)
               \/ CancelFindsNothing(x, op, c) \/ OpenIngress(x, c)
      PROVE  Steady
  BY <1>7, ActorFacts
  DEF CancelQueued, CancelStarts, CancelFindsNothing, OpenIngress, BeginsCancel,
      CancelSelected, Goto
<1>8. ASSUME NEW x \in Controllers, ControlStep(x) \/ BeginClose(x) PROVE Steady
  BY <1>8, ActorFacts
  DEF ControlStep, Select, TasksEnded, ControlSweeps, CancelReturns, DrainLock,
      LockDrained, CloseScope, ScopeClosed, CloseReturns, BeginClose,
      CancelSelected, SweepOne, Goto
<1>9. ASSUME NEW a \in Actors, AdapterReturns(a) PROVE Steady
  BY <1>9 DEF AdapterReturns, TerminalReturns, ClosedReturns
<1>10. Steady
  BY <1>1, <1>2, <1>3, <1>4, <1>5, <1>6, <1>7, <1>8, <1>9
  DEF Next, Environment, SubmitStep, RunStep
<1>. QED
  BY <1>0, <1>10

\* A turn is registered when it is submitted, and stays registered.
LEMMA RegisteredFrame ==
    ASSUME TypeOK, TerminalsOK, [Next]_vars
    PROVE  \/ Registered' = Registered
           \/ \E p \in Parents : Register(p) /\ Registered' = Registered \cup {p}
<1>1. ASSUME NEW p \in Parents, Register(p) PROVE Registered' = Registered \cup {p}
  BY <1>1 DEF Register, Registered
<1>2. ASSUME NEW a \in Actors, TerminalReturns(a) PROVE Registered' = Registered
  BY <1>2 DEF TerminalReturns, CloseParent, Registered, registry
<1>. QED
  BY <1>1, <1>2, RegistryFrame DEF Registered

\* Turns are numbered upwards within a generation, and generations only advance.
LEMMA TurnsStep ==
    ASSUME TypeOK, TerminalsOK, TurnsOK, [Next]_vars
    PROVE  TurnsOK'
<1>. Registered \subseteq Parents
  BY DEF TypeOK, Registered
<1>. USE DEF TurnsOK, Earlier
<1>. /\ turn \in [Parents -> Nat \X Nat] /\ generation \in [Channels -> Nat]
     /\ nextOrder \in [Channels -> Nat]
     /\ \A p \in Parents : ChannelOf[p] \in Channels
  BY ChannelFacts DEF TypeOK
<1>. \A p \in Parents : turn[p][1] \in Nat /\ turn[p][2] \in Nat
  OBVIOUS
<1>1. CASE UNCHANGED <<turn, nextOrder, generation>> /\ Registered' = Registered
  BY <1>1, SubmitterFrame
<1>2. ASSUME NEW p \in Parents, Register(p), Registered' = Registered \cup {p}
      PROVE  TurnsOK'
  <2>. DEFINE c == ChannelOf[p]
  <2>1. /\ UNCHANGED generation /\ p \notin Registered
        /\ turn' = [turn EXCEPT ![p] = <<generation[c], nextOrder[c]>>]
        /\ nextOrder' = [nextOrder EXCEPT ![c] = @ + 1]
    BY <1>2 DEF Register, control
  <2>2. /\ turn'[p][1] = generation[c] /\ turn'[p][2] = nextOrder[c]
        /\ nextOrder'[c] = nextOrder[c] + 1
        /\ \A q \in Parents \ {p} : turn'[q] = turn[q]
        /\ \A d \in Channels \ {c} : nextOrder'[d] = nextOrder[d]
    BY <2>1
  <2>3. ASSUME NEW q \in Registered'
        PROVE  /\ pc'[Submitter(q)] \notin {"idle", "rejected"}
               /\ turn'[q][1] <= generation'[ChannelOf[q]]
               /\ turn'[q][1] = generation'[ChannelOf[q]] =>
                    turn'[q][2] < nextOrder'[ChannelOf[q]]
    <3>1. CASE q = p
      BY <1>2, <2>1, <2>2, <3>1, SubmitterFrame
    <3>2. CASE q # p
      <4>1. q \in Registered /\ turn'[q] = turn[q]
        BY <1>2, <2>2, <3>2
      <4>2. nextOrder[ChannelOf[q]] <= nextOrder'[ChannelOf[q]]
        BY <2>2, <4>1
      <4>3. nextOrder'[ChannelOf[q]] \in Nat
        BY <2>2, <4>1
      <4>. QED
        BY <2>1, <4>1, <4>2, <4>3, SubmitterFrame
    <3>. QED
      BY <3>1, <3>2
  <2>4. \A q \in Registered : ChannelOf[q] = c => Earlier(q, p)'
    BY <2>1, <2>2
  <2>5. \A q, r \in Registered : ChannelOf[q] = ChannelOf[r] /\ q # r =>
           Earlier(q, r)' \/ Earlier(r, q)'
    BY <2>1, <2>2
  <2>6. \A q, r \in Registered' : ChannelOf[q] = ChannelOf[r] /\ q # r =>
           Earlier(q, r)' \/ Earlier(r, q)'
    BY <1>2, <2>4, <2>5
  <2>. QED
    BY <2>3, <2>6
<1>3. ASSUME NEW x \in Controllers, ControlMoves(x),
             UNCHANGED <<turn, parents, closedParents>>
      PROVE  TurnsOK'
  <2>1. UNCHANGED <<generation, nextOrder>> \/ \E C : Advanced(C)
    BY <1>3
    DEF ControlMoves, CancelQueued, CancelStarts, CancelFindsNothing, OpenIngress,
        BeginsCancel, Select, TasksEnded, CancelReturns, DrainLock, LockDrained,
        CloseScope, ScopeClosed, CloseReturns, BeginClose, control, admission
  <2>2. \A d \in Channels : \/ generation'[d] = generation[d] + 1
                            \/ generation'[d] = generation[d] /\ nextOrder'[d] = nextOrder[d]
    BY <2>1 DEF Advanced
  <2>3. Registered' = Registered
    BY <1>3 DEF Registered
  <2>4. \A q \in Registered :
          /\ turn[q][1] <= generation'[ChannelOf[q]]
          /\ turn[q][1] = generation'[ChannelOf[q]] =>
               turn[q][2] < nextOrder'[ChannelOf[q]]
    BY <2>2
  <2>. QED
    BY <1>3, <2>3, <2>4, SubmitterFrame
<1>. QED
  <2>1. CASE UNCHANGED <<turn, nextOrder>> /\ ControlStill
    <3>1. ~ \E p \in Parents : Register(p)
      <4>. SUFFICES ASSUME NEW p \in Parents, Register(p) PROVE FALSE
        OBVIOUS
      <4>1. nextOrder'[ChannelOf[p]] = nextOrder[ChannelOf[p]] + 1
        BY DEF Register
      <4>. QED
        BY <2>1, <4>1
    <3>. QED
      BY <1>1, <2>1, <3>1, RegisteredFrame DEF ControlStill
  <2>2. CASE \E p \in Parents : Register(p)
    <3>1. ASSUME NEW p \in Parents, Register(p) PROVE Registered' = Registered \cup {p}
      BY <3>1 DEF Register, Registered
    <3>. QED
      BY <1>2, <2>2, <3>1
  <2>. QED
    BY <1>3, <2>1, <2>2, AdmissionFrame

\* Nobody but the cancellation itself unblocks the channel it retires.
LEMMA SparesStep ==
    ASSUME OneController, TypeOK, TerminalsOK, SelectionsOK, TurnsOK, SparesOK, [Next]_vars
    PROVE  SparesOK'
<1>. USE DEF SparesOK, CancelLabels
<1>. /\ pc \in [Actors -> PcValues] /\ call \in [Controllers -> Calls]
     /\ generation \in [Channels -> Nat] /\ Registered \subseteq Parents
     /\ turn \in [Parents -> Nat \X Nat]
     /\ \A p \in Parents : turn[p][1] \in Nat /\ turn[p][2] \in Nat
     /\ \A x \in Controllers : Control(x) \in Actors
  BY ActorFacts DEF TypeOK, Registered
<1>1. CASE ControlStill /\ Registered' = Registered /\ UNCHANGED turn
  BY <1>1 DEF ControlStill
<1>2. ASSUME NEW p \in Parents, Register(p), Registered' = Registered \cup {p}
      PROVE  SparesOK'
  <2>1. /\ ChannelOf[p] \notin blocked
        /\ \A q \in Parents \ {p} : turn'[q] = turn[q]
        /\ UNCHANGED <<call, blocked>>
        /\ \A x \in Controllers : pc'[Control(x)] = pc[Control(x)]
    BY <1>2, ActorFacts DEF Register, Goto, control
  <2>. QED
    BY <1>2, <2>1
<1>3. ASSUME NEW x \in Controllers, ControlMoves(x),
             UNCHANGED <<turn, parents, closedParents>>
      PROVE  SparesOK'
  <2>. SUFFICES ASSUME pc'[Control(x)] \in CancelLabels
                PROVE  /\ call'[x].channel \in blocked'
                       /\ \A p \in Registered :
                            ChannelOf[p] = call'[x].channel =>
                              turn[p][1] < call'[x].generation
    BY <1>3 DEF OneController, Registered
  <2>1. ASSUME NEW op \in {"cancel", "closeIngress"}, NEW c \in Channels,
               CancelQueued(x, op, c) \/ CancelStarts(x, op, c)
        PROVE  /\ call'[x].channel \in blocked'
               /\ \A p \in Registered :
                    ChannelOf[p] = call'[x].channel =>
                      turn[p][1] < call'[x].generation
    <3>1. /\ call'[x].channel = c /\ call'[x].generation = generation[c] + 1
          /\ c \in blocked'
      BY <2>1
      DEF CancelQueued, CancelStarts, BeginsCancel, CancelSelected, Block, Call
    <3>. QED
      BY <3>1 DEF TurnsOK
  <2>2. CASE Select(x)
    <3>1. /\ call'[x].channel = call[x].channel
          /\ call'[x].generation = call[x].generation
          /\ call'[x].channel \in blocked' /\ pc[Control(x)] \in CancelLabels
      BY <2>2 DEF Select, CancelSelected, Block, Call
    <3>. QED
      BY <3>1
  <2>3. CASE TasksEnded(x)
    BY <2>3 DEF TasksEnded, control
  <2>4. ASSUME NEW op \in {"cancel", "closeIngress"}, NEW c \in Channels,
               \/ CancelFindsNothing(x, op, c) \/ OpenIngress(x, c) \/ DrainLock(x, c)
        PROVE  FALSE
    BY <2>4 DEF CancelFindsNothing, OpenIngress, DrainLock, BeginsCancel, Called, Goto
  <2>5. CASE \/ BeginClose(x) \/ CancelReturns(x) \/ LockDrained(x)
             \/ CloseScope(x) \/ ScopeClosed(x) \/ CloseReturns(x)
    <3>1. PICK l \in {"drain", "idle", "scope", "closeSweep"} : Goto(Control(x), l)
      BY <2>5 DEF BeginClose, CancelReturns, LockDrained, CloseScope, ScopeClosed,
         CloseReturns
    <3>2. pc'[Control(x)] = l
      BY <3>1 DEF Goto
    <3>. QED
      BY <3>2
  <2>. QED
    BY <1>3, <2>1, <2>2, <2>3, <2>4, <2>5 DEF ControlMoves
<1>. QED
  <2>1. ASSUME NEW p \in Parents, Register(p) PROVE Registered' = Registered \cup {p}
    BY <2>1 DEF Register, Registered
  <2>2. CASE \E p \in Parents : Register(p)
    <3>1. PICK p \in Parents : Register(p)
      BY <2>2
    <3>2. Registered' = Registered \cup {p}
      BY <2>1, <3>1
    <3>. QED
      BY <1>2, <3>1, <3>2
  <2>3. CASE UNCHANGED <<turn, nextOrder>> /\ ControlStill
    BY <1>1, <2>2, <2>3, RegisteredFrame
  <2>. QED
    BY <1>3, <2>2, <2>3, AdmissionFrame

\* Every non-empty set of natural numbers has a least element.
LEMMA LeastNat ==
    ASSUME NEW S \in SUBSET Nat, S # {}
    PROVE  \E n \in S : \A m \in S : n <= m
<1>. DEFINE R == {ss \in Nat \X Nat : ss[1] < ss[2]}
<1>1. IsWellFoundedOn(R, Nat)
  BY NatLessThanWellFounded DEF OpToRel
<1>2. \A m, n \in Nat : <<m, n>> \in R <=> m < n
  OBVIOUS
<1>. HIDE DEF R
<1>3. PICK n \in S : \A m \in S : ~ (<<m, n>> \in R)
  BY <1>1, WFMin
<1>4. \A m \in S : ~ (m < n)
  BY <1>2, <1>3
<1>. QED
  BY <1>4

\* The loop over the children of a parent picks the first one that is left, and
\* ends only when none is.
LEMMA FirstKid ==
    ASSUME NEW p \in Parents, NEW S \in SUBSET KidsOf(p)
    PROVE  /\ S # {} => FirstOf(S) # {}
           /\ \A k \in FirstOf(S), j \in S : k \in S /\ ~ (j[2] < k[2])
<1>1. \A k \in KidsOf(p) : k[1] = p /\ k[2] \in Nat
  BY DEF KidsOf
<1>2. \A j, k \in S : Before(j, k) <=> j[2] < k[2]
  BY <1>1 DEF Before
<1>3. CASE S # {}
  <2>. DEFINE N == {k[2] : k \in S}
  <2>1. N \in SUBSET Nat /\ N # {}
    BY <1>1, <1>3
  <2>2. PICK n \in N : \A m \in N : n <= m
    BY <2>1, LeastNat
  <2>3. PICK k \in S : k[2] = n
    BY <2>2
  <2>4. \A j \in S : n <= j[2]
    BY <2>2
  <2>5. \A j \in S : ~ (j[2] < k[2])
    BY <1>1, <2>3, <2>4
  <2>6. k \in FirstOf(S)
    BY <1>2, <2>5 DEF FirstOf
  <2>. QED
    BY <1>2, <2>6 DEF FirstOf
<1>. QED
  BY <1>2, <1>3 DEF FirstOf

-----------------------------------------------------------------------------
(* What a step does to the turns of a channel, while the owner is open. *)

SubmittersStill == \A p \in Parents : pc'[Submitter(p)] = pc[Submitter(p)]
RunnersStill == \A p \in Parents : pc'[Runner(p)] = pc[Runner(p)]
KidsStill == \A k \in Children : pc'[Kid(k)] = pc[Kid(k)]
ChainStill == UNCHANGED <<parents, closedParents, cancelling, tails,
                          predecessor, turn, lockQueue>>

\* Only callbacks and requests of no consequence for the order of the turns.
NothingMoves ==
    /\ ChainStill /\ ControlStill /\ UNCHANGED <<completed, semantic, kill>>
    /\ SubmittersStill /\ RunnersStill /\ KidsStill

\* The caller of submit goes on, under the lock of its channel or outside it.
SubmitterMoves(p) ==
    /\ ChainStill /\ ControlStill /\ UNCHANGED <<completed, semantic, kill>>
    /\ \A q \in Parents \ {p} : pc'[Submitter(q)] = pc[Submitter(q)]
    /\ RunnersStill /\ KidsStill
    /\ \/ /\ pc[Submitter(p)] \in {"lock", "admitting"}
          /\ pc'[Submitter(p)] \in {"admitting", "withdraw"}
          /\ pc[Submitter(p)] = "lock" => Holds(Submitter(p), ChannelOf[p])
       \/ /\ ~ Queued(p)
          /\ pc'[Submitter(p)] \in {"rejected", "create", "sweep", "return"}
          /\ pc'[Submitter(p)] = "rejected" => pc[Submitter(p)] = "idle"
          /\ pc'[Submitter(p)] = "sweep" => p \in parents /\ CancellationRequested(p)

\* A turn leaves the lock of its channel as the new tail of the channel.
Admits(p) ==
    /\ UNCHANGED <<parents, closedParents, cancelling, turn>>
    /\ ControlStill /\ UNCHANGED <<completed, semantic, kill>>
    /\ \A q \in Parents \ {p} : pc'[Submitter(q)] = pc[Submitter(q)]
    /\ RunnersStill /\ KidsStill
    /\ pc[Submitter(p)] = "admitting" /\ pc'[Submitter(p)] = "create"
    /\ p \in parents /\ ~ CancellationRequested(p)
    /\ Release(Submitter(p), ChannelOf[p])
    /\ \A q \in Parents :
         predecessor'[q] = IF q = p THEN tails[ChannelOf[p]] ELSE predecessor[q]
    /\ \A c \in Channels :
         tails'[c] = IF c = ChannelOf[p] THEN p ELSE tails[c]

\* A turn that is closed leaves the lock of its channel.
Withdraws(p) ==
    /\ UNCHANGED <<parents, closedParents, cancelling, tails, predecessor, turn>>
    /\ ControlStill /\ UNCHANGED <<completed, semantic, kill>>
    /\ \A q \in Parents \ {p} : pc'[Submitter(q)] = pc[Submitter(q)]
    /\ RunnersStill /\ KidsStill
    /\ pc[Submitter(p)] = "withdraw" /\ pc'[Submitter(p)] = "return"
    /\ p \notin parents
    /\ Release(Submitter(p), ChannelOf[p])

\* The task of a parent starts, goes on to its next child, or unwinds.
Runs(p) ==
    /\ ChainStill /\ ControlStill /\ UNCHANGED <<completed, semantic>>
    /\ \A q \in Parents \ {p} :
         pc'[Submitter(q)] = pc[Submitter(q)] /\ pc'[Runner(q)] = pc[Runner(q)]
    /\ \A k \in Children : k[1] # p => pc'[Kid(k)] = pc[Kid(k)]
    /\ \/ pc'[Submitter(p)] = pc[Submitter(p)]
       \/ /\ pc[Submitter(p)] = "create" /\ pc'[Submitter(p)] = "return"
          /\ pc[Runner(p)] = "idle" /\ p \in parents
    /\ pc[Submitter(p)] = "create" => pc'[Submitter(p)] = "return"
    /\ pc[Runner(p)] = "await" => \A k \in KidsOf(p) : ~ KidLive(k)
    /\ \/ /\ pc'[Runner(p)] = "await"
          /\ ~ CancellationRequested(p) /\ UNCHANGED kill /\ Runner(p) \notin kill
          /\ pc[Runner(p)] \in {"await", "skip"} \/ ~ WaitsForPredecessor(p)
          /\ \E k \in FirstOf(KidsOf(p) \ completed) :
               \A j \in KidsOf(p) :
                 pc'[Kid(j)] = IF j = k THEN "started" ELSE pc[Kid(j)]
       \/ /\ \A k \in KidsOf(p) : pc'[Kid(k)] = pc[Kid(k)]
          /\ \/ pc[Runner(p)] = "idle" /\ pc'[Runner(p)] = "wait" /\ UNCHANGED kill
             \/ pc'[Runner(p)] = "skip" /\ CancellationRequested(p) /\ UNCHANGED kill
             \/ /\ pc'[Runner(p)] = "done" /\ UNCHANGED kill
                /\ KidsOf(p) \subseteq completed \/ pc[Runner(p)] = "unwind"
             \/ /\ pc'[Runner(p)] = "unwind" /\ Runner(p) \in kill
                /\ kill' = kill \ {Runner(p)}

\* The task of a child goes on or ends; its result may count from now on.
KidMoves(k) ==
    /\ ChildStep(k)
    /\ ChainStill /\ ControlStill /\ UNCHANGED <<completed, kill>>
    /\ SubmittersStill /\ RunnersStill
    /\ \A j \in Children \ {k} : pc'[Kid(j)] = pc[Kid(j)]
    /\ KidLive(k)
    /\ semantic' = semantic \/ (semantic' = semantic \cup {k} /\ Executing(k))

\* One round of the loop of _run_parent.
LEMMA LoopRuns ==
    ASSUME NEW p \in Parents, NEW f \in [Actors -> PcValues], Loop(p, f),
           \A a \in Actors : a # Submitter(p) => f[a] = pc[a]
    PROVE  \/ /\ pc'[Runner(p)] = "await" /\ ~ CancellationRequested(p)
              /\ \E k \in FirstOf(KidsOf(p) \ completed) :
                   \A j \in KidsOf(p) :
                     pc'[Kid(j)] = IF j = k THEN "started" ELSE pc[Kid(j)]
           \/ /\ \A k \in KidsOf(p) : pc'[Kid(k)] = pc[Kid(k)]
              /\ \/ pc'[Runner(p)] = "skip" /\ CancellationRequested(p)
                 \/ pc'[Runner(p)] = "done" /\ KidsOf(p) \subseteq completed
<1>. DEFINE todo == FirstOf(KidsOf(p) \ completed)
<1>1. CASE todo = {} /\ pc' = [f EXCEPT ![Runner(p)] = "done"]
  BY <1>1, ActorFacts, KidFacts, FirstKid
<1>2. CASE CancellationRequested(p) /\ pc' = [f EXCEPT ![Runner(p)] = "skip"]
  BY <1>2, ActorFacts, KidFacts
<1>3. ASSUME NEW k \in todo, ~ CancellationRequested(p),
             pc' = [f EXCEPT ![Runner(p)] = "await", ![Kid(k)] = "started"]
      PROVE  /\ pc'[Runner(p)] = "await"
             /\ \A j \in KidsOf(p) :
                  pc'[Kid(j)] = IF j = k THEN "started" ELSE pc[Kid(j)]
  <2>1. k \in Children
    BY KidFacts, FirstOfFacts
  <2>2. \A a \in Actors : pc'[a] = IF a = Kid(k) THEN "started"
                                   ELSE IF a = Runner(p) THEN "await" ELSE f[a]
    BY <1>3, <2>1, ActorFacts
  <2>. QED
    BY <2>1, <2>2, ActorFacts, KidFacts
<1>. QED
  BY <1>1, <1>2, <1>3 DEF Loop

Effect ==
    \/ NothingMoves
    \/ \E p \in Parents : \/ Register(p) \/ SubmitterMoves(p) \/ Admits(p)
                          \/ Withdraws(p) \/ Runs(p)
    \/ \E k \in Children : KidMoves(k)
    \/ \E a \in Actors : TerminalReturns(a)
    \/ \E x \in Controllers : ControlMoves(x)

\* Every step has one of these effects.
LEMMA Effects ==
    ASSUME TypeOK, ClosedExactlyWhenComplete, SubmittersOK, RunnersOK, KillsOK,
           Sequential, StagesOK, [Next]_vars
    PROVE  Effect
<1>. USE DEF ChainStill, ControlStill, SubmittersStill, RunnersStill, KidsStill,
   registry, admission, progress, tasks, control
<1>. pc \in [Actors -> PcValues]
  BY DEF TypeOK
<1>1. CASE UNCHANGED vars
  BY <1>1 DEF vars, NothingMoves, Effect
<1>2. ASSUME NEW p \in Parents, Reject(p) \/ LockAcquired(p) \/ NotAdmitted(p)
      PROVE  SubmitterMoves(p)
  BY <1>2, ActorFacts
  DEF Reject, LockAcquired, NotAdmitted, Goto, SubmitterMoves, Queued
<1>3. ASSUME NEW p \in Parents, Admitted(p) PROVE Admits(p)
  <2>1. /\ \A q \in Parents :
             predecessor'[q] = IF q = p THEN tails[ChannelOf[p]] ELSE predecessor[q]
        /\ \A c \in Channels :
             tails'[c] = IF c = ChannelOf[p] THEN p ELSE tails[c]
    BY <1>3 DEF Admitted, TypeOK
  <2>. QED
    BY <1>3, <2>1, ActorFacts DEF Admitted, Goto, Admits
<1>4. ASSUME NEW p \in Parents, Withdrawn(p)
      PROVE  SubmitterMoves(p) \/ Withdraws(p)
  <2>1. p \notin parents
    BY <1>4, KidFacts DEF Withdrawn, Unfinished, ClosedExactlyWhenComplete
  <2>. QED
    BY <1>4, <2>1, ActorFacts
    DEF Withdrawn, Goto, SubmitterMoves, Withdraws, Queued
<1>5. ASSUME NEW p \in Parents, ChildCreated(p)
      PROVE  SubmitterMoves(p) \/ Runs(p)
  <2>. pc[Submitter(p)] = "create" /\ pc[Runner(p)] = "idle"
    BY <1>5 DEF ChildCreated, StagesOK, SubmittersOK
  <2>1. CASE /\ p \in parents /\ ~ CancellationRequested(p)
             /\ StartRunner(p)
             /\ UNCHANGED creating
    <3>1. RunnerMoves(p) /\ pc'[Submitter(p)] = "return"
      BY <2>1, StartMoves
    <3>2. Runner(p) \notin kill
      BY DEF KillsOK
    <3>. DEFINE f == [pc EXCEPT ![Submitter(p)] = "return"]
    <3>3. /\ f \in [Actors -> PcValues]
          /\ \A a \in Actors : a # Submitter(p) => f[a] = pc[a]
      BY DEF PcValues
    <3>4. CASE WaitsForPredecessor(p)
      <4>1. pc' = [f EXCEPT ![Runner(p)] = "wait"]
        BY <2>1, <3>4 DEF StartRunner, Sequential
      <4>2. pc'[Runner(p)] = "wait" /\ \A k \in KidsOf(p) : pc'[Kid(k)] = pc[Kid(k)]
        BY <3>3, <4>1, ActorFacts, KidFacts
      <4>. QED
        BY <1>5, <2>1, <3>1, <4>2 DEF ChildCreated, RunnerMoves, Runs
    <3>5. CASE ~ WaitsForPredecessor(p)
      <4>1. Loop(p, f)
        BY <2>1, <3>5 DEF StartRunner, Sequential
      <4>. HIDE DEF f
      <4>. QED
        BY <1>5, <2>1, <3>1, <3>2, <3>3, <3>5, <4>1, LoopRuns
        DEF ChildCreated, RunnerMoves, Runs
    <3>. QED
      BY <3>4, <3>5
  <2>2. CASE \/ Goto(Submitter(p), "return") \/ Goto(Submitter(p), "create")
             \/ /\ Goto(Submitter(p), "sweep") /\ p \in parents
                /\ CancellationRequested(p)
    BY <1>5, <2>2, ActorFacts DEF ChildCreated, SubmitterMoves, Goto, Queued
  <2>. QED
    BY <1>5, <2>1, <2>2 DEF ChildCreated, CreateNext
<1>6. ASSUME NEW p \in Parents, LoopContinues(p) PROVE Runs(p)
  <2>1. RunnerMoves(p) /\ pc'[Submitter(p)] = pc[Submitter(p)]
    BY <1>6, LoopMoves DEF LoopContinues
  <2>2. \/ /\ pc'[Runner(p)] = "await" /\ ~ CancellationRequested(p)
           /\ \E k \in FirstOf(KidsOf(p) \ completed) :
                \A j \in KidsOf(p) :
                  pc'[Kid(j)] = IF j = k THEN "started" ELSE pc[Kid(j)]
        \/ /\ \A k \in KidsOf(p) : pc'[Kid(k)] = pc[Kid(k)]
           /\ \/ pc'[Runner(p)] = "skip" /\ CancellationRequested(p)
              \/ pc'[Runner(p)] = "done" /\ KidsOf(p) \subseteq completed
    BY <1>6, LoopRuns DEF LoopContinues
  <2>3. /\ pc[Submitter(p)] # "create"
        /\ pc[Runner(p)] \in {"await", "skip"} \/ ~ WaitsForPredecessor(p)
        /\ pc[Runner(p)] = "await" => \A k \in KidsOf(p) : ~ KidLive(k)
    BY <1>6 DEF LoopContinues, WaitsForPredecessor, SubmittersOK
  <2>. QED
    BY <1>6, <2>1, <2>2, <2>3 DEF LoopContinues, RunnerMoves, Runs
<1>7. ASSUME NEW p \in Parents, RunnerCancelled(p) \/ RunnerEnds(p) PROVE Runs(p)
  <2>1. pc[Submitter(p)] # "create"
    BY <1>7 DEF RunnerCancelled, RunnerEnds, SubmittersOK
  <2>2. CASE RunnerCancelled(p)
    BY <2>1, <2>2, ActorFacts, KidFacts
    DEF RunnerCancelled, Unwind, Goto, Runs, StagesOK
  <2>3. CASE RunnerEnds(p)
    BY <2>1, <2>3, ActorFacts, KidFacts DEF RunnerEnds, Goto, Runs
  <2>. QED
    BY <1>7, <2>2, <2>3
<1>8. ASSUME NEW p \in Parents,
             \/ Withdraw(p) \/ RunnerSweeps(p) \/ Gathered(p)
             \/ ChildCreationFails(p) \/ SubmitterCancelled(p)
      PROVE  NothingMoves
  BY <1>8 DEF Withdraw, RunnerSweeps, Gathered, ChildCreationFails,
     SubmitterCancelled, SweepOne, NothingMoves, Sequential, StagesOK
<1>9. ASSUME NEW k \in Children,
             \/ ChildStarted(k) \/ ChildProcessed(k) \/ PredecessorClosed(k)
             \/ OutputReturns(k) \/ ChildInterrupted(k) \/ ChildEnds(k)
      PROVE  KidMoves(k)
  BY <1>9, ActorFacts
  DEF ChildStep, ChildStarted, ChildProcessed, PredecessorClosed, OutputReturns,
      ChildInterrupted, ChildEnds, Deliver, Goto, KidMoves, KidLive, KidRunning,
      Executing
<1>10. ASSUME NEW k \in Children, ChildDropped(k) PROVE NothingMoves
  BY <1>10 DEF ChildDropped, NothingMoves
<1>11. ASSUME NEW x \in Controllers, ControlSweeps(x) PROVE NothingMoves
  BY <1>11 DEF ControlSweeps, SweepOne, NothingMoves
<1>12. ASSUME NEW a \in Actors, ClosedReturns(a) PROVE NothingMoves
  BY <1>12 DEF ClosedReturns, NothingMoves
<1>13. ASSUME NEW p \in Parents, SubmitStep(p) PROVE Effect
  BY <1>2, <1>3, <1>4, <1>5, <1>8, <1>13 DEF SubmitStep, Effect
<1>14. ASSUME NEW p \in Parents, RunStep(p) PROVE Effect
  BY <1>6, <1>7, <1>8, <1>14 DEF RunStep, Effect
<1>15. ASSUME NEW k \in Children, ChildStep(k) PROVE Effect
  BY <1>9, <1>15 DEF ChildStep, Effect
<1>16. ASSUME NEW x \in Controllers, ControlStep(x) PROVE Effect
  BY <1>11, <1>16 DEF ControlStep, ControlMoves, Effect
<1>17. CASE Environment
  BY <1>2, <1>8, <1>10, <1>17 DEF Environment, ControlMoves, Effect
<1>18. ASSUME NEW a \in Actors, AdapterReturns(a) PROVE Effect
  BY <1>12, <1>18 DEF AdapterReturns, Effect
<1>. QED
  BY <1>1, <1>13, <1>14, <1>15, <1>16, <1>17, <1>18 DEF Next

\* An operation changes which turns are cancelled and blocks or unblocks a channel;
\* the lock of one channel changes hands.
Steers(x) ==
    /\ UNCHANGED <<parents, closedParents, tails, predecessor, turn, completed,
                   semantic, closed>>
    /\ SubmittersStill /\ RunnersStill /\ KidsStill
    /\ \/ UNCHANGED lockQueue
       \/ \E c \in Channels : Enqueue(Control(x), c) \/ Release(Control(x), c)
    /\ \/ \* it blocks a channel and waits for its lock
          /\ \E c \in Channels :
               /\ blocked' = blocked \cup {c}
               /\ pc[Control(x)] = "idle" /\ pc'[Control(x)] = "lock"
               /\ call'[x].channel = c
          /\ UNCHANGED <<cancelling, kill>>
       \/ \* it has the lock and selects the live turns
          \E c \in Channels :
            /\ blocked' = blocked \cup {c}
            /\ \/ pc[Control(x)] = "idle"
               \/ pc[Control(x)] = "lock" /\ call[x].channel = c
            /\ call'[x].channel = c /\ call'[x].selected = Selected(c)
            /\ cancelling' = cancelling \cup Selected(c)
            /\ kill' = kill \cup KilledWith(Selected(c))
            /\ IF \E p \in Selected(c) : RunnerLive(p)
                 THEN pc'[Control(x)] = "gather"
                 ELSE pc'[Control(x)] = "sweep"
       \/ \* their tasks have ended
          /\ UNCHANGED <<blocked, cancelling, kill, call>>
          /\ pc[Control(x)] = "gather" /\ pc'[Control(x)] = "sweep"
          /\ \A p \in call[x].selected : ~ RunnerLive(p)
       \/ \* it returns and unblocks a channel without live turns
          /\ UNCHANGED <<cancelling, kill>>
          /\ pc[Control(x)] # "gather" /\ pc'[Control(x)] = "idle"
          /\ \/ UNCHANGED blocked /\ pc[Control(x)] = "idle"
             \/ \E c \in Channels :
                  /\ blocked' \subseteq blocked \cup {c} /\ blocked \ {c} \subseteq blocked'
                  /\ Selected(c) = {}
                  /\ pc[Control(x)] # "idle" => call[x].channel = c

\* What an operation does while the owner is open.
LEMMA Steering ==
    ASSUME TypeOK, ClosedExactlyWhenComplete, SelectionsOK, OperationsOK, DrainOK,
           SparesOK, BlockedOK, OneController, ~ closed, ~ closed',
           NEW x \in Controllers, ControlMoves(x)
    PROVE  Steers(x)
<1>. USE DEF SubmittersStill, RunnersStill, KidsStill, registry, admission,
   progress, tasks, control
<1>. /\ pc \in [Actors -> PcValues] /\ call \in [Controllers -> Calls]
     /\ Control(x) \in Actors /\ parents \subseteq Parents
  BY ActorFacts DEF TypeOK
<1>0. ~ (BeginClose(x) \/ LockDrained(x) \/ CloseScope(x) \/ ScopeClosed(x)
          \/ CloseReturns(x) \/ \E c \in Channels : DrainLock(x, c))
  BY DEF BeginClose, LockDrained, CloseScope, ScopeClosed, CloseReturns, DrainLock,
     SelectionsOK
<1>1. ASSUME NEW op \in {"cancel", "closeIngress"}, NEW c \in Channels,
             CancelQueued(x, op, c)
      PROVE  Steers(x)
  BY <1>1, ActorFacts
  DEF CancelQueued, BeginsCancel, Called, Block, Goto, Call, Steers
<1>2. ASSUME NEW op \in {"cancel", "closeIngress"}, NEW c \in Channels,
             CancelStarts(x, op, c)
      PROVE  Steers(x)
  BY <1>2, ActorFacts
  DEF CancelStarts, CancelSelected, BeginsCancel, Called, Block, Goto, Call, Steers
<1>3. CASE Select(x)
  <2>1. call[x].channel \in Channels
    BY <1>3 DEF Select, SelectionsOK
  <2>. QED
    BY <1>3, <2>1, ActorFacts DEF Select, CancelSelected, Block, Goto, Call, Steers
<1>4. CASE TasksEnded(x)
  BY <1>4, ActorFacts DEF TasksEnded, Goto, Steers
<1>5. ASSUME NEW op \in {"cancel", "closeIngress"}, NEW c \in Channels,
             CancelFindsNothing(x, op, c)
      PROVE  Steers(x)
  BY <1>5 DEF CancelFindsNothing, BeginsCancel, Called, Unblock, Steers
<1>6. ASSUME NEW c \in Channels, OpenIngress(x, c) PROVE Steers(x)
  <2>1. pc[Control(x)] = "idle"
    BY <1>6 DEF OpenIngress, Called
  <2>2. blocked' = blocked \/ Selected(c) = {}
    BY <1>6, <2>1
    DEF OpenIngress, BlockedOK, Selected, OneController, CancelLabels
  <2>. QED
    BY <1>6, <2>1, <2>2 DEF OpenIngress, Called, Steers
<1>7. CASE CancelReturns(x)
  <2>. DEFINE c == call[x].channel
  <2>1. /\ c \in Channels /\ pc[Control(x)] \in {"lock", "sweep"}
        /\ pc'[Control(x)] = "idle"
    BY <1>7 DEF CancelReturns, SelectionsOK, Goto
  <2>2. Selected(c) = {}
    <3>1. CASE pc[Control(x)] = "lock"
      BY <1>7, <3>1 DEF CancelReturns
    <3>2. ASSUME pc[Control(x)] = "sweep", NEW p \in Selected(c) PROVE FALSE
      <4>1. p \in parents /\ ChannelOf[p] = c
        BY DEF Selected
      <4>2. turn[p][1] < call[x].generation
        BY <3>2, <4>1 DEF SparesOK, CancelLabels, Registered
      <4>3. p \in call[x].selected
        BY <3>2, <4>1, <4>2 DEF DrainOK
      <4>4. KidsOf(p) \subseteq completed
        BY <1>7, <3>2, <4>1, <4>3, KidFacts DEF CancelReturns, Unfinished
      <4>. QED
        BY <4>1, <4>4 DEF ClosedExactlyWhenComplete
    <3>. QED
      BY <2>1, <3>1, <3>2
  <2>3. blocked' \subseteq blocked \cup {c} /\ blocked \ {c} \subseteq blocked'
    BY <1>7 DEF CancelReturns, Unblock
  <2>. QED
    BY <1>7, <2>1, <2>2, <2>3, ActorFacts DEF CancelReturns, Goto, Steers
<1>. QED
  BY <1>0, <1>1, <1>2, <1>3, <1>4, <1>5, <1>6, <1>7 DEF ControlMoves

\* The turns of a channel are linearly ordered.
LEMMA EarlierOrder ==
    ASSUME TypeOK
    PROVE  \A p, q, r \in Parents :
             /\ ~ Earlier(p, p)
             /\ Earlier(p, q) => ~ Earlier(q, p) /\ ChannelOf[p] = ChannelOf[q]
             /\ Earlier(p, q) /\ Earlier(q, r) => Earlier(p, r)
<1>1. \A p \in Parents : turn[p][1] \in Nat /\ turn[p][2] \in Nat
  BY DEF TypeOK
<1>. QED
  BY <1>1 DEF Earlier

\* A new turn comes after all turns of its channel, and at the end of the queue.
LEMMA Registering ==
    ASSUME TypeOK, TerminalsOK, SubmittersOK, TurnsOK, TurnsOK', NEW p \in Parents,
           Register(p)
    PROVE  /\ UNCHANGED <<tails, cancelling, predecessor, completed, semantic, kill>>
           /\ ControlStill /\ RunnersStill /\ KidsStill
           /\ \A q \in Parents \ {p} : pc'[Submitter(q)] = pc[Submitter(q)]
           /\ p \notin Registered /\ ChannelOf[p] \notin blocked
           /\ pc[Submitter(p)] = "idle" /\ pc[Runner(p)] = "idle"
           /\ Registered' = Registered \cup {p}
           /\ parents \subseteq parents' /\ parents' \subseteq parents \cup {p}
           /\ \A q, r \in Registered : Earlier(q, r)' <=> Earlier(q, r)
           /\ \A q \in Registered :
                /\ ChannelOf[q] = ChannelOf[p] => Earlier(q, p)'
                /\ ~ Earlier(p, q)'
           /\ \/ parents' = parents /\ UNCHANGED lockQueue /\ ~ Queued(p)'
              \/ /\ p \in parents' /\ Queued(p)'
                 /\ Enqueue(Submitter(p), ChannelOf[p])
                 /\ pc'[Submitter(p)] =
                      IF lockQueue[ChannelOf[p]] = <<>> THEN "admitting" ELSE "lock"
<1>. DEFINE c == ChannelOf[p]
<1>. /\ pc \in [Actors -> PcValues] /\ turn \in [Parents -> Nat \X Nat]
     /\ generation \in [Channels -> Nat] /\ nextOrder \in [Channels -> Nat]
     /\ Registered \subseteq Parents /\ c \in Channels
  BY ChannelFacts DEF TypeOK, Registered
<1>. USE DEF registry, admission, progress, tasks, control
<1>1. /\ UNCHANGED <<tails, cancelling, predecessor, completed, semantic, kill>>
      /\ ControlStill /\ RunnersStill /\ KidsStill
      /\ \A q \in Parents \ {p} : pc'[Submitter(q)] = pc[Submitter(q)]
      /\ p \notin Registered /\ ChannelOf[p] \notin blocked
      /\ pc[Submitter(p)] = "idle"
  BY ActorFacts DEF Register, ControlStill, RunnersStill, KidsStill, Goto
<1>2. pc[Runner(p)] = "idle"
  BY <1>1 DEF SubmittersOK
<1>3. Registered' = Registered \cup {p} /\ parents \subseteq parents'
      /\ parents' \subseteq parents \cup {p}
  BY DEF Register, Registered
<1>4. /\ turn'[p] = <<generation[c], nextOrder[c]>>
      /\ \A q \in Parents \ {p} : turn'[q] = turn[q]
  BY DEF Register
<1>5. \A q, r \in Registered : Earlier(q, r)' <=> Earlier(q, r)
  BY <1>1, <1>4 DEF Earlier
<1>6. \A q \in Registered : ChannelOf[q] = c => Earlier(q, p)'
  BY <1>1, <1>4 DEF Earlier, TurnsOK
<1>7. \A q \in Registered : ~ Earlier(p, q)'
  <2>. SUFFICES ASSUME NEW q \in Registered, Earlier(p, q)' PROVE FALSE
    OBVIOUS
  <2>1. ChannelOf[q] = c /\ turn'[q] = turn[q]
    BY <1>1, <1>4 DEF Earlier
  <2>2. turn[q][1] \in Nat /\ turn[q][2] \in Nat /\ generation[c] \in Nat /\ nextOrder[c] \in Nat
    OBVIOUS
  <2>3. /\ turn[q][1] <= generation[c]
        /\ turn[q][1] = generation[c] => turn[q][2] < nextOrder[c]
    BY ONLY <2>1, TurnsOK, q \in Registered DEF TurnsOK
  <2>4. turn'[p][1] = generation[c] /\ turn'[p][2] = nextOrder[c]
    BY <1>4
  <2>5. \/ generation[c] < turn[q][1]
        \/ generation[c] = turn[q][1] /\ nextOrder[c] < turn[q][2]
    BY <2>1, <2>4 DEF Earlier
  <2>. QED
    BY ONLY <2>2, <2>3, <2>5
<1>8. \/ parents' = parents /\ UNCHANGED lockQueue /\ ~ Queued(p)'
      \/ /\ p \in parents' /\ Queued(p)'
         /\ Enqueue(Submitter(p), c)
         /\ pc'[Submitter(p)] = IF lockQueue[c] = <<>> THEN "admitting" ELSE "lock"
  BY ActorFacts DEF Register, Queued, Goto
<1>. QED
  BY <1>1, <1>2, <1>3, <1>5, <1>6, <1>7, <1>8

\* A report completes one child, and closes its parent when it was the last one.
LEMMA Reporting ==
    ASSUME TypeOK, ClosedExactlyWhenComplete, TerminalsOK, NEW a \in Actors,
           TerminalReturns(a)
    PROVE  /\ terminal[a] \in Children /\ terminal[a][1] \in Registered
           /\ UNCHANGED <<predecessor, turn, lockQueue, kill>>
           /\ ControlStill /\ SubmittersStill /\ RunnersStill /\ KidsStill
           /\ completed' = completed \cup {terminal[a]}
           /\ semantic' = semantic \cup {terminal[a]}
           /\ Registered' = Registered
           /\ \/ UNCHANGED <<parents, closedParents, cancelling, tails>>
              \/ /\ terminal[a][1] \in parents /\ terminal[a] \notin completed
                 /\ KidsOf(terminal[a][1]) \subseteq completed'
                 /\ parents' = parents \ {terminal[a][1]}
                 /\ closedParents' = closedParents \cup {terminal[a][1]}
                 /\ cancelling' = cancelling \ {terminal[a][1]}
                 /\ \A c \in Channels :
                      tails'[c] = IF tails[c] = terminal[a][1] THEN None ELSE tails[c]
<1>. DEFINE k == terminal[a]
<1>. USE DEF registry, admission, progress, tasks, control
<1>1. /\ k \in Children /\ k[1] \in Registered
      /\ UNCHANGED <<predecessor, turn, lockQueue, kill>>
      /\ ControlStill /\ SubmittersStill /\ RunnersStill /\ KidsStill
      /\ completed' = completed \cup {k}
      /\ semantic' = semantic \cup {k}
  BY DEF TerminalReturns, TerminalsOK, ControlStill, SubmittersStill, RunnersStill,
     KidsStill
<1>2. CASE k[1] \in parents /\ LastChild(k[1], completed')
  <2>1. CloseParent(a, k[1])
    BY <1>2 DEF TerminalReturns
  <2>2. KidsOf(k[1]) \subseteq completed'
    BY <1>2 DEF LastChild
  <2>3. k \notin completed
    <3>1. k \in completed => completed' = completed
      BY <1>1
    <3>. QED
      BY <1>2, <2>2, <3>1 DEF ClosedExactlyWhenComplete
  <2>. QED
    BY <1>1, <1>2, <2>1, <2>2, <2>3 DEF CloseParent, Registered
<1>3. CASE ~ (k[1] \in parents /\ LastChild(k[1], completed'))
  BY <1>1, <1>3 DEF TerminalReturns, Registered
<1>. QED
  BY <1>2, <1>3

\* While no channel is cancelled, a child of a live turn is reported by its own task,
\* or by the submitter that withdraws the turn.
LEMMA CalmReports ==
    ASSUME TypeOK, TerminalsOK, RolesOK, SelectionsOK, OperationsOK, SparesOK,
           StagesOK, CalmOK, ~ closed, NEW a \in Actors, terminal[a] # None,
           terminal[a][1] \in parents, Calm(terminal[a][1])
    PROVE  \/ a = Kid(terminal[a]) /\ pc[a] = "ending"
                /\ pc[Runner(terminal[a][1])] = "await"
           \/ a = Submitter(terminal[a][1]) /\ pc[a] = "withdraw"
<1>. DEFINE k == terminal[a]
            p == k[1]
<1>0. k \in Children /\ p \in Parents
  BY KidFacts DEF TerminalsOK
<1>1. ASSUME NEW q \in Parents, a = Submitter(q)
      PROVE  a = Submitter(p) /\ pc[a] = "withdraw"
  <2>1. q = p /\ pc[a] \in {"withdraw", "createFailed", "sweep"}
    BY <1>1, KidFacts DEF TerminalsOK
  <2>. QED
    BY <1>1, <2>1 DEF StagesOK, CalmOK
<1>2. ASSUME NEW q \in Parents, a = Runner(q) PROVE FALSE
  <2>1. q = p /\ pc[a] \in {"skip", "unwind"}
    BY <1>2, KidFacts DEF TerminalsOK
  <2>. QED
    BY <1>2, <2>1 DEF CalmOK
<1>3. ASSUME NEW j \in Children, a = Kid(j)
      PROVE  a = Kid(k) /\ pc[a] = "ending" /\ pc[Runner(p)] = "await"
  BY <1>3, KidFacts DEF TerminalsOK, StagesOK, KidLive
<1>4. ASSUME NEW x \in Controllers, a = Control(x) PROVE FALSE
  <2>1. p \in call[x].selected /\ pc[a] \in {"sweep", "closeSweep"}
    BY <1>4 DEF TerminalsOK
  <2>2. pc[a] = "sweep"
    BY <1>4, <2>1 DEF SelectionsOK
  <2>3. ChannelOf[p] = call[x].channel /\ call[x].channel \in blocked
    BY <1>4, <2>1, <2>2 DEF OperationsOK, SparesOK, CancelLabels
  <2>. QED
    BY <2>3 DEF Calm
<1>. QED
  BY <1>1, <1>2, <1>3, <1>4 DEF Actors

\* close() is not undone.
LEMMA ClosedStays == ASSUME TypeOK, [Next]_vars, ~ closed' PROVE ~ closed
<1>1. ASSUME NEW x \in Controllers, ControlMoves(x) PROVE closed' = closed \/ closed'
  BY <1>1 DEF ControlMoves, BeginClose, Select, TasksEnded, CancelReturns, LockDrained,
     CloseScope, ScopeClosed, CloseReturns, DrainLock, OpenIngress, CancelQueued,
     CancelStarts, CancelFindsNothing, BeginsCancel, control
<1>. QED
  BY <1>1, ControlFrame DEF ControlStill

\* A step while the owner is open, from a state in which everything holds.
OpenStep ==
    /\ Sequential /\ ~ closed /\ ~ closed'
    /\ IInv /\ IInv' /\ TurnsOK /\ TurnsOK' /\ SparesOK /\ SparesOK' /\ LineOK
    /\ [Next]_vars

\* The effects of such a step.
LEMMA OpenEffects ==
    ASSUME OpenStep
    PROVE  \/ NothingMoves
           \/ \E p \in Parents : \/ Register(p) \/ SubmitterMoves(p) \/ Admits(p)
                                 \/ Withdraws(p) \/ Runs(p)
           \/ \E k \in Children : KidMoves(k)
           \/ \E a \in Actors : TerminalReturns(a)
           \/ \E x \in Controllers : Steers(x)
<1>1. ASSUME NEW x \in Controllers, ControlMoves(x) PROVE Steers(x)
  BY <1>1, Steering DEF OpenStep, IInv, LineOK, Sequential
<1>. QED
  BY <1>1, Effects DEF OpenStep, IInv, LineOK, Effect

\* A blocked channel without a cancellation has no live turn.
LEMMA BlockedStep == ASSUME OpenStep PROVE BlockedOK'
<1>. /\ BlockedOK /\ OneController /\ TypeOK /\ TerminalsOK /\ SubmittersOK
     /\ ClosedExactlyWhenComplete /\ TurnsOK /\ TurnsOK' /\ parents \subseteq Parents
  BY DEF OpenStep, IInv, LineOK, Sequential, TypeOK
<1>. USE DEF BlockedOK, CancelLabels
<1>1. CASE ControlStill /\ parents' \subseteq parents
  BY <1>1 DEF ControlStill
<1>2. ASSUME NEW p \in Parents, Register(p) PROVE BlockedOK'
  BY <1>2, Registering DEF ControlStill
<1>3. ASSUME NEW a \in Actors, TerminalReturns(a) PROVE BlockedOK'
  BY <1>1, <1>3, Reporting
<1>4. ASSUME NEW x \in Controllers, Steers(x) PROVE BlockedOK'
  BY <1>4 DEF Steers, OneController, Selected
<1>. QED
  BY <1>1, <1>2, <1>3, <1>4, OpenEffects
  DEF NothingMoves, SubmitterMoves, Admits, Withdraws, Runs, KidMoves, ChainStill

\* No submitter is lost, no dual turn runs, and nobody is cancelled after its turn.
LEMMA StagesStep == ASSUME OpenStep PROVE StagesOK'
<1>. /\ StagesOK /\ TypeOK /\ TerminalsOK /\ SubmittersOK /\ RunnersOK
     /\ ClosedExactlyWhenComplete /\ TurnsOK /\ TurnsOK' /\ parents \subseteq Parents
     /\ TypeOK'
  BY DEF OpenStep, IInv, LineOK, TypeOK
<1>. \A p \in Parents : \A k \in KidsOf(p) : k \in Children /\ k[1] = p
  BY KidFacts
<1>. /\ \A p \in Parents : pc[Submitter(p)] \notin {"createFailed", "aborted"}
     /\ \A p \in Parents : pc[Runner(p)] # "gather"
     /\ \A p \in Parents : p \notin Registered => KidsOf(p) \cap semantic = {}
     /\ \A k \in Children : KidLive(k) => pc[Runner(k[1])] = "await"
     /\ \A k \in Children : k[1] \in Parents
     /\ completed \subseteq semantic /\ cancelling \subseteq parents
  BY KidFacts DEF StagesOK
<1>0. ASSUME \A p \in Parents : pc'[Submitter(p)] \notin {"createFailed", "aborted"},
             \A p \in Parents : pc'[Runner(p)] # "gather",
             \A p \in Parents : p \notin Registered' => KidsOf(p) \cap semantic' = {},
             \A k \in Children : KidLive(k)' => pc'[Runner(k[1])] = "await",
             completed' \subseteq semantic', cancelling' \subseteq parents'
      PROVE  StagesOK'
  BY <1>0 DEF StagesOK
<1>. USE DEF SubmittersStill, RunnersStill, KidsStill
<1>1. CASE \/ NothingMoves
           \/ \E p \in Parents : SubmitterMoves(p) \/ Admits(p) \/ Withdraws(p)
  <2>1. /\ UNCHANGED <<parents, closedParents, cancelling, completed, semantic>>
        /\ RunnersStill /\ KidsStill
        /\ \A p \in Parents : pc'[Submitter(p)] \notin {"createFailed", "aborted"}
    BY <1>1 DEF NothingMoves, SubmitterMoves, Admits, Withdraws, ChainStill
  <2>2. \A k \in Children : KidLive(k)' <=> KidLive(k)
    BY <2>1 DEF KidLive, KidRunning
  <2>3. Registered' = Registered
    BY <2>1 DEF Registered
  <2>. QED
    BY <1>0, <2>1, <2>2, <2>3
<1>2. ASSUME NEW p \in Parents, Register(p) PROVE StagesOK'
  <2>1. pc'[Submitter(p)] \notin {"createFailed", "aborted"}
    BY <1>2, ActorFacts DEF Register, Goto, TypeOK
  <2>2. /\ UNCHANGED <<cancelling, completed, semantic>>
        /\ RunnersStill /\ KidsStill /\ parents \subseteq parents'
        /\ \A q \in Parents \ {p} : pc'[Submitter(q)] = pc[Submitter(q)]
        /\ Registered \subseteq Registered'
    BY <1>2, Registering
  <2>3. \A k \in Children : KidLive(k)' <=> KidLive(k)
    BY <2>2 DEF KidLive, KidRunning
  <2>. QED
    BY <1>0, <2>1, <2>2, <2>3
<1>4. ASSUME NEW p \in Parents, Runs(p) PROVE StagesOK'
  <2>1. /\ UNCHANGED <<parents, closedParents, cancelling, completed, semantic>>
        /\ \A q \in Parents : pc'[Submitter(q)] \in {pc[Submitter(q)], "return"}
        /\ \A q \in Parents \ {p} : pc'[Runner(q)] = pc[Runner(q)]
        /\ pc'[Runner(p)] # "gather"
        /\ \A k \in Children : k[1] # p => pc'[Kid(k)] = pc[Kid(k)]
    BY <1>4 DEF Runs, ChainStill
  <2>2. \A k \in KidsOf(p) : KidLive(k)' => pc'[Runner(p)] = "await"
    BY <1>4 DEF Runs, KidLive, KidRunning
  <2>3. \A k \in Children : KidLive(k)' => pc'[Runner(k[1])] = "await"
    <3>. SUFFICES ASSUME NEW k \in Children, KidLive(k)'
                  PROVE  pc'[Runner(k[1])] = "await"
      OBVIOUS
    <3>1. CASE k[1] = p
      BY <2>2, <3>1, KidFacts
    <3>2. CASE k[1] # p
      BY <2>1, <3>2 DEF KidLive, KidRunning
    <3>. QED
      BY <3>1, <3>2
  <2>4. Registered' = Registered
    BY <2>1 DEF Registered
  <2>. QED
    BY <1>0, <2>1, <2>3, <2>4
<1>5. ASSUME NEW k \in Children, KidMoves(k) PROVE StagesOK'
  <2>1. k[1] \in Registered /\ k[1] \in Parents
    BY <1>5, KidFacts DEF KidMoves, RunnersOK, KidLive, KidRunning
  <2>2. \A j \in Children : KidLive(j)' => KidLive(j)
    BY <1>5 DEF KidMoves, KidLive, KidRunning
  <2>3. /\ UNCHANGED <<parents, closedParents, cancelling, completed>>
        /\ SubmittersStill /\ RunnersStill /\ semantic \subseteq semantic'
        /\ semantic' \subseteq semantic \cup {k}
    BY <1>5 DEF KidMoves, ChainStill
  <2>4. Registered' = Registered
    BY <2>3 DEF Registered
  <2>. QED
    BY <1>0, <2>1, <2>2, <2>3, <2>4
<1>6. ASSUME NEW a \in Actors, TerminalReturns(a) PROVE StagesOK'
  <2>1. \A j \in Children : KidLive(j)' <=> KidLive(j)
    BY <1>6, Reporting DEF KidLive, KidRunning
  <2>2. cancelling' \subseteq parents'
    BY <1>6, Reporting
  <2>3. completed' \subseteq semantic'
    BY <1>6, Reporting
  <2>4. \A p \in Parents : p \notin Registered' => KidsOf(p) \cap semantic' = {}
    BY <1>6, Reporting
  <2>5. SubmittersStill /\ RunnersStill
    BY <1>6, Reporting
  <2>. QED
    BY <1>0, <2>1, <2>2, <2>3, <2>4, <2>5
<1>7. ASSUME NEW x \in Controllers, Steers(x) PROVE StagesOK'
  <2>1. cancelling' \subseteq parents'
    BY <1>7 DEF Steers, Selected
  <2>2. /\ UNCHANGED <<parents, closedParents, completed, semantic>>
        /\ SubmittersStill /\ RunnersStill /\ KidsStill
    BY <1>7 DEF Steers
  <2>3. \A k \in Children : KidLive(k)' <=> KidLive(k)
    BY <2>2 DEF KidLive, KidRunning
  <2>4. Registered' = Registered
    BY <2>2 DEF Registered
  <2>. QED
    BY <1>0, <2>1, <2>2, <2>3, <2>4
<1>. QED
  BY <1>1, <1>2, <1>4, <1>5, <1>6, <1>7, OpenEffects

\* A turn of a calm channel is neither cancelled nor skipped.
LEMMA CalmStep == ASSUME OpenStep PROVE CalmOK'
<1>. /\ CalmOK /\ StagesOK /\ TypeOK /\ TerminalsOK /\ SubmittersOK /\ RunnersOK
     /\ KillsOK /\ BlockedOK /\ SelectionsOK /\ ~ closed /\ OneController
     /\ ClosedExactlyWhenComplete /\ TurnsOK /\ TurnsOK' /\ parents \subseteq Parents
  BY DEF OpenStep, IInv, LineOK, TypeOK, Sequential
<1>. USE DEF CalmOK, Calm, SubmittersStill, RunnersStill, KidsStill
<1>. \A p \in Parents : \A k \in KidsOf(p) : k \in Children /\ k[1] = p
  BY KidFacts
<1>1. CASE NothingMoves
  BY <1>1 DEF NothingMoves, ChainStill, ControlStill
<1>2. ASSUME NEW p \in Parents, Register(p) PROVE CalmOK'
  <2>1. /\ p \notin cancelling /\ Runner(p) \notin kill
        /\ \A k \in KidsOf(p) : Kid(k) \notin kill
    BY <1>2, Registering DEF StagesOK, KillsOK, RunnersOK, Registered
  <2>2. pc'[Submitter(p)] # "sweep"
    BY <1>2, ActorFacts DEF Register, Goto, TypeOK
  <2>3. pc'[Runner(p)] = "idle"
    BY <1>2, Registering
  <2>. QED
    BY <1>2, <2>1, <2>2, <2>3, Registering, KidFacts DEF ControlStill
<1>3. ASSUME NEW p \in Parents, SubmitterMoves(p) \/ Admits(p) \/ Withdraws(p)
      PROVE  CalmOK'
  BY <1>3 DEF SubmitterMoves, Admits, Withdraws, ChainStill, ControlStill,
     CancellationRequested
<1>4. ASSUME NEW p \in Parents, Runs(p) PROVE CalmOK'
  <2>1. /\ UNCHANGED <<parents, cancelling, blocked>>
        /\ \A q \in Parents : pc'[Submitter(q)] \in {pc[Submitter(q)], "return"}
        /\ \A q \in Parents \ {p} : pc'[Runner(q)] = pc[Runner(q)]
        /\ kill' \subseteq kill
    BY <1>4 DEF Runs, ChainStill, ControlStill
  <2>2. p \in parents /\ pc'[Runner(p)] \in {"unwind", "done"} => p \in cancelling
    BY <1>4 DEF Runs, ClosedExactlyWhenComplete
  <2>3. p \in parents /\ pc'[Runner(p)] = "skip" => p \in cancelling \/ ~ Calm(p)
    BY <1>4 DEF Runs, CancellationRequested
  <2>. QED
    BY <2>1, <2>2, <2>3
<1>5. ASSUME NEW k \in Children, KidMoves(k) PROVE CalmOK'
  BY <1>5 DEF KidMoves, ChainStill, ControlStill
<1>6. ASSUME NEW a \in Actors, TerminalReturns(a) PROVE CalmOK'
  BY <1>6, Reporting DEF ControlStill
<1>7. ASSUME NEW x \in Controllers, Steers(x) PROVE CalmOK'
  <2>0. /\ UNCHANGED parents /\ SubmittersStill /\ RunnersStill
        /\ cancelling \subseteq cancelling'
    BY <1>7 DEF Steers
  <2>1. ASSUME NEW c \in Channels, blocked' = blocked \cup {c},
               cancelling' = cancelling \cup Selected(c),
               kill' = kill \cup KilledWith(Selected(c))
        PROVE  CalmOK'
    <3>1. Selected(c) \subseteq Parents /\ Selected(c) \in SUBSET Parents
      BY DEF Selected
    <3>2. \A q \in Parents : Runner(q) \in kill' => Runner(q) \in kill \/ q \in Selected(c)
      BY <2>1, <3>1, KilledFacts
    <3>3. \A k \in Children : Kid(k) \in kill' => Kid(k) \in kill \/ k[1] \in Selected(c)
      BY <2>1, <3>1, KilledFacts
    <3>. QED
      BY <2>0, <2>1, <3>2, <3>3 DEF Selected
  <2>2. CASE UNCHANGED <<cancelling, kill>>
    <3>1. \A q \in parents : ChannelOf[q] \notin blocked' => ChannelOf[q] \notin blocked
      BY <1>7 DEF Steers, Selected, BlockedOK, OneController, CancelLabels
    <3>. QED
      BY <2>0, <2>2, <3>1
  <2>. QED
    BY <1>7, <2>1, <2>2 DEF Steers
<1>. QED
  BY <1>1, <1>2, <1>3, <1>4, <1>5, <1>6, <1>7, OpenEffects

\* The holder of a lock is first in its queue.
LEMMA HoldsFacts ==
    ASSUME TypeOK, NEW c \in Channels
    PROVE  /\ \A i \in DOMAIN lockQueue[c] : i \in Nat /\ i >= 1
           /\ \A i \in DOMAIN lockQueue[c] : 1 \in DOMAIN lockQueue[c]
           /\ \A a : Holds(a, c) <=> 1 \in DOMAIN lockQueue[c] /\ lockQueue[c][1] = a
<1>1. lockQueue[c] \in Seq(Actors)
  BY DEF TypeOK
<1>2. /\ Len(lockQueue[c]) \in Nat /\ DOMAIN lockQueue[c] = 1 .. Len(lockQueue[c])
      /\ lockQueue[c] # <<>> <=> Len(lockQueue[c]) # 0
  BY <1>1, LenProperties, EmptySeq
<1>3. lockQueue[c] # <<>> => Head(lockQueue[c]) = lockQueue[c][1]
  BY <1>1, HeadTailProperties
<1>. QED
  BY <1>2, <1>3 DEF Holds

\* Asking for a lock puts a task at the end of its queue.
LEMMA Enqueued ==
    ASSUME TypeOK, NEW a \in Actors, NEW c \in Channels, Enqueue(a, c)
    PROVE  /\ \A d \in Channels : d # c => lockQueue'[d] = lockQueue[d]
           /\ \A i \in DOMAIN lockQueue[c] :
                i \in DOMAIN lockQueue'[c] /\ lockQueue'[c][i] = lockQueue[c][i]
           /\ \A i \in DOMAIN lockQueue'[c] :
                \/ i \in DOMAIN lockQueue[c]
                \/ lockQueue'[c][i] = a /\ (\A j \in DOMAIN lockQueue'[c] : j <= i)
           /\ \E i \in DOMAIN lockQueue'[c] : lockQueue'[c][i] = a
           /\ lockQueue[c] = <<>> =>
                1 \in DOMAIN lockQueue'[c] /\ lockQueue'[c][1] = a
<1>1. lockQueue[c] \in Seq(Actors) /\ lockQueue'[c] = Append(lockQueue[c], a)
      /\ \A d \in Channels : d # c => lockQueue'[d] = lockQueue[d]
  BY DEF TypeOK, Enqueue
<1>. DEFINE q == lockQueue[c]
<1>2. Len(q) \in Nat /\ DOMAIN q = 1 .. Len(q)
  BY <1>1, LenProperties
<1>3. /\ Append(q, a) \in Seq(Actors) /\ Len(Append(q, a)) = Len(q) + 1
      /\ \A i \in 1 .. Len(q) : Append(q, a)[i] = q[i]
      /\ Append(q, a)[Len(q) + 1] = a
  BY <1>1, AppendProperties
<1>4. DOMAIN Append(q, a) = 1 .. Len(q) + 1
  BY <1>3, LenProperties
<1>5. q = <<>> => Len(q) = 0
  BY EmptySeq
<1>. HIDE DEF q
<1>. QED
  BY <1>1, <1>2, <1>3, <1>4, <1>5 DEF q

\* Leaving a lock hands it to the next one in its queue.
LEMMA Released ==
    ASSUME TypeOK, NEW a, NEW c \in Channels, Release(a, c)
    PROVE  /\ 1 \in DOMAIN lockQueue[c] /\ lockQueue[c][1] = a
           /\ \A d \in Channels : d # c => lockQueue'[d] = lockQueue[d]
           /\ \A i \in DOMAIN lockQueue'[c] :
                i \in Nat /\ i + 1 \in DOMAIN lockQueue[c]
                  /\ lockQueue'[c][i] = lockQueue[c][i + 1]
           /\ \A i \in DOMAIN lockQueue[c] :
                i # 1 => i - 1 \in DOMAIN lockQueue'[c]
                           /\ lockQueue'[c][i - 1] = lockQueue[c][i]
<1>1. /\ lockQueue[c] \in Seq(Actors) /\ lockQueue[c] # <<>>
      /\ lockQueue'[c] = Tail(lockQueue[c])
      /\ \A d \in Channels : d # c => lockQueue'[d] = lockQueue[d]
  BY DEF TypeOK, Release, Holds
<1>. DEFINE q == lockQueue[c]
<1>2. /\ Len(q) \in Nat /\ DOMAIN q = 1 .. Len(q)
  BY <1>1, LenProperties
<1>3. /\ Tail(q) \in Seq(Actors) /\ Len(Tail(q)) = Len(q) - 1
      /\ \A i \in 1 .. Len(Tail(q)) : Tail(q)[i] = q[i + 1]
  BY <1>1, HeadTailProperties
<1>4. DOMAIN Tail(q) = 1 .. Len(q) - 1
  BY <1>3, LenProperties
<1>5. Holds(a, c)
  BY DEF Release
<1>6. 1 \in DOMAIN q /\ q[1] = a
  BY <1>5, HoldsFacts
<1>. HIDE DEF q
<1>7. \A i \in DOMAIN Tail(q) : i \in Nat /\ i + 1 \in DOMAIN q /\ Tail(q)[i] = q[i + 1]
  BY <1>2, <1>3, <1>4
<1>8. \A i \in DOMAIN q : i # 1 => i - 1 \in DOMAIN Tail(q) /\ Tail(q)[i - 1] = q[i]
  <2>. TAKE i \in DOMAIN q
  <2>. HAVE i # 1
  <2>1. i \in Nat /\ i - 1 \in 1 .. Len(q) - 1 /\ (i - 1) + 1 = i
    BY <1>2
  <2>. QED
    BY <1>3, <1>4, <2>1
<1>. QED
  BY <1>1, <1>6, <1>7, <1>8 DEF q

\* Leaving the lock leaves the rest of its queue in order.
LEMMA ReleaseKeepsQueues ==
    ASSUME TypeOK, QueuesOK, NEW a \in Actors, NEW c \in Channels, Release(a, c),
           UNCHANGED turn,
           \A p \in Parents : IF a = Submitter(p) THEN ~ Queued(p)'
                              ELSE pc'[Submitter(p)] = pc[Submitter(p)]
    PROVE  QueuesOK'
<1>. DEFINE q == lockQueue[c]
<1>0. /\ 1 \in DOMAIN lockQueue[c] /\ lockQueue[c][1] = a
      /\ \A d \in Channels : d # c => lockQueue'[d] = lockQueue[d]
      /\ \A i \in DOMAIN lockQueue'[c] :
           i \in Nat /\ i + 1 \in DOMAIN lockQueue[c]
             /\ lockQueue'[c][i] = lockQueue[c][i + 1]
      /\ \A i \in DOMAIN lockQueue[c] :
           i # 1 => i - 1 \in DOMAIN lockQueue'[c]
                      /\ lockQueue'[c][i - 1] = lockQueue[c][i]
  BY Released
<1>a. \A p \in Parents : ChannelOf[p] \in Channels /\ Submitter(p) \in Actors
  BY ChannelFacts, ActorFacts
<1>b. \A i \in DOMAIN q : i \in Nat /\ i >= 1
  BY HoldsFacts
<1>c. 0 \notin DOMAIN lockQueue'[c]
  <2>1. \A s \in Seq(Actors) : 0 \notin DOMAIN Tail(s)
    OBVIOUS
  <2>. QED
    BY <2>1 DEF TypeOK, Release, Holds
<1>1. \A p, r \in Parents : Earlier(p, r)' <=> Earlier(p, r)
  BY DEF Earlier
<1>2. \A p \in Parents : a = Submitter(p) =>
        ChannelOf[p] = c /\ \A i \in DOMAIN q : i # 1 => q[i] # a
  <2>. SUFFICES ASSUME NEW p \in Parents, a = Submitter(p)
                PROVE  ChannelOf[p] = c /\ \A i \in DOMAIN q : i # 1 => q[i] # a
    OBVIOUS
  <2>1. ChannelOf[p] = c
    BY <1>0 DEF QueuesOK
  <2>2. ASSUME NEW i \in DOMAIN q, i # 1, q[i] = a PROVE FALSE
    <3>1. i > 1
      BY <1>b, <2>2
    <3>2. Earlier(p, p)
      BY <1>0, <2>2, <3>1 DEF QueuesOK
    <3>. QED
      BY <3>2, EarlierOrder
  <2>. QED
    BY <2>1, <2>2
<1>3. ASSUME NEW p \in Parents, Queued(p)'
      PROVE  /\ Queued(p) /\ a # Submitter(p) /\ pc'[Submitter(p)] = pc[Submitter(p)]
             /\ \E i \in DOMAIN lockQueue'[ChannelOf[p]] :
                  lockQueue'[ChannelOf[p]][i] = Submitter(p)
  <2>1. a # Submitter(p) /\ pc'[Submitter(p)] = pc[Submitter(p)]
    BY <1>3
  <2>2. Queued(p)
    BY <1>3, <2>1 DEF Queued
  <2>3. PICK i \in DOMAIN lockQueue[ChannelOf[p]] :
               lockQueue[ChannelOf[p]][i] = Submitter(p)
    BY <2>2 DEF QueuesOK
  <2>4. CASE ChannelOf[p] = c
    <3>1. i # 1
      BY <1>0, <2>1, <2>3, <2>4
    <3>. QED
      BY <1>0, <2>1, <2>2, <2>3, <2>4, <3>1
  <2>5. CASE ChannelOf[p] # c
    BY <1>0, <1>a, <2>1, <2>2, <2>3, <2>5
  <2>. QED
    BY <2>4, <2>5
<1>4. ASSUME NEW p \in Parents, pc'[Submitter(p)] \in {"admitting", "withdraw"}
      PROVE  Holds(Submitter(p), ChannelOf[p])'
  <2>1. Queued(p)'
    BY <1>4 DEF Queued
  <2>2. Holds(Submitter(p), ChannelOf[p])
    BY <1>3, <1>4, <2>1 DEF QueuesOK
  <2>3. ChannelOf[p] # c
    BY <1>0, <1>3, <2>1, <2>2, HoldsFacts
  <2>. QED
    BY <1>0, <1>a, <2>2, <2>3 DEF Holds
<1>5. ASSUME NEW d \in Channels, NEW i \in DOMAIN lockQueue'[d], NEW p \in Parents,
             lockQueue'[d][i] = Submitter(p)
      PROVE  /\ Queued(p)' /\ ChannelOf[p] = d
             /\ \A j \in DOMAIN lockQueue'[d] : \A r \in Parents :
                  j > i /\ lockQueue'[d][j] = Submitter(r) => Earlier(p, r)'
  <2>1. CASE d # c
    <3>1. lockQueue'[d] = lockQueue[d]
      BY <1>0, <2>1
    <3>2. Queued(p) /\ ChannelOf[p] = d
      BY <1>5, <3>1 DEF QueuesOK
    <3>3. a # Submitter(p)
      BY <1>2, <2>1, <3>2
    <3>4. Queued(p)'
      BY <3>2, <3>3 DEF Queued
    <3>. QED
      BY <1>1, <1>5, <3>1, <3>2, <3>4 DEF QueuesOK
  <2>2. CASE d = c
    <3>0. i \in DOMAIN lockQueue'[c] /\ lockQueue'[c][i] = Submitter(p)
      BY <1>5, <2>2
    <3>1. i \in Nat /\ i + 1 \in DOMAIN q /\ q[i + 1] = Submitter(p) /\ i + 1 # 1
      <4>1. i \in Nat /\ i + 1 \in DOMAIN q /\ lockQueue'[c][i] = q[i + 1]
        BY <1>0, <3>0
      <4>2. i + 1 \in Nat /\ i + 1 >= 1 /\ i \in DOMAIN lockQueue'[c]
        BY <1>b, <3>0, <4>1
      <4>3. i # 0
        BY <3>0, <1>c
      <4>. QED
        BY <3>0, <4>1, <4>2, <4>3
    <3>2. Queued(p) /\ ChannelOf[p] = d
      BY <2>2, <3>1 DEF QueuesOK
    <3>3. a # Submitter(p)
      BY <1>2, <3>1
    <3>4. Queued(p)'
      BY <3>2, <3>3 DEF Queued
    <3>5. ASSUME NEW j \in DOMAIN lockQueue'[d], NEW r \in Parents, j > i,
                 lockQueue'[d][j] = Submitter(r)
          PROVE  Earlier(p, r)'
      <4>1. j \in Nat /\ j + 1 \in DOMAIN q /\ q[j + 1] = Submitter(r)
        BY <1>0, <2>2, <3>5
      <4>2. j + 1 > i + 1
        BY <3>1, <3>5, <4>1
      <4>3. Earlier(p, r)
        BY <2>2, <3>1, <4>1, <4>2 DEF QueuesOK
      <4>. QED
        BY <1>1, <4>3
    <3>. QED
      BY <3>2, <3>4, <3>5
  <2>. QED
    BY <2>1, <2>2
<1>. QED
  BY <1>3, <1>4, <1>5 DEF QueuesOK

\* An operation that asks for a lock waits behind the submitters.
LEMMA EnqueueKeepsQueues ==
    ASSUME TypeOK, QueuesOK, NEW x \in Controllers, NEW c \in Channels,
           Enqueue(Control(x), c), UNCHANGED turn, SubmittersStill
    PROVE  QueuesOK'
<1>0. /\ \A d \in Channels : d # c => lockQueue'[d] = lockQueue[d]
      /\ \A i \in DOMAIN lockQueue[c] :
           i \in DOMAIN lockQueue'[c] /\ lockQueue'[c][i] = lockQueue[c][i]
      /\ \A i \in DOMAIN lockQueue'[c] :
           \/ i \in DOMAIN lockQueue[c]
           \/ lockQueue'[c][i] = Control(x)
  BY Enqueued, ActorFacts
<1>1. \A d \in Channels :
        /\ \A i \in DOMAIN lockQueue[d] :
             i \in DOMAIN lockQueue'[d] /\ lockQueue'[d][i] = lockQueue[d][i]
        /\ \A i \in DOMAIN lockQueue'[d] : \A p \in Parents :
             lockQueue'[d][i] = Submitter(p) =>
               i \in DOMAIN lockQueue[d] /\ lockQueue[d][i] = Submitter(p)
  BY <1>0, ActorFacts
<1>2. \A p \in Parents : pc'[Submitter(p)] = pc[Submitter(p)] /\ ChannelOf[p] \in Channels
  BY ChannelFacts DEF SubmittersStill
<1>3. \A p, r \in Parents : Earlier(p, r)' <=> Earlier(p, r)
  BY DEF Earlier
<1>4. \A p \in Parents : Queued(p)' <=> Queued(p)
  BY <1>2 DEF Queued
<1>5. \A p \in Parents : Holds(Submitter(p), ChannelOf[p]) =>
                           Holds(Submitter(p), ChannelOf[p])'
  <2>. SUFFICES ASSUME NEW p \in Parents, Holds(Submitter(p), ChannelOf[p])
                PROVE  Holds(Submitter(p), ChannelOf[p])'
    OBVIOUS
  <2>1. CASE ChannelOf[p] # c
    BY <1>0, <1>2, <2>1 DEF Holds
  <2>2. CASE ChannelOf[p] = c
    <3>1. lockQueue[c] \in Seq(Actors) /\ lockQueue'[c] = Append(lockQueue[c], Control(x))
          /\ lockQueue[c] # <<>> /\ Head(lockQueue[c]) = Submitter(p)
      BY <2>2 DEF TypeOK, Enqueue, Holds
    <3>2. lockQueue'[c] # <<>> /\ Head(lockQueue'[c]) = Head(lockQueue[c])
      BY <3>1, ActorFacts, AppendProperties, HeadTailProperties, EmptySeq
    <3>. QED
      BY <2>2, <3>1, <3>2 DEF Holds
  <2>. QED
    BY <2>1, <2>2
<1>. QED
  BY <1>1, <1>2, <1>3, <1>4, <1>5 DEF QueuesOK

\* A step that leaves the lock queues alone lets a submitter go on only with the lock.
LEMMA QueuesKept ==
    ASSUME QueuesOK, UNCHANGED <<lockQueue, turn>>,
           \A p \in Parents : Queued(p)' <=> Queued(p),
           \A p \in Parents : pc'[Submitter(p)] \in {"admitting", "withdraw"} =>
                Holds(Submitter(p), ChannelOf[p])
    PROVE  QueuesOK'
<1>1. \A p, q \in Parents : Earlier(p, q)' <=> Earlier(p, q)
  BY DEF Earlier
<1>2. \A p \in Parents : Holds(Submitter(p), ChannelOf[p])' <=>
                           Holds(Submitter(p), ChannelOf[p])
  BY DEF Holds
<1>. QED
  BY <1>1, <1>2 DEF QueuesOK

\* A new turn queues up behind the turns of its channel.
LEMMA RegisterKeepsQueues ==
    ASSUME TypeOK, TerminalsOK, SubmittersOK, TurnsOK, TurnsOK', QueuesOK,
           NEW p \in Parents, Register(p)
    PROVE  QueuesOK'
<1>. DEFINE c == ChannelOf[p]
<1>. c \in Channels /\ \A q \in Parents : ChannelOf[q] \in Channels /\ Submitter(q) \in Actors
  BY ChannelFacts, ActorFacts
<1>1. \A q \in Parents \ {p} : pc'[Submitter(q)] = pc[Submitter(q)]
  BY Registering
<1>2. /\ pc[Submitter(p)] = "idle" /\ ~ Queued(p)
      /\ \A d \in Channels : \A i \in DOMAIN lockQueue[d] : lockQueue[d][i] # Submitter(p)
  BY Registering DEF Queued, QueuesOK
<1>3. \A q \in Parents \ {p} : Queued(q)' <=> Queued(q)
  BY <1>1 DEF Queued
<1>4. \A q \in Parents : Queued(q) => q \in Registered /\ q # p
  BY <1>2 DEF Queued, SubmittersOK
<1>5. \A q, r \in Registered : Earlier(q, r)' <=> Earlier(q, r)
  BY Registering
<1>6. CASE UNCHANGED lockQueue /\ ~ Queued(p)'
  <2>1. \A q \in Parents : Queued(q)' <=> Queued(q)
    BY <1>2, <1>3, <1>6
  <2>2. \A q \in Parents : pc'[Submitter(q)] \in {"admitting", "withdraw"} =>
          Holds(Submitter(q), ChannelOf[q])
    <3>1. \A q \in Parents : pc'[Submitter(q)] \in {"admitting", "withdraw"} =>
            Queued(q)' /\ q # p
      BY <1>6 DEF Queued
    <3>. QED
      BY <1>1, <3>1 DEF QueuesOK
  <2>3. \A q \in Parents : Holds(Submitter(q), ChannelOf[q])' <=>
                             Holds(Submitter(q), ChannelOf[q])
    BY <1>6 DEF Holds
  <2>4. \A d \in Channels : \A i \in DOMAIN lockQueue[d] : \A q \in Parents :
          lockQueue[d][i] = Submitter(q) =>
            /\ Queued(q) /\ ChannelOf[q] = d
            /\ \A j \in DOMAIN lockQueue[d] : \A r \in Parents :
                 j > i /\ lockQueue[d][j] = Submitter(r) =>
                   Queued(r) /\ Earlier(q, r)
    BY DEF QueuesOK
  <2>5. \A d \in Channels : \A i \in DOMAIN lockQueue[d] : \A q \in Parents :
          lockQueue[d][i] = Submitter(q) =>
            /\ Queued(q)' /\ ChannelOf[q] = d
            /\ \A j \in DOMAIN lockQueue[d] : \A r \in Parents :
                 j > i /\ lockQueue[d][j] = Submitter(r) => Earlier(q, r)'
    BY <1>4, <1>5, <2>1, <2>4
  <2>. QED
    BY <1>6, <2>1, <2>2, <2>3, <2>5 DEF QueuesOK
<1>7. CASE /\ p \in parents' /\ Queued(p)'
           /\ Enqueue(Submitter(p), c)
           /\ pc'[Submitter(p)] = IF lockQueue[c] = <<>> THEN "admitting" ELSE "lock"
  <2>1. /\ \A d \in Channels : d # c => lockQueue'[d] = lockQueue[d]
        /\ \A i \in DOMAIN lockQueue[c] :
             i \in DOMAIN lockQueue'[c] /\ lockQueue'[c][i] = lockQueue[c][i]
        /\ \A i \in DOMAIN lockQueue'[c] :
             \/ i \in DOMAIN lockQueue[c]
             \/ lockQueue'[c][i] = Submitter(p) /\ (\A j \in DOMAIN lockQueue'[c] : j <= i)
        /\ \E i \in DOMAIN lockQueue'[c] : lockQueue'[c][i] = Submitter(p)
        /\ lockQueue[c] = <<>> =>
             1 \in DOMAIN lockQueue'[c] /\ lockQueue'[c][1] = Submitter(p)
    BY <1>7, Enqueued
  <2>2. \A d \in Channels : \A i \in DOMAIN lockQueue[d] :
          i \in DOMAIN lockQueue'[d] /\ lockQueue'[d][i] = lockQueue[d][i]
    BY <2>1
  <2>3. ASSUME NEW q \in Parents, Queued(q)'
        PROVE  \E i \in DOMAIN lockQueue'[ChannelOf[q]] :
                 lockQueue'[ChannelOf[q]][i] = Submitter(q)
    <3>1. CASE q = p
      BY <2>1, <3>1
    <3>2. CASE q # p
      BY <1>3, <2>2, <2>3, <3>2 DEF QueuesOK
    <3>. QED
      BY <3>1, <3>2
  <2>4. /\ lockQueue \in [Channels -> Seq(Actors)]
        /\ lockQueue'[c] = Append(lockQueue[c], Submitter(p))
    BY <1>7 DEF TypeOK, Enqueue
  <2>5. ASSUME NEW q \in Parents, pc'[Submitter(q)] \in {"admitting", "withdraw"}
        PROVE  Holds(Submitter(q), ChannelOf[q])'
    <3>1. CASE q = p
      <4>1. lockQueue[c] = <<>>
        BY <1>7, <2>5, <3>1
      <4>2. lockQueue'[c] = Append(<<>>, Submitter(p))
        BY <2>4, <4>1
      <4>3. lockQueue'[c] # <<>> /\ Head(lockQueue'[c]) = Submitter(p)
        BY <4>2
      <4>. QED
        BY <3>1, <4>3 DEF Holds
    <3>2. CASE q # p
      <4>1. Holds(Submitter(q), ChannelOf[q])
        BY <1>1, <2>5, <3>2 DEF QueuesOK
      <4>2. CASE ChannelOf[q] = c
        <5>1. lockQueue[c] # <<>> /\ Head(lockQueue[c]) = Submitter(q)
          BY <4>1, <4>2 DEF Holds
        <5>2. lockQueue'[c] # <<>> /\ Head(lockQueue'[c]) = Head(lockQueue[c])
          BY <2>4, <5>1, AppendProperties, HeadTailProperties, EmptySeq
        <5>. QED
          BY <4>2, <5>1, <5>2 DEF Holds
      <4>3. CASE ChannelOf[q] # c
        BY <2>1, <4>1, <4>3 DEF Holds
      <4>. QED
        BY <4>2, <4>3
    <3>. QED
      BY <3>1, <3>2
  <2>6. ASSUME NEW d \in Channels, NEW i \in DOMAIN lockQueue'[d], NEW q \in Parents,
               lockQueue'[d][i] = Submitter(q)
        PROVE  \/ q = p /\ d = c /\ \A j \in DOMAIN lockQueue'[d] : j <= i
               \/ q # p /\ i \in DOMAIN lockQueue[d] /\ lockQueue[d][i] = Submitter(q)
    <3>1. CASE i \in DOMAIN lockQueue[d]
      BY <1>2, <2>2, <2>6, <3>1
    <3>2. CASE i \notin DOMAIN lockQueue[d]
      <4>1. d = c
        BY <2>1, <3>2
      <4>. QED
        BY <2>1, <2>6, <3>2, <4>1, ActorFacts
    <3>. QED
      BY <3>1, <3>2
  <2>7. ASSUME NEW d \in Channels, NEW i \in DOMAIN lockQueue'[d], NEW q \in Parents,
               lockQueue'[d][i] = Submitter(q)
        PROVE  /\ Queued(q)' /\ ChannelOf[q] = d
               /\ \A j \in DOMAIN lockQueue'[d] : \A r \in Parents :
                    j > i /\ lockQueue'[d][j] = Submitter(r) => Earlier(q, r)'
    <3>1. CASE q = p /\ d = c /\ \A j \in DOMAIN lockQueue'[d] : j <= i
      <4>1. \A j \in DOMAIN lockQueue'[d] : ~ (j > i)
        <5>1. i \in Nat /\ \A j \in DOMAIN lockQueue'[d] : j \in Nat
          BY <2>4, <3>1
        <5>. QED
          BY <3>1, <5>1
      <4>. QED
        BY <1>7, <3>1, <4>1
    <3>2. CASE q # p /\ i \in DOMAIN lockQueue[d] /\ lockQueue[d][i] = Submitter(q)
      <4>1. Queued(q) /\ ChannelOf[q] = d
        BY <3>2 DEF QueuesOK
      <4>2. ASSUME NEW j \in DOMAIN lockQueue'[d], NEW r \in Parents, j > i,
                   lockQueue'[d][j] = Submitter(r)
            PROVE  Earlier(q, r)'
        <5>1. CASE r = p /\ d = c
          BY <1>4, <4>1, <5>1, Registering
        <5>2. CASE j \in DOMAIN lockQueue[d] /\ lockQueue[d][j] = Submitter(r)
          <6>1. Earlier(q, r) /\ Queued(r)
            BY <3>2, <4>2, <5>2 DEF QueuesOK
          <6>. QED
            BY <1>4, <1>5, <4>1, <6>1
        <5>. QED
          BY <2>6, <4>2, <5>1, <5>2
      <4>. QED
        BY <1>3, <3>2, <4>1, <4>2
    <3>. QED
      BY <2>6, <2>7, <3>1, <3>2
  <2>. QED
    BY <2>3, <2>5, <2>7 DEF QueuesOK
<1>. QED
  BY <1>6, <1>7, Registering

\* The admission lock stays a queue in the order of the turns.
LEMMA QueuesStep == ASSUME OpenStep PROVE QueuesOK'
<1>. /\ QueuesOK /\ TypeOK /\ TerminalsOK /\ SubmittersOK
     /\ ClosedExactlyWhenComplete /\ TurnsOK /\ TurnsOK' /\ OneController
  BY DEF OpenStep, IInv, LineOK, Sequential
<1>1. ASSUME UNCHANGED <<lockQueue, turn>>, SubmittersStill PROVE QueuesOK'
  <2>1. \A p \in Parents : Queued(p)' <=> Queued(p)
    BY <1>1 DEF SubmittersStill, Queued
  <2>2. \A p \in Parents : pc'[Submitter(p)] \in {"admitting", "withdraw"} =>
          Holds(Submitter(p), ChannelOf[p])
    BY <1>1 DEF SubmittersStill, QueuesOK
  <2>. QED
    BY <1>1, <2>1, <2>2, QueuesKept
<1>2. ASSUME NEW p \in Parents, SubmitterMoves(p) PROVE QueuesOK'
  <2>1. UNCHANGED <<lockQueue, turn>>
    BY <1>2 DEF SubmitterMoves, ChainStill
  <2>2. \A q \in Parents : Queued(q)' <=> Queued(q)
    BY <1>2 DEF SubmitterMoves, Queued
  <2>3. \A q \in Parents : pc'[Submitter(q)] \in {"admitting", "withdraw"} =>
          Holds(Submitter(q), ChannelOf[q])
    BY <1>2 DEF SubmitterMoves, QueuesOK
  <2>. QED
    BY <2>1, <2>2, <2>3, QueuesKept
<1>3. ASSUME NEW p \in Parents, Admits(p) \/ Withdraws(p) PROVE QueuesOK'
  <2>1. /\ Release(Submitter(p), ChannelOf[p]) /\ UNCHANGED turn
        /\ pc'[Submitter(p)] \in {"create", "return"}
        /\ \A q \in Parents \ {p} : pc'[Submitter(q)] = pc[Submitter(q)]
    BY <1>3 DEF Admits, Withdraws
  <2>2. \A q \in Parents : IF Submitter(p) = Submitter(q) THEN ~ Queued(q)'
                           ELSE pc'[Submitter(q)] = pc[Submitter(q)]
    BY <2>1, ActorFacts DEF Queued
  <2>3. Submitter(p) \in Actors /\ ChannelOf[p] \in Channels
    BY ActorFacts, ChannelFacts
  <2>. QED
    BY <2>1, <2>2, <2>3, ReleaseKeepsQueues
<1>4. ASSUME NEW p \in Parents, Runs(p) PROVE QueuesOK'
  <2>1. UNCHANGED <<lockQueue, turn>>
    BY <1>4 DEF Runs, ChainStill
  <2>2. \A q \in Parents :
          \/ pc'[Submitter(q)] = pc[Submitter(q)]
          \/ pc[Submitter(q)] = "create" /\ pc'[Submitter(q)] = "return"
    BY <1>4 DEF Runs
  <2>3. \A q \in Parents : Queued(q)' <=> Queued(q)
    BY <2>2 DEF Queued
  <2>4. \A q \in Parents : pc'[Submitter(q)] \in {"admitting", "withdraw"} =>
          Holds(Submitter(q), ChannelOf[q])
    BY <2>2 DEF QueuesOK
  <2>. QED
    BY <2>1, <2>3, <2>4, QueuesKept
<1>5. ASSUME NEW x \in Controllers, Steers(x) PROVE QueuesOK'
  <2>1. UNCHANGED turn /\ SubmittersStill
    BY <1>5 DEF Steers
  <2>2. ASSUME NEW c \in Channels, Release(Control(x), c) PROVE QueuesOK'
    <3>1. Control(x) \in Actors /\ \A p \in Parents : Control(x) # Submitter(p)
      BY ActorFacts
    <3>. QED
      BY <2>1, <2>2, <3>1, ReleaseKeepsQueues DEF SubmittersStill
  <2>. QED
    BY <1>1, <1>5, <2>1, <2>2, EnqueueKeepsQueues DEF Steers
<1>. QED
  BY <1>1, <1>2, <1>3, <1>4, <1>5, OpenEffects, RegisterKeepsQueues, Reporting
  DEF NothingMoves, KidMoves, ChainStill

\* A channel that is unblocked has no live turn.
LEMMA Unblocking ==
    ASSUME OneController, BlockedOK, NEW x \in Controllers, Steers(x)
    PROVE  \A c \in Channels : c \in blocked /\ c \notin blocked' => Selected(c) = {}
BY DEF Steers

\* What is queued stays queued while submitters stay, go on or start their task.
LEMMA QueuedStays ==
    /\ SubmittersStill => \A q \in Parents : Queued(q)' <=> Queued(q)
    /\ \A p \in Parents : SubmitterMoves(p) \/ Runs(p) =>
         \A q \in Parents : Queued(q)' <=> Queued(q)
    /\ \A p \in Parents : Admits(p) \/ Withdraws(p) =>
         \A q \in Parents : Queued(q)' <=> Queued(q) /\ q # p
<1>. USE DEF Queued
<1>1. SubmittersStill => \A q \in Parents : Queued(q)' <=> Queued(q)
  BY DEF SubmittersStill
<1>2. ASSUME NEW p \in Parents, SubmitterMoves(p)
      PROVE  \A q \in Parents : Queued(q)' <=> Queued(q)
  BY <1>2 DEF SubmitterMoves
<1>3. ASSUME NEW p \in Parents, Runs(p)
      PROVE  \A q \in Parents : Queued(q)' <=> Queued(q)
  <2>1. \A q \in Parents :
          \/ pc'[Submitter(q)] = pc[Submitter(q)]
          \/ pc[Submitter(q)] = "create" /\ pc'[Submitter(q)] = "return"
    BY <1>3 DEF Runs
  <2>. QED
    BY <2>1
<1>4. ASSUME NEW p \in Parents, Admits(p) \/ Withdraws(p)
      PROVE  \A q \in Parents : Queued(q)' <=> Queued(q) /\ q # p
  <2>1. /\ pc'[Submitter(p)] \in {"create", "return"}
        /\ \A q \in Parents \ {p} : pc'[Submitter(q)] = pc[Submitter(q)]
    BY <1>4 DEF Admits, Withdraws
  <2>. QED
    BY <2>1
<1>. QED
  BY <1>1, <1>2, <1>3, <1>4

\* Whoever holds the lock is the earliest that waits for it, and later than every
\* live turn that was admitted.
LEMMA HolderFacts ==
    ASSUME OpenStep, NEW p \in Parents, p \in parents,
           pc[Submitter(p)] = "admitting", NEW q \in parents, q # p,
           ChannelOf[q] = ChannelOf[p]
    PROVE  IF Queued(q) THEN Earlier(p, q) ELSE Earlier(q, p)
<1>. /\ QueuesOK /\ ChainOK /\ TypeOK /\ TurnsOK /\ q \in Parents
     /\ p \in Registered /\ q \in Registered
  BY DEF OpenStep, LineOK, IInv, TypeOK, Registered
<1>1. CASE Queued(q)
  <2>. DEFINE c == ChannelOf[p]
  <2>1. c \in Channels /\ Submitter(p) # Submitter(q)
    BY ChannelFacts, ActorFacts
  <2>2. 1 \in DOMAIN lockQueue[c] /\ lockQueue[c][1] = Submitter(p)
    BY <2>1, HoldsFacts DEF QueuesOK
  <2>3. PICK i \in DOMAIN lockQueue[c] : lockQueue[c][i] = Submitter(q)
    BY <1>1 DEF QueuesOK
  <2>4. i > 1
    <3>1. i # 1 /\ i \in Nat /\ i >= 1
      BY <2>1, <2>2, <2>3, HoldsFacts
    <3>. QED
      BY <3>1
  <2>5. Earlier(p, q)
    BY <2>1, <2>2, <2>3, <2>4 DEF QueuesOK
  <2>. QED
    BY <1>1, <2>5
<1>2. CASE ~ Queued(q)
  <2>1. Queued(p)
    BY DEF Queued
  <2>2. ~ Earlier(p, q)
    BY <1>2, <2>1 DEF ChainOK
  <2>. QED
    BY <1>2, <2>2 DEF TurnsOK
<1>. QED
  BY <1>1, <1>2

\* The tail of a channel stays its last admitted turn.
LEMMA TailsStep == ASSUME OpenStep PROVE TailsOK'
<1>. /\ TailsOK /\ GateOK /\ BlockedOK /\ OneController /\ TypeOK /\ TerminalsOK
     /\ SubmittersOK /\ ClosedExactlyWhenComplete /\ TurnsOK /\ TurnsOK'
     /\ RolesOK /\ SelectionsOK /\ OperationsOK /\ SparesOK /\ StagesOK /\ CalmOK
     /\ ~ closed /\ parents \subseteq Parents /\ parents \subseteq Registered
  BY DEF OpenStep, IInv, LineOK, Sequential, TypeOK, Registered
<1>. DEFINE Part(c) ==
        /\ tails[c] # None =>
             /\ tails[c] \in parents /\ ChannelOf[tails[c]] = c /\ ~ Queued(tails[c])
             /\ \A q \in parents : ChannelOf[q] = c /\ ~ Queued(q) =>
                    q = tails[c] \/ Earlier(q, tails[c])
        /\ tails[c] = None /\ c \notin blocked =>
             \A q \in parents : ChannelOf[q] = c /\ ~ Queued(q) => SemanticDone(q)
<1>0. \A c \in Channels : Part(c)
  BY DEF TailsOK
<1>. SUFFICES ASSUME NEW c \in Channels PROVE Part(c)'
  BY DEF TailsOK
<1>1. Part(c)
  BY <1>0
<1>. HIDE <1>0
<1>2. ASSUME semantic \subseteq semantic'
      PROVE  \A q \in Parents : SemanticDone(q) => SemanticDone(q)'
  BY <1>2 DEF SemanticDone
<1>3. ASSUME UNCHANGED turn PROVE \A q, r \in Parents : Earlier(q, r)' <=> Earlier(q, r)
  BY <1>3 DEF Earlier
<1>4. ASSUME UNCHANGED <<parents, tails, turn, blocked>>, semantic \subseteq semantic',
             \A q \in Parents : Queued(q)' <=> Queued(q)
      PROVE  Part(c)'
  BY <1>1, <1>2, <1>3, <1>4
<1>5. ASSUME NEW p \in Parents, Admits(p) PROVE Part(c)'
  <2>0. /\ UNCHANGED <<parents, turn, semantic, blocked>> /\ p \in parents
        /\ pc[Submitter(p)] = "admitting" /\ ~ Queued(p)'
        /\ tails'[c] = IF c = ChannelOf[p] THEN p ELSE tails[c]
    BY <1>5, QueuedStays DEF Admits, ControlStill
  <2>1. \A q \in Parents : Queued(q)' <=> Queued(q) /\ q # p
    BY <1>5, QueuedStays
  <2>2. CASE c # ChannelOf[p]
    <3>1. tails'[c] = tails[c]
      BY <2>0, <2>2
    <3>. QED
      BY <1>1, <1>2, <1>3, <2>0, <2>1, <2>2, <3>1
  <2>3. CASE c = ChannelOf[p]
    <3>1. tails'[c] = p /\ p # None
      BY <2>0, <2>3, ChannelFacts, TurnAssumption
    <3>2. \A q \in parents : ChannelOf[q] = c /\ ~ Queued(q) => Earlier(q, p)
      <4>1. Queued(p)
        BY <2>0 DEF Queued
      <4>. QED
        BY <2>0, <2>3, <4>1, HolderFacts
    <3>. QED
      BY <1>3, <2>0, <2>1, <2>3, <3>1, <3>2
  <2>. QED
    BY <2>2, <2>3
<1>6. ASSUME NEW p \in Parents, Withdraws(p) PROVE Part(c)'
  <2>1. UNCHANGED <<parents, tails, turn, semantic, blocked>> /\ p \notin parents
    BY <1>6 DEF Withdraws, ControlStill
  <2>2. \A q \in parents : Queued(q)' <=> Queued(q)
    BY <1>6, <2>1, QueuedStays
  <2>. QED
    BY <1>1, <1>2, <1>3, <2>1, <2>2
<1>7. ASSUME NEW p \in Parents, Register(p) PROVE Part(c)'
  <2>1. /\ UNCHANGED <<tails, semantic, blocked>> /\ p \notin Registered
        /\ parents \subseteq parents' /\ parents' \subseteq parents \cup {p}
        /\ \A q, r \in Registered : Earlier(q, r)' <=> Earlier(q, r)
        /\ p \in parents' => Queued(p)'
    BY <1>7, Registering DEF ControlStill, Registered
  <2>2. \A q \in Registered : Queued(q)' <=> Queued(q)
    <3>1. \A q \in Parents \ {p} : pc'[Submitter(q)] = pc[Submitter(q)]
      BY <1>7, Registering
    <3>. QED
      BY <2>1, <3>1 DEF Queued, Registered, TypeOK
  <2>3. \A q \in parents' : ~ Queued(q)' => q \in parents /\ ~ Queued(q) /\ q \in Registered
    BY <2>1, <2>2
  <2>4. \A q \in Parents : SemanticDone(q) => SemanticDone(q)'
    BY <1>2, <2>1
  <2>. QED
    BY <1>1, <2>1, <2>2, <2>3, <2>4
<1>8. ASSUME NEW a \in Actors, TerminalReturns(a) PROVE Part(c)'
  <2>. DEFINE k == terminal[a]
              p == k[1]
  <2>0. /\ UNCHANGED <<turn, blocked>> /\ semantic \subseteq semantic' /\ terminal[a] # None
        /\ p \in Parents /\ k \in Children /\ SubmittersStill
    BY <1>8, Reporting, KidFacts DEF ControlStill, TerminalReturns
  <2>1. \A q \in Parents : Queued(q)' <=> Queued(q)
    BY <2>0, QueuedStays
  <2>2. CASE UNCHANGED <<parents, closedParents, cancelling, tails>>
    BY <1>4, <2>0, <2>1, <2>2
  <2>3. CASE /\ p \in parents /\ parents' = parents \ {p}
             /\ tails'[c] = IF tails[c] = p THEN None ELSE tails[c]
    <3>1. CASE tails[c] # p
      <4>1. tails'[c] = tails[c]
        BY <2>3, <3>1
      <4>2. parents' \subseteq parents /\ (tails[c] \in parents => tails[c] \in parents')
        BY <2>3, <3>1
      <4>. QED
        BY <1>1, <1>2, <1>3, <2>0, <2>1, <4>1, <4>2
    <3>2. CASE tails[c] = p
      <4>1. tails'[c] = None /\ tails[c] # None
        BY <2>0, <2>3, <3>2, TurnAssumption
      <4>2. /\ ChannelOf[p] = c /\ ~ Queued(p)
            /\ \A q \in parents : ChannelOf[q] = c /\ ~ Queued(q) => q = p \/ Earlier(q, p)
        BY <1>1, <3>2, <4>1
      <4>3. ASSUME c \notin blocked, NEW q \in parents', ChannelOf[q] = c, ~ Queued(q)
            PROVE  SemanticDone(q)
        <5>1. pc[Runner(p)] = "await"
          BY <2>0, <2>3, <4>2, <4>3, CalmReports DEF Calm, Queued
        <5>2. q \in parents /\ Earlier(q, p)
          BY <2>3, <4>2, <4>3
        <5>. QED
          BY <2>3, <5>1, <5>2 DEF GateOK
      <4>. QED
        BY <1>2, <2>0, <2>1, <2>3, <4>1, <4>3
    <3>. QED
      BY <3>1, <3>2
  <2>. QED
    BY <1>8, <2>2, <2>3, Reporting
<1>9. ASSUME NEW x \in Controllers, Steers(x) PROVE Part(c)'
  <2>1. UNCHANGED <<parents, tails, turn, semantic>> /\ SubmittersStill
    BY <1>9 DEF Steers
  <2>2. \A q \in Parents : Queued(q)' <=> Queued(q)
    BY <2>1, QueuedStays
  <2>3. c \in blocked /\ c \notin blocked' => \A q \in parents : ChannelOf[q] # c
    BY <1>9, Unblocking DEF Selected
  <2>. QED
    BY <1>1, <1>2, <1>3, <2>1, <2>2, <2>3
<1>10. CASE NothingMoves \/ \E k \in Children : KidMoves(k)
  <2>1. /\ UNCHANGED <<parents, tails, turn, blocked>> /\ semantic \subseteq semantic'
        /\ SubmittersStill
    BY <1>10 DEF NothingMoves, KidMoves, ChainStill, ControlStill
  <2>. QED
    BY <1>4, <2>1, QueuedStays
<1>11. ASSUME NEW p \in Parents, SubmitterMoves(p) \/ Runs(p) PROVE Part(c)'
  <2>1. UNCHANGED <<parents, tails, turn, blocked, semantic>>
    BY <1>11 DEF SubmitterMoves, Runs, ChainStill, ControlStill
  <2>. QED
    BY <1>4, <1>11, <2>1, QueuedStays
<1>. QED
  BY <1>5, <1>6, <1>7, <1>8, <1>9, <1>10, <1>11, OpenEffects

\* In a calm channel, whoever has a child done runs it, and nobody earlier is left
\* to be processed.
LEMMA CalmProgress ==
    ASSUME OpenStep, NEW p \in parents, Calm(p), ~ Queued(p),
           KidsOf(p) \cap semantic # {}
    PROVE  \A q \in parents : Earlier(q, p) => SemanticDone(q)
BY DEF OpenStep, LineOK, GateOK, Queued

\* A live turn has children that are not complete.
LEMMA LiveKids ==
    ASSUME ClosedExactlyWhenComplete, NEW p \in parents, SemanticDone(p)
    PROVE  KidsOf(p) \cap semantic # {}
BY DEF ClosedExactlyWhenComplete, SemanticDone

\* The turns of a channel stay a chain.
LEMMA ChainStep == ASSUME OpenStep PROVE ChainOK'
<1>. /\ ChainOK /\ TailsOK /\ GateOK /\ BlockedOK /\ OneController /\ TypeOK
     /\ TerminalsOK /\ SubmittersOK /\ ClosedExactlyWhenComplete /\ TurnsOK /\ TurnsOK'
     /\ RolesOK /\ SelectionsOK /\ OperationsOK /\ SparesOK /\ StagesOK /\ CalmOK
     /\ LateChildrenAreInterrupted
     /\ ~ closed /\ parents \subseteq Parents /\ parents \subseteq Registered
  BY DEF OpenStep, IInv, LineOK, Sequential, TypeOK, Registered
<1>. DEFINE Behind(p) == predecessor[p] # None =>
                           predecessor[p] \in Registered /\ Earlier(predecessor[p], p)
            Ahead(p, q) ==
                /\ ~ Queued(q)
                /\ predecessor[p] \in parents =>
                     q = predecessor[p] \/ Earlier(q, predecessor[p])
                /\ Calm(p) /\ ~ WaitsForPredecessor(p) => SemanticDone(q)
<1>a. \A p \in parents : ~ Queued(p) =>
        Behind(p) /\ \A q \in parents : Earlier(q, p) => Ahead(p, q)
  BY DEF ChainOK
<1>b. ASSUME \A p \in parents' : ~ Queued(p)' =>
               Behind(p)' /\ \A q \in parents' : Earlier(q, p)' => Ahead(p, q)'
      PROVE  ChainOK'
  BY <1>b DEF ChainOK
<1>2. ASSUME semantic \subseteq semantic'
      PROVE  \A q \in Parents : SemanticDone(q) => SemanticDone(q)'
  BY <1>2 DEF SemanticDone
<1>3. ASSUME UNCHANGED turn PROVE \A q, r \in Parents : Earlier(q, r)' <=> Earlier(q, r)
  BY <1>3 DEF Earlier
<1>r. Registered \subseteq Parents
  BY DEF TypeOK, Registered
\* Nothing but what is live, calm, queued or done has changed, and nobody new waits
\* no longer.
<1>4. ASSUME UNCHANGED <<predecessor, turn>>, Registered' = Registered,
             parents' \subseteq parents, semantic \subseteq semantic',
             NEW p \in parents', ~ Queued(p)', ~ Queued(p),
             \A q \in parents' : ~ Queued(q) => ~ Queued(q)',
             Calm(p)' => Calm(p),
             Calm(p) /\ WaitsForPredecessor(p) /\ ~ WaitsForPredecessor(p)' =>
               \A q \in parents' : Earlier(q, p) => SemanticDone(q)'
      PROVE  Behind(p)' /\ \A q \in parents' : Earlier(q, p)' => Ahead(p, q)'
  <2>1. Behind(p) /\ \A q \in parents' : Earlier(q, p) => Ahead(p, q)
    BY <1>a, <1>4
  <2>2. Behind(p)'
    <3>1. predecessor[p] \in Registered =>
            (Earlier(predecessor[p], p)' <=> Earlier(predecessor[p], p))
      BY <1>3, <1>4, <1>r
    <3>. QED
      BY <1>4, <2>1, <3>1
  <2>3. ASSUME NEW q \in parents', Earlier(q, p)' PROVE Ahead(p, q)'
    <3>1. Earlier(q, p) /\ Ahead(p, q) /\ q \in Parents
      BY <1>3, <1>4, <2>1, <2>3
    <3>2. predecessor'[p] \in parents' =>
            q = predecessor'[p] \/ Earlier(q, predecessor[p])'
      BY <1>3, <1>4, <3>1
    <3>3. Calm(p)' /\ ~ WaitsForPredecessor(p)' => SemanticDone(q)'
      BY <1>2, <1>4, <3>1
    <3>. QED
      BY <1>4, <3>1, <3>2, <3>3
  <2>. QED
    BY <2>2, <2>3
<1>. HIDE DEF Behind, Ahead
\* A turn whose predecessor is done has only turns ahead that are done.
<1>5. ASSUME NEW p \in parents, ~ Queued(p), Calm(p), NEW k \in Children,
             predecessor[p] = k[1], k[1] \in parents, semantic \subseteq semantic',
             SemanticDone(k[1])', \A q \in parents : Earlier(q, k[1]) => SemanticDone(q)
      PROVE  \A q \in parents : Earlier(q, p) => SemanticDone(q)'
  BY <1>a, <1>2, <1>5 DEF Ahead
<1>6. ASSUME NEW k \in Children, semantic' = semantic \cup {k}, NEW p \in parents,
             UNCHANGED predecessor, WaitsForPredecessor(p), ~ WaitsForPredecessor(p)'
      PROVE  predecessor[p] = k[1] /\ k \notin semantic /\ SemanticDone(k[1])'
             /\ k \in KidsOf(k[1])
  <2>1. /\ predecessor[p] # None /\ predecessor[p] \in Parents
        /\ ~ SemanticDone(predecessor[p]) /\ SemanticDone(predecessor[p])'
    BY <1>6 DEF WaitsForPredecessor, TypeOK
  <2>2. k \in KidsOf(predecessor[p]) /\ k \notin semantic
    BY <1>6, <2>1 DEF SemanticDone
  <2>3. k[1] = predecessor[p]
    BY <2>1, <2>2, KidFacts
  <2>4. KidsOf(k[1]) \subseteq semantic'
    BY <1>6, <2>1, <2>3 DEF SemanticDone
  <2>. QED
    BY <2>2, <2>3, <2>4 DEF SemanticDone
<1>7. ASSUME UNCHANGED <<predecessor, turn, parents, closedParents, semantic, blocked>>,
             \A q \in parents : Queued(q)' <=> Queued(q)
      PROVE  ChainOK'
  <2>. SUFFICES ASSUME NEW p \in parents', ~ Queued(p)'
                PROVE  Behind(p)' /\ \A q \in parents' : Earlier(q, p)' => Ahead(p, q)'
    BY <1>b
  <2>1. Registered' = Registered /\ (Calm(p)' => Calm(p))
    BY <1>7 DEF Registered, Calm
  <2>2. WaitsForPredecessor(p)' <=> WaitsForPredecessor(p)
    BY <1>7 DEF WaitsForPredecessor, SemanticDone
  <2>. QED
    BY <1>4, <1>7, <2>1, <2>2
<1>8. CASE NothingMoves
  <2>1. /\ UNCHANGED <<predecessor, turn, parents, closedParents, semantic, blocked>>
        /\ SubmittersStill
    BY <1>8 DEF NothingMoves, ChainStill, ControlStill
  <2>. QED
    BY <1>7, <2>1, QueuedStays
<1>9. ASSUME NEW p \in Parents, SubmitterMoves(p) \/ Runs(p) \/ Withdraws(p)
      PROVE  ChainOK'
  <2>1. UNCHANGED <<predecessor, turn, parents, closedParents, semantic, blocked>>
    BY <1>9 DEF SubmitterMoves, Runs, Withdraws, ChainStill, ControlStill
  <2>2. \A q \in parents : Queued(q)' <=> Queued(q)
    BY <1>9, QueuedStays DEF Withdraws
  <2>. QED
    BY <1>7, <2>1, <2>2
<1>10. ASSUME NEW k \in Children, KidMoves(k) PROVE ChainOK'
  <2>. SUFFICES ASSUME NEW p \in parents', ~ Queued(p)'
                PROVE  Behind(p)' /\ \A q \in parents' : Earlier(q, p)' => Ahead(p, q)'
    BY <1>b
  <2>1. /\ UNCHANGED <<predecessor, turn, parents, closedParents, blocked>>
        /\ SubmittersStill
        /\ semantic' = semantic \/ (semantic' = semantic \cup {k} /\ Executing(k))
        /\ KidLive(k)
    BY <1>10 DEF KidMoves, ChainStill, ControlStill
  <2>2. Registered' = Registered /\ (Calm(p)' <=> Calm(p)) /\ p \in parents
    BY <2>1 DEF Registered, Calm
  <2>3. \A q \in parents : Queued(q)' <=> Queued(q)
    BY <2>1, QueuedStays
  <2>4. ASSUME Calm(p), WaitsForPredecessor(p), ~ WaitsForPredecessor(p)'
        PROVE  \A q \in parents' : Earlier(q, p) => SemanticDone(q)'
    <3>1. semantic' = semantic \cup {k} /\ Executing(k)
      <4>1. semantic' # semantic
        BY <2>1, <2>4 DEF WaitsForPredecessor, SemanticDone
      <4>. QED
        BY <2>1, <4>1
    <3>2. predecessor[p] = k[1] /\ SemanticDone(k[1])'
      BY <1>6, <2>1, <2>2, <2>4, <3>1
    <3>3. k[1] \in parents
      BY <3>1 DEF Executing, LateChildrenAreInterrupted
    <3>4. \A q \in parents : Earlier(q, k[1]) => SemanticDone(q)
      BY <2>1, <3>3 DEF StagesOK, GateOK
    <3>. QED
      BY <1>5, <2>1, <2>2, <2>3, <2>4, <3>1, <3>2, <3>3, <3>4
  <2>. QED
    BY <1>4, <2>1, <2>2, <2>3, <2>4
<1>11. ASSUME NEW a \in Actors, TerminalReturns(a) PROVE ChainOK'
  <2>a. PICK k : k = terminal[a]
    OBVIOUS
  <2>. SUFFICES ASSUME NEW p \in parents', ~ Queued(p)'
                PROVE  Behind(p)' /\ \A q \in parents' : Earlier(q, p)' => Ahead(p, q)'
    BY <1>b
  <2>1. /\ UNCHANGED <<predecessor, turn, blocked>> /\ Registered' = Registered
        /\ parents' \subseteq parents /\ SubmittersStill /\ k \in Children
        /\ semantic' = semantic \cup {k} /\ terminal[a] # None
        /\ k[1] \in Registered
    BY <1>11, <2>a, Reporting DEF ControlStill, TerminalReturns
  <2>2. (Calm(p)' <=> Calm(p)) /\ p \in parents
    BY <2>1 DEF Calm
  <2>3. \A q \in parents : Queued(q)' <=> Queued(q)
    BY <2>1, QueuedStays
  <2>4. ASSUME Calm(p), WaitsForPredecessor(p), ~ WaitsForPredecessor(p)'
        PROVE  \A q \in parents' : Earlier(q, p) => SemanticDone(q)'
    <3>2. predecessor[p] = k[1] /\ SemanticDone(k[1])' /\ k \notin semantic
          /\ k \in KidsOf(k[1])
      BY <1>6, <2>1, <2>2, <2>4
    <3>3. k[1] \in parents
      <4>1. k \notin completed
        BY <3>2 DEF StagesOK
      <4>. QED
        BY <2>1, <3>2, <4>1 DEF Registered, ClosedExactlyWhenComplete
    <3>4. Earlier(k[1], p)
      <4>1. predecessor[p] # None
        BY <2>4 DEF WaitsForPredecessor
      <4>. QED
        BY <1>a, <2>2, <2>3, <3>2, <4>1 DEF Behind
    <3>5. Calm(k[1]) /\ ~ Queued(k[1])
      <4>1. Calm(k[1])
        BY <2>4, <3>4 DEF Calm, Earlier
      <4>2. ~ Queued(k[1])
        BY <1>a, <2>2, <2>3, <3>3, <3>4 DEF Ahead
      <4>. QED
        BY <4>1, <4>2
    <3>6. pc[Runner(k[1])] = "await"
      BY <2>1, <2>a, <3>3, <3>5, CalmReports DEF Queued
    <3>7. \A q \in parents : Earlier(q, k[1]) => SemanticDone(q)
      BY <3>3, <3>6 DEF GateOK
    <3>. QED
      BY <1>5, <2>1, <2>2, <2>3, <2>4, <3>2, <3>3, <3>7
  <2>. QED
    BY <1>4, <2>1, <2>2, <2>3, <2>4
<1>12. ASSUME NEW x \in Controllers, Steers(x) PROVE ChainOK'
  <2>. SUFFICES ASSUME NEW p \in parents', ~ Queued(p)'
                PROVE  Behind(p)' /\ \A q \in parents' : Earlier(q, p)' => Ahead(p, q)'
    BY <1>b
  <2>1. UNCHANGED <<predecessor, turn, parents, closedParents, semantic>> /\ SubmittersStill
    BY <1>12 DEF Steers
  <2>2. Registered' = Registered /\ p \in parents
    BY <2>1 DEF Registered
  <2>3. \A q \in parents : Queued(q)' <=> Queued(q)
    BY <2>1, QueuedStays
  <2>4. Calm(p)' => Calm(p)
    BY <1>12, <2>2, Unblocking, ChannelFacts DEF Calm, Selected
  <2>5. WaitsForPredecessor(p)' <=> WaitsForPredecessor(p)
    BY <2>1 DEF WaitsForPredecessor, SemanticDone
  <2>. QED
    BY <1>4, <2>1, <2>2, <2>3, <2>4, <2>5
<1>13. ASSUME NEW s \in Parents, Register(s) PROVE ChainOK'
  <2>. SUFFICES ASSUME NEW p \in parents', ~ Queued(p)'
                PROVE  Behind(p)' /\ \A q \in parents' : Earlier(q, p)' => Ahead(p, q)'
    BY <1>b
  <2>1. /\ UNCHANGED <<predecessor, semantic, blocked>> /\ s \notin Registered
        /\ parents \subseteq parents' /\ parents' \subseteq parents \cup {s}
        /\ \A q, r \in Registered : Earlier(q, r)' <=> Earlier(q, r)
        /\ \A q \in Registered : ~ Earlier(s, q)'
        /\ s \in parents' => Queued(s)'
        /\ \A q \in Parents \ {s} : pc'[Submitter(q)] = pc[Submitter(q)]
        /\ Registered' = Registered \cup {s}
    BY <1>13, Registering DEF ControlStill
  <2>2. \A q \in Registered : (Queued(q)' <=> Queued(q)) /\ q \in Parents /\ q # s
    BY <1>r, <2>1 DEF Queued
  <2>3. p \in parents /\ p \in Registered /\ ~ Queued(p)
    BY <2>1, <2>2
  <2>4. Behind(p) /\ \A q \in parents : Earlier(q, p) => Ahead(p, q)
    BY <1>a, <2>3
  <2>5. Behind(p)'
    BY <2>1, <2>3, <2>4 DEF Behind
  <2>6. ASSUME NEW q \in parents', Earlier(q, p)' PROVE Ahead(p, q)'
    <3>1. q \in parents /\ q \in Registered
      BY <2>1, <2>3, <2>6
    <3>2. Earlier(q, p) /\ Ahead(p, q)
      BY <2>1, <2>3, <2>4, <2>6, <3>1
    <3>3. predecessor'[p] \in parents' => predecessor[p] \in parents
      <4>1. predecessor[p] # None => predecessor[p] # s
        BY <2>1, <2>4 DEF Behind
      <4>2. None \notin parents /\ None # s
        BY TurnAssumption
      <4>. QED
        BY <2>1, <4>1, <4>2
    <3>4. (Calm(p)' <=> Calm(p)) /\ (WaitsForPredecessor(p)' <=> WaitsForPredecessor(p))
          /\ (SemanticDone(q)' <=> SemanticDone(q))
      BY <2>1 DEF Calm, WaitsForPredecessor, SemanticDone
    <3>. QED
      BY <2>1, <2>2, <3>1, <3>2, <3>3, <3>4 DEF Ahead
  <2>. QED
    BY <2>5, <2>6
<1>14. ASSUME NEW s \in Parents, Admits(s) PROVE ChainOK'
  <2>. SUFFICES ASSUME NEW p \in parents', ~ Queued(p)'
                PROVE  Behind(p)' /\ \A q \in parents' : Earlier(q, p)' => Ahead(p, q)'
    BY <1>b
  <2>1. /\ UNCHANGED <<parents, closedParents, turn, semantic, blocked>>
        /\ pc[Submitter(s)] = "admitting" /\ s \in parents
        /\ \A q \in Parents :
             predecessor'[q] = IF q = s THEN tails[ChannelOf[s]] ELSE predecessor[q]
    BY <1>14 DEF Admits, ControlStill
  <2>2. \A q \in Parents : Queued(q)' <=> Queued(q) /\ q # s
    BY <1>14, QueuedStays
  <2>3. Registered' = Registered
    BY <2>1 DEF Registered
  <2>4. \A q, r \in Parents : Earlier(q, r)' <=> Earlier(q, r)
    BY <1>3, <2>1
  <2>5. (Calm(p)' <=> Calm(p)) /\ \A q \in Parents : SemanticDone(q)' <=> SemanticDone(q)
    BY <2>1 DEF Calm, SemanticDone
  <2>6. CASE p # s
    <3>1. Behind(p) /\ \A q \in parents : Earlier(q, p) => Ahead(p, q)
      BY <1>a, <2>1, <2>2, <2>6
    <3>2. predecessor'[p] = predecessor[p]
      BY <2>1, <2>6
    <3>3. WaitsForPredecessor(p)' <=> WaitsForPredecessor(p)
      BY <2>1, <3>2 DEF WaitsForPredecessor, SemanticDone
    <3>4. Behind(p)'
      BY <1>r, <2>1, <2>3, <2>4, <3>1, <3>2 DEF Behind
    <3>5. \A q \in parents' : Earlier(q, p)' => Ahead(p, q)'
      BY <2>1, <2>2, <2>4, <2>5, <3>1, <3>2, <3>3 DEF Ahead
    <3>. QED
      BY <3>4, <3>5
  <2>7. CASE p = s
    <3>a. PICK t : t = tails[ChannelOf[p]]
      OBVIOUS
    <3>0. ChannelOf[p] \in Channels /\ predecessor'[p] = t /\ Queued(p)
          /\ pc[Submitter(p)] = "admitting"
      BY <2>1, <2>7, <3>a, ChannelFacts DEF Queued
    <3>1. /\ t # None =>
               /\ t \in parents /\ ChannelOf[t] = ChannelOf[p] /\ ~ Queued(t)
               /\ \A q \in parents : ChannelOf[q] = ChannelOf[p] /\ ~ Queued(q) =>
                      q = t \/ Earlier(q, t)
          /\ t = None /\ Calm(p) =>
               \A q \in parents : ChannelOf[q] = ChannelOf[p] /\ ~ Queued(q) => SemanticDone(q)
      BY <3>0, <3>a DEF TailsOK, Calm
    <3>2. t # None => Earlier(t, p)
      BY <2>1, <2>7, <3>0, <3>1, HolderFacts
    <3>3. Behind(p)'
      BY <2>3, <2>4, <2>7, <3>0, <3>1, <3>2 DEF Behind
    <3>4. ASSUME NEW q \in parents, Earlier(q, p) PROVE ~ Queued(q) /\ ChannelOf[q] = ChannelOf[p]
      <4>1. q # p /\ ChannelOf[q] = ChannelOf[p] /\ ~ Earlier(p, q)
        BY <2>1, <3>4, EarlierOrder
      <4>. QED
        BY <2>1, <2>7, <3>0, <4>1, HolderFacts
    <3>5. ASSUME NEW q \in parents', Earlier(q, p)' PROVE Ahead(p, q)'
      <4>1. q \in parents /\ Earlier(q, p) /\ ~ Queued(q) /\ ChannelOf[q] = ChannelOf[p]
        BY <2>1, <2>4, <3>4, <3>5
      <4>2. predecessor'[p] \in parents' =>
              q = predecessor'[p] \/ Earlier(q, predecessor[p])'
        <5>1. t \in parents => q = t \/ Earlier(q, t)
          <6>1. t \in parents => t # None
            BY TurnAssumption
          <6>. QED
            BY <3>1, <4>1, <6>1
        <5>2. t \in parents => (Earlier(q, t)' <=> Earlier(q, t))
          BY <2>4, <4>1
        <5>. QED
          BY <2>1, <3>0, <4>1, <5>1, <5>2 DEF Earlier
      <4>3. ASSUME Calm(p)', ~ WaitsForPredecessor(p)' PROVE SemanticDone(q)'
        <5>1. CASE t = None
          BY <2>1, <2>5, <3>1, <4>1, <4>3, <5>1
        <5>2. CASE t # None
          <6>1. SemanticDone(t)
            BY <2>1, <3>0, <4>3, <5>2 DEF WaitsForPredecessor, SemanticDone
          <6>2. Calm(t) /\ ~ Queued(t) /\ t \in parents
            BY <2>5, <3>1, <4>3, <5>2 DEF Calm
          <6>3. \A r \in parents : Earlier(r, t) => SemanticDone(r)
            BY <6>1, <6>2, LiveKids, CalmProgress
          <6>. QED
            BY <2>1, <2>5, <3>1, <4>1, <5>2, <6>1, <6>3
        <5>. QED
          BY <5>1, <5>2
      <4>4. ~ Queued(q)'
        BY <2>1, <2>2, <4>1
      <4>. QED
        BY <4>2, <4>3, <4>4 DEF Ahead
    <3>. QED
      BY <3>3, <3>5
  <2>. QED
    BY <2>6, <2>7
<1>. QED
  BY <1>8, <1>9, <1>10, <1>11, <1>12, <1>13, <1>14, OpenEffects

\* Nobody processes a child ahead of an earlier turn.
LEMMA GateStep == ASSUME OpenStep PROVE GateOK'
<1>. /\ GateOK /\ ChainOK /\ BlockedOK /\ OneController /\ TypeOK
     /\ TerminalsOK /\ SubmittersOK /\ SubmittersOK' /\ ClosedExactlyWhenComplete
     /\ TurnsOK /\ TurnsOK'
     /\ RolesOK /\ RunnersOK /\ SelectionsOK /\ OperationsOK /\ SparesOK /\ StagesOK /\ CalmOK
     /\ ~ closed /\ parents \subseteq Parents /\ parents \subseteq Registered
     /\ Registered \subseteq Parents
  BY DEF OpenStep, IInv, LineOK, Sequential, TypeOK, Registered
<1>. DEFINE First(p) == pc[Runner(p)] = "await" =>
                \A q \in parents : Earlier(q, p) => SemanticDone(q)
            Second(p) == Calm(p) /\ KidsOf(p) \cap semantic # {} =>
                pc[Runner(p)] = "await" \/ pc[Submitter(p)] = "withdraw"
<1>a. \A p \in parents : First(p) /\ Second(p)
  BY DEF GateOK
<1>b. ASSUME \A p \in parents' : First(p)' /\ Second(p)' PROVE GateOK'
  BY <1>b DEF GateOK
<1>2. ASSUME semantic \subseteq semantic'
      PROVE  \A q \in Parents : SemanticDone(q) => SemanticDone(q)'
  BY <1>2 DEF SemanticDone
<1>3. ASSUME UNCHANGED turn PROVE \A q, r \in Parents : Earlier(q, r)' <=> Earlier(q, r)
  BY <1>3 DEF Earlier
<1>4. ASSUME UNCHANGED turn, parents' \subseteq parents, semantic \subseteq semantic',
             NEW p \in parents', pc'[Runner(p)] = pc[Runner(p)]
      PROVE  First(p)'
  BY <1>a, <1>2, <1>3, <1>4
<1>5. ASSUME UNCHANGED semantic, NEW p \in parents, Calm(p)' => Calm(p),
             pc[Runner(p)] = "await" => pc'[Runner(p)] = "await",
             pc[Submitter(p)] = "withdraw" => pc'[Submitter(p)] = "withdraw"
      PROVE  Second(p)'
  BY <1>a, <1>5
<1>. HIDE DEF First, Second
<1>6. CASE NothingMoves
  BY <1>b, <1>4, <1>5, <1>6
  DEF NothingMoves, ChainStill, ControlStill, SubmittersStill, RunnersStill, Calm
<1>7. ASSUME NEW s \in Parents, SubmitterMoves(s) \/ Admits(s) \/ Withdraws(s)
      PROVE  GateOK'
  <2>1. UNCHANGED <<parents, turn, semantic, blocked>> /\ RunnersStill
    BY <1>7 DEF SubmitterMoves, Admits, Withdraws, ChainStill, ControlStill
  <2>2. \A p \in parents : pc[Submitter(p)] = "withdraw" => pc'[Submitter(p)] = "withdraw"
    BY <1>7 DEF SubmitterMoves, Admits, Withdraws, Queued
  <2>. QED
    BY <1>b, <1>4, <1>5, <2>1, <2>2 DEF RunnersStill, Calm
<1>8. ASSUME NEW k \in Children, KidMoves(k) PROVE GateOK'
  <2>. SUFFICES ASSUME NEW p \in parents' PROVE First(p)' /\ Second(p)'
    BY <1>b
  <2>1. /\ UNCHANGED <<parents, turn, blocked>> /\ RunnersStill /\ SubmittersStill
        /\ semantic \subseteq semantic' /\ semantic' \subseteq semantic \cup {k}
        /\ KidLive(k)
    BY <1>8 DEF KidMoves, ChainStill, ControlStill
  <2>2. pc[Runner(k[1])] = "await"
    BY <2>1 DEF StagesOK
  <2>3. KidsOf(p) \cap semantic' # {} => p = k[1] \/ KidsOf(p) \cap semantic # {}
    BY <2>1, KidFacts
  <2>4. Second(p)'
    BY <1>a, <2>1, <2>2, <2>3 DEF Second, RunnersStill, SubmittersStill, Calm
  <2>. QED
    BY <1>4, <2>1, <2>4 DEF RunnersStill
<1>9. ASSUME NEW a \in Actors, TerminalReturns(a) PROVE GateOK'
  <2>. SUFFICES ASSUME NEW p \in parents' PROVE First(p)' /\ Second(p)'
    BY <1>b
  <2>a. PICK k : k = terminal[a]
    OBVIOUS
  <2>1. /\ UNCHANGED <<turn, blocked>> /\ RunnersStill /\ SubmittersStill
        /\ parents' \subseteq parents /\ k \in Children /\ terminal[a] # None
        /\ semantic \subseteq semantic' /\ semantic' = semantic \cup {k}
    BY <1>9, <2>a, Reporting DEF ControlStill, TerminalReturns
  <2>2. CASE p = k[1]
    <3>1. Calm(p) => pc[Runner(p)] = "await" \/ pc[Submitter(p)] = "withdraw"
      BY <2>a, <2>1, <2>2, CalmReports
    <3>2. Second(p)'
      BY <2>1, <3>1 DEF Second, RunnersStill, SubmittersStill, Calm
    <3>. QED
      BY <1>4, <2>1, <3>2 DEF RunnersStill
  <2>3. CASE p # k[1]
    <3>1. KidsOf(p) \cap semantic' = KidsOf(p) \cap semantic
      BY <2>1, <2>3, KidFacts
    <3>2. Second(p)'
      BY <1>a, <2>1, <3>1 DEF Second, RunnersStill, SubmittersStill, Calm
    <3>. QED
      BY <1>4, <2>1, <3>2 DEF RunnersStill
  <2>. QED
    BY <2>2, <2>3
<1>10. ASSUME NEW x \in Controllers, Steers(x) PROVE GateOK'
  <2>. SUFFICES ASSUME NEW p \in parents' PROVE First(p)' /\ Second(p)'
    BY <1>b
  <2>1. UNCHANGED <<parents, turn, semantic>> /\ SubmittersStill /\ RunnersStill
    BY <1>10 DEF Steers
  <2>2. Calm(p)' => Calm(p)
    BY <1>10, <2>1, Unblocking, ChannelFacts DEF Calm, Selected
  <2>. QED
    BY <1>4, <1>5, <2>1, <2>2 DEF RunnersStill, SubmittersStill
<1>11. ASSUME NEW s \in Parents, Register(s) PROVE GateOK'
  <2>. SUFFICES ASSUME NEW p \in parents' PROVE First(p)' /\ Second(p)'
    BY <1>b
  <2>1. /\ UNCHANGED <<semantic, blocked>> /\ s \notin Registered
        /\ parents' \subseteq parents \cup {s} /\ RunnersStill
        /\ \A q, r \in Registered : Earlier(q, r)' <=> Earlier(q, r)
        /\ \A q \in Registered : ~ Earlier(s, q)'
        /\ pc[Runner(s)] = "idle"
        /\ \A q \in Parents \ {s} : pc'[Submitter(q)] = pc[Submitter(q)]
    BY <1>11, Registering DEF ControlStill
  <2>2. CASE p = s
    <3>1. KidsOf(p) \cap semantic' = {}
      BY <2>1, <2>2 DEF StagesOK
    <3>. QED
      BY <2>1, <2>2, <3>1 DEF First, Second, RunnersStill
  <2>3. CASE p # s
    <3>1. p \in parents /\ p \in Registered /\ p \in Parents
      BY <2>1, <2>3
    <3>2. First(p)'
      <4>1. \A q \in parents' : Earlier(q, p)' => q \in parents /\ q \in Registered
        BY <2>1, <3>1
      <4>2. \A q \in parents : SemanticDone(q)' <=> SemanticDone(q)
        BY <2>1 DEF SemanticDone
      <4>. QED
        BY <1>a, <2>1, <3>1, <4>1, <4>2 DEF First, RunnersStill
    <3>3. Second(p)'
      BY <1>5, <2>1, <2>3, <3>1 DEF RunnersStill, Calm
    <3>. QED
      BY <3>2, <3>3
  <2>. QED
    BY <2>2, <2>3
<1>12. ASSUME NEW s \in Parents, Runs(s) PROVE GateOK'
  <2>. SUFFICES ASSUME NEW p \in parents' PROVE First(p)' /\ Second(p)'
    BY <1>b
  <2>1. /\ UNCHANGED <<parents, closedParents, cancelling, turn, semantic,
                        completed, blocked, closed, predecessor>>
        /\ \A q \in Parents \ {s} :
             pc'[Submitter(q)] = pc[Submitter(q)] /\ pc'[Runner(q)] = pc[Runner(q)]
        /\ \/ pc'[Submitter(s)] = pc[Submitter(s)]
           \/ pc[Submitter(s)] = "create" /\ pc'[Submitter(s)] = "return"
    BY <1>12 DEF Runs, ChainStill, ControlStill
  <2>2. CASE p # s
    <3>1. First(p)'
      BY <1>4, <2>1, <2>2
    <3>2. Second(p)'
      BY <1>5, <2>1, <2>2 DEF Calm
    <3>. QED
      BY <3>1, <3>2
  <2>3. CASE p = s
    <3>1. Second(p)'
      <4>1. ASSUME Calm(p), pc[Runner(p)] = "await" PROVE pc'[Runner(p)] = "await"
        <5>1. p \notin cancelling /\ Runner(p) \notin kill
          BY <2>1, <4>1 DEF CalmOK
        <5>2. ~ CancellationRequested(p)
          BY <4>1, <5>1 DEF CancellationRequested, Calm
        <5>3. ~ (KidsOf(p) \subseteq completed)
          BY <2>1 DEF ClosedExactlyWhenComplete
        <5>. QED
          BY <1>12, <2>3, <4>1, <5>1, <5>2, <5>3 DEF Runs
      <4>2. Calm(p)' <=> Calm(p)
        BY <2>1 DEF Calm
      <4>. QED
        BY <1>a, <2>1, <2>3, <4>1, <4>2 DEF Second
    <3>2. First(p)'
      <4>. SUFFICES ASSUME pc'[Runner(p)] = "await",
                           NEW q \in parents', Earlier(q, p)'
                    PROVE  SemanticDone(q)'
        BY DEF First
      <4>1. Earlier(q, p) /\ p \in parents /\ q \in parents
        BY <1>3, <2>1
      <4>2. ~ CancellationRequested(p)
            /\ (pc[Runner(p)] \in {"await", "skip"} \/ ~ WaitsForPredecessor(p))
        BY <1>12, <2>3 DEF Runs
      <4>3. Calm(p)
        BY <4>2 DEF CancellationRequested, Calm
      <4>4. ~ Queued(p)
        <5>1. pc'[Submitter(p)] \notin {"lock", "admitting", "withdraw"}
          BY <4>1 DEF SubmittersOK
        <5>. QED
          BY <2>1, <2>3, <5>1 DEF Queued
      <4>5. CASE pc[Runner(p)] = "await"
        BY <1>a, <1>2, <2>1, <4>1, <4>5 DEF First
      <4>6. CASE pc[Runner(p)] = "skip"
        BY <4>1, <4>3, <4>6 DEF CalmOK
      <4>7. CASE ~ WaitsForPredecessor(p)
        BY <1>2, <2>1, <4>1, <4>3, <4>4, <4>7 DEF ChainOK
      <4>. QED
        BY <4>2, <4>5, <4>6, <4>7
    <3>. QED
      BY <3>1, <3>2
  <2>. QED
    BY <2>2, <2>3
<1>. QED
  BY <1>6, <1>7, <1>8, <1>9, <1>10, <1>11, <1>12, OpenEffects

LEMMA LineStep == ASSUME OpenStep PROVE LineOK'
BY BlockedStep, QueuesStep, StagesStep, CalmStep, TailsStep, ChainStep, GateStep
DEF LineOK
=============================================================================
