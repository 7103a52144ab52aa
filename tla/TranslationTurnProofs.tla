-------------------------- MODULE TranslationTurnProofs --------------------------
(***************************************************************************)
(* What is proved of TranslationTurn, for every set of parents, channels   *)
(* and controllers and every number of children: the inductive invariants, *)
(* what a cancellation and close() have done when they return, the order   *)
(* turns are processed and published in, and that the owner implements the *)
(* ledger of turns.                                                        *)
(***************************************************************************)
EXTENDS TranslationTurnLine

\* The invariant holds before the first turn is submitted.
LEMMA Initially == ASSUME Init PROVE IInv
<1>. USE DEF Init
<1>1. pc = [a \in Actors |-> "idle"] /\ terminal = [a \in Actors |-> None]
  OBVIOUS
<1>2. TypeOK
  <2>1. pc \in [Actors -> PcValues] /\ terminal \in [Actors -> Children \cup {None}]
    BY DEF PcValues
  <2>2. call \in [Controllers -> Calls]
    BY CallType
  <2>3. lockQueue \in [Channels -> Seq(Actors)] /\ outputs \in Seq(Children)
    BY EmptySeq
  <2>. QED
    BY <2>1, <2>2, <2>3 DEF TypeOK
<1>3. ClosedExactlyWhenComplete
  BY DEF ClosedExactlyWhenComplete
<1>4. RolesOK
  BY ActorFacts DEF RolesOK
<1>5. SubmittersOK
  BY ActorFacts DEF SubmittersOK
<1>6. TerminalsOK
  BY ActorFacts DEF TerminalsOK
<1>7. RunnersOK
  BY ActorFacts, KidFacts DEF RunnersOK, KidLive, KidRunning, Executing
<1>8. KillsOK
  BY ActorFacts DEF KillsOK, KidRunning
<1>9. EndedOK
  BY ActorFacts DEF EndedOK
<1>10. LateChildrenAreInterrupted
  BY ActorFacts DEF LateChildrenAreInterrupted, KidRunning
<1>11. SelectionsOK
  BY ActorFacts DEF SelectionsOK, NoCall, Call
<1>12. ClosedOK
  BY DEF ClosedOK
<1>13. OutputsOK
  BY DEF OutputsOK
<1>14. OperationsOK /\ DrainOK
  BY ActorFacts DEF OperationsOK, DrainOK, CancelLabels, CloseLabels, NoCall, Call
<1>. QED
  BY <1>2, <1>3, <1>4, <1>5, <1>6, <1>7, <1>8, <1>9, <1>10, <1>11, <1>12,
     <1>13, <1>14 DEF IInv

\* Every step of every task preserves the invariant.
LEMMA Inductively == ASSUME IInv, [Next]_vars PROVE IInv'
BY TypeStep, ClosedStep, RolesStep, SubmittersStep, TerminalsStep, RunnersStep,
   KillsStep, EndedStep, LateStep, SelectionsStep, ShutStep, OutputsStep,
   OperationsStep, DrainStep
DEF IInv

\* The inductive invariant holds in every reachable state.
THEOREM Invariance == Spec => []IInv
BY Initially, Inductively, PTL DEF Spec

\* Every variable stays in the set of values the code can give it.
THEOREM TypeCorrect == Spec => []TypeOK
<1>1. IInv => TypeOK
  BY DEF IInv
<1>. QED
  BY <1>1, Invariance, PTL

\* A parent leaves the live set in the step that completes its last child.
THEOREM ClosesExactlyWhenComplete == Spec => []ClosedExactlyWhenComplete
<1>1. IInv => ClosedExactlyWhenComplete
  BY DEF IInv
<1>. QED
  BY <1>1, Invariance, PTL

\* A child that goes on executing is unfinished and its parent is live.
THEOREM InterruptsLateChildren == Spec => []LateChildrenAreInterrupted
<1>1. IInv => LateChildrenAreInterrupted
  BY DEF IInv
<1>. QED
  BY <1>1, Invariance, PTL

\* An output is appended for a child that executes at that moment.
LEMMA OutputStep ==
    ASSUME IInv, [Next]_vars, outputs' # outputs
    PROVE  \E k \in Children :
             /\ Executing(k)
             /\ pc[Kid(k)] \in {"process", "queued"}
             /\ outputs' = Append(outputs, k)
             /\ UNCHANGED <<parents, closedParents, completed, closed>>
<1>. USE DEF registry, admission, progress, tasks, control
<1>1. CASE UNCHANGED vars
  BY <1>1 DEF vars
<1>2. CASE Environment
  <2>1. ASSUME NEW p \in Parents, Reject(p) \/ Register(p) \/ SubmitterCancelled(p)
        PROVE  outputs' = outputs
    BY <2>1 DEF Reject, Register, SubmitterCancelled
  <2>2. ASSUME NEW x \in Controllers, NEW c \in Channels, OpenIngress(x, c)
        PROVE  outputs' = outputs
    BY <2>2 DEF OpenIngress
  <2>3. ASSUME NEW x \in Controllers, NEW op, NEW c \in Channels, BeginsCancel(x, op, c)
        PROVE  outputs' = outputs
    BY <2>3 DEF BeginsCancel
  <2>4. ASSUME NEW x \in Controllers, BeginClose(x)
        PROVE  outputs' = outputs
    BY <2>4 DEF BeginClose
  <2>5. ASSUME NEW k \in Children, ChildDropped(k)
        PROVE  outputs' = outputs
    BY <2>5 DEF ChildDropped
  <2>. QED
    BY <1>1, <1>2, <2>1, <2>2, <2>3, <2>4, <2>5
    DEF Environment, CancelQueued, CancelStarts, CancelFindsNothing
<1>3. ASSUME NEW a \in Actors, AdapterReturns(a) PROVE outputs' = outputs
  BY <1>3 DEF AdapterReturns, TerminalReturns, ClosedReturns
<1>4. ASSUME NEW p \in Parents, SubmitStep(p) PROVE outputs' = outputs
  BY <1>4 DEF SubmitStep, LockAcquired, Admitted, NotAdmitted, Withdraw,
     Withdrawn, ChildCreated, ChildCreationFails, SweepOne
<1>5. ASSUME NEW p \in Parents, RunStep(p) PROVE outputs' = outputs
  BY <1>5 DEF RunStep, LoopContinues, Gathered, RunnerCancelled, RunnerSweeps,
     RunnerEnds, SweepOne
<1>6. ASSUME NEW k \in Children, ChildStep(k)
      PROVE  /\ Executing(k)
             /\ pc[Kid(k)] \in {"process", "queued"}
             /\ outputs' = Append(outputs, k)
             /\ UNCHANGED <<parents, closedParents, completed, closed>>
  BY <1>6 DEF ChildStep, ChildStarted, ChildProcessed, PredecessorClosed,
     OutputReturns, ChildInterrupted, ChildEnds, Deliver, Executing, KidRunning
<1>7. ASSUME NEW x \in Controllers, ControlStep(x) PROVE outputs' = outputs
  BY <1>7 DEF ControlStep, Select, CancelReturns, TasksEnded, ControlSweeps,
     DrainLock, LockDrained, CloseScope, ScopeClosed, CloseReturns, SweepOne
<1>. QED
  BY <1>1, <1>2, <1>3, <1>4, <1>5, <1>6, <1>7 DEF Next

\* An output is submitted only for an unfinished child of a live parent, and
\* never once close() has begun.
THEOREM LateCallbacksRejected == Spec => LateCallbackRule
<1>. DEFINE Allowed(k) == k[1] \in parents /\ k \notin completed /\ ~ closed
<1>1. ASSUME IInv, [Next]_vars, outputs' # outputs
      PROVE  Allowed(outputs'[Len(outputs')])
  <2>1. PICK k \in Children : Executing(k) /\ outputs' = Append(outputs, k)
    BY <1>1, OutputStep
  <2>2. outputs'[Len(outputs')] = k
    BY <1>1, <2>1, AppendProperties DEF IInv, TypeOK
  <2>3. Allowed(k)
    BY <1>1, <2>1 DEF IInv, LateChildrenAreInterrupted, ClosedOK, Executing
  <2>. QED
    BY <2>2, <2>3
<1>2. IInv /\ [Next]_vars =>
        [outputs' # outputs => Allowed(outputs'[Len(outputs')])]_vars
  BY <1>1
<1>. QED
  BY <1>2, Invariance, PTL DEF Spec, LateCallbackRule

\* The detailed owner implements the ledger: every step of a task, an adapter or
\* an operation opens a turn, publishes or finishes one of its children as the
\* ledger allows, or leaves the ledger as it is.
THEOREM RefinesLedger == Spec => ImplementsLedger
<1>. DEFINE published == {outputs[i] : i \in 1 .. Len(outputs)}
<1>1. Init => Ledger!Init
  BY DEF Init, Ledger!Init
<1>2. IInv /\ [Next]_vars => [Ledger!Next]_(Ledger!ledger)
  <2>. SUFFICES ASSUME IInv, [Next]_vars
               
     PROVE   Ledger!Next \/ UNCHANGED <<parents, closedParents, completed, published>>
    BY DEF Ledger!ledger
  <2>. \A p \in Parents : [q \in Parents |-> KidsOf(q)][p] = KidsOf(p)
    OBVIOUS
  <2>1. CASE outputs' # outputs
    <3>1. PICK k \in Children :
            /\ Executing(k)
            /\ pc[Kid(k)] \in {"process", "queued"}
            /\ outputs' = Append(outputs, k)
            /\ UNCHANGED <<parents, closedParents, completed>>
      BY <2>1, OutputStep
    <3>2. outputs \in Seq(Children)
      BY DEF IInv, TypeOK
    <3>3. published' = published \cup {k}
      <4>1. /\ Len(outputs') = Len(outputs) + 1 /\ Len(outputs) \in Nat
            /\ \A i \in 1 .. Len(outputs) : outputs'[i] = outputs[i]
            /\ outputs'[Len(outputs) + 1] = k
        BY <3>1, <3>2, AppendProperties
      <4>. QED
        BY <4>1
    <3>4. k \notin published
      BY <3>1 DEF IInv, OutputsOK
    <3>5. /\ k[1] \in Parents /\ k \in KidsOf(k[1])
          /\ k[1] \in parents /\ k \notin completed
      BY <3>1, KidFacts DEF IInv, LateChildrenAreInterrupted, Executing
    <3>6. Ledger!Publish(k[1], k)
      BY <3>1, <3>3, <3>4, <3>5 DEF Ledger!Publish
    <3>. QED
      BY <3>5, <3>6 DEF Ledger!Next
  <2>2. CASE UNCHANGED outputs /\ UNCHANGED <<parents, closedParents, completed>>
    BY <2>2
  <2>3. ASSUME NEW p \in Parents, Register(p), UNCHANGED outputs
        PROVE  Ledger!Open(p)
    <3>1. /\ UNCHANGED <<completed, published>>
          /\ p \notin parents \cup closedParents
      BY <2>3 DEF Register, progress, Registered
    <3>2. KidsOf(p) = {} <=> ChildCount[p] = 0
      <4>1. ChildCount[p] # 0 => <<p, 1>> \in KidsOf(p)
        BY ChannelFacts DEF KidsOf
      <4>2. ChildCount[p] = 0 => KidsOf(p) = {}
        BY DEF KidsOf
      <4>. QED
        BY <4>1, <4>2
    <3>. QED
      BY <2>3, <3>1, <3>2 DEF Register, Ledger!Open
  <2>4. ASSUME NEW a \in Actors, TerminalReturns(a), UNCHANGED outputs
        PROVE  Ledger!Next \/ UNCHANGED <<parents, closedParents, completed>>
    <3>. DEFINE k == terminal[a]
                p == k[1]
    <3>1. /\ k \in Children /\ p \in Parents /\ k \in KidsOf(p)
          /\ completed' = completed \cup {k} /\ p \in Registered
      BY <2>4, KidFacts DEF TerminalReturns, IInv, TypeOK, TerminalsOK
    <3>2. CASE k \in completed
      <4>1. completed' = completed
        BY <3>1, <3>2
      <4>2. ~ (p \in parents /\ LastChild(p, completed'))
        BY <4>1 DEF IInv, ClosedExactlyWhenComplete, LastChild
      <4>. QED
        BY <2>4, <4>1, <4>2 DEF TerminalReturns, registry
    <3>3. CASE k \notin completed
      <4>1. p \in parents
        BY <3>1, <3>3 DEF IInv, ClosedExactlyWhenComplete, Registered
      <4>2. CASE KidsOf(p) \subseteq completed'
        <5>1. parents' = parents \ {p} /\ closedParents' = closedParents \cup {p}
          BY <2>4, <4>1, <4>2 DEF TerminalReturns, LastChild, CloseParent
        <5>2. Ledger!Finish(p, k)
          BY <2>4, <3>1, <3>3, <4>1, <4>2, <5>1 DEF Ledger!Finish
        <5>. QED
          BY <3>1, <5>2 DEF Ledger!Next
      <4>3. CASE ~ (KidsOf(p) \subseteq completed')
        <5>1. UNCHANGED <<parents, closedParents>>
          BY <2>4, <4>3 DEF TerminalReturns, LastChild, registry
        <5>2. Ledger!Finish(p, k)
          BY <2>4, <3>1, <3>3, <4>1, <4>3, <5>1 DEF Ledger!Finish
        <5>. QED
          BY <3>1, <5>2 DEF Ledger!Next
      <4>. QED
        BY <4>2, <4>3
    <3>. QED
      BY <3>2, <3>3
  <2>. QED
    BY <2>1, <2>2, <2>3, <2>4, RegistryFrame DEF Ledger!Next
<1>. QED
  BY <1>1, <1>2, Invariance, PTL DEF Spec, ImplementsLedger, Ledger!Spec

-----------------------------------------------------------------------------
(* What a cancellation and close() leave, and what the order of the turns gives. *)

\* The step in which a cancellation or close() ends is its return.
LEMMA ReturnStep ==
    ASSUME IInv, [Next]_vars, NEW x \in Controllers, call'[x].op = "none"
    PROVE  /\ call[x].op \in {"cancel", "closeIngress"} => CancelReturns(x)
           /\ call[x].op = "close" => CloseReturns(x)
<1>. USE DEF CancelLabels, CloseLabels
<1>. /\ pc \in [Actors -> PcValues] /\ Control(x) \in Actors
     /\ call[x].op \in {"cancel", "closeIngress"} <=> pc[Control(x)] \in CancelLabels
     /\ call[x].op = "close" <=> pc[Control(x)] \in CloseLabels
  BY ActorFacts DEF IInv, TypeOK, OperationsOK
<1>1. pc'[Control(x)] \notin CancelLabels \cup CloseLabels
  BY Inductively DEF IInv, OperationsOK
<1>. SUFFICES ASSUME pc[Control(x)] \in CancelLabels \cup CloseLabels
              PROVE  CancelReturns(x) \/ CloseReturns(x)
  BY DEF CancelReturns, CloseReturns
<1>2. ControlMoves(x)
  <2>1. pc'[Control(x)] # pc[Control(x)]
    BY <1>1
  <2>. QED
    BY <2>1, ControlFrame, OthersStay DEF IInv, ControlStill
<1>3. ASSUME NEW op, NEW c, \/ CancelQueued(x, op, c) \/ CancelStarts(x, op, c)
                            \/ CancelFindsNothing(x, op, c) \/ OpenIngress(x, c)
      PROVE  FALSE
  BY <1>3 DEF CancelQueued, CancelStarts, CancelFindsNothing, OpenIngress,
     BeginsCancel, Called
<1>4. ~ BeginClose(x)
  BY DEF BeginClose, Called
<1>5. ASSUME Select(x) \/ TasksEnded(x) PROVE FALSE
  BY <1>1, <1>5 DEF Select, CancelSelected, TasksEnded, Goto
<1>6. ASSUME NEW c, DrainLock(x, c) PROVE FALSE
  BY <1>1, <1>6 DEF DrainLock, Goto
<1>7. ASSUME LockDrained(x) \/ CloseScope(x) \/ ScopeClosed(x) PROVE FALSE
  BY <1>1, <1>7 DEF LockDrained, CloseScope, ScopeClosed, Goto
<1>. QED
  BY <1>2, <1>3, <1>4, <1>5, <1>6, <1>7 DEF ControlMoves

\* cancel_pending and close_channel_ingress return only when every turn of an
\* earlier generation of the channel is closed.
THEOREM CancelDrains == Spec => CancelDrainsGeneration
<1>1. ASSUME IInv, [Next]_vars, NEW x \in Controllers,
             call[x].op \in {"cancel", "closeIngress"}, call'[x].op = "none"
      PROVE  \A p \in Registered :
               ChannelOf[p] = call[x].channel /\ turn[p][1] < call[x].generation
                 => p \in closedParents
  <2>. SUFFICES ASSUME NEW p \in parents, ChannelOf[p] = call[x].channel,
                       turn[p][1] < call[x].generation
                PROVE  FALSE
    BY DEF Registered
  <2>1. CancelReturns(x)
    BY <1>1, ReturnStep
  <2>2. p \in Selected(call[x].channel)
    BY DEF Selected
  <2>3. pc[Control(x)] = "sweep" /\ Unfinished(call[x].selected) = {}
    BY <2>1, <2>2 DEF CancelReturns
  <2>4. p \in call[x].selected
    BY <1>1, <2>3 DEF IInv, DrainOK
  <2>5. KidsOf(p) \subseteq completed
    <3>1. p \in Parents
      BY <1>1 DEF IInv, TypeOK
    <3>. QED
      BY <2>3, <2>4, <3>1, KidFacts DEF Unfinished
  <2>. QED
    BY <1>1, <2>5 DEF IInv, ClosedExactlyWhenComplete
<1>2. IInv /\ [Next]_vars =>
        [\A x \in Controllers :
            call[x].op \in {"cancel", "closeIngress"} /\ call'[x].op = "none" =>
              \A p \in Registered :
                /\ ChannelOf[p] = call[x].channel
                /\ turn[p][1] < call[x].generation
                => p \in closedParents]_vars
  BY <1>1
<1>. QED
  BY <1>2, Invariance, PTL DEF Spec, CancelDrainsGeneration

\* close() returns when no turn is live and no task of the owner runs.
THEOREM CloseDrains == Spec => CloseLeavesNothing
<1>1. ASSUME IInv, [Next]_vars, NEW x \in Controllers,
             call[x].op = "close", call'[x].op = "none"
      PROVE  parents = {} /\ ScopeTasksEnded
  <2>1. CloseReturns(x)
    BY <1>1, ReturnStep
  <2>2. /\ parents \subseteq call[x].selected /\ ScopeTasksEnded
        /\ Unfinished(call[x].selected) = {}
    BY <1>1, <2>1 DEF IInv, DrainOK, CloseReturns
  <2>3. ASSUME NEW p \in parents PROVE FALSE
    <3>1. KidsOf(p) \subseteq completed
      BY <1>1, <2>2, KidFacts DEF IInv, TypeOK, Unfinished
    <3>. QED
      BY <1>1, <3>1 DEF IInv, ClosedExactlyWhenComplete
  <2>. QED
    BY <2>2, <2>3
<1>2. IInv /\ [Next]_vars =>
        [\A x \in Controllers : call[x].op = "close" /\ call'[x].op = "none" =>
            /\ parents = {}
            /\ \A p \in Parents : ~ RunnerLive(p)
            /\ \A k \in Children : ~ KidLive(k)]_vars
  BY <1>1 DEF ScopeTasksEnded
<1>. QED
  BY <1>2, Invariance, PTL DEF Spec, CloseLeavesNothing

-----------------------------------------------------------------------------
(* The order of the turns. *)

\* With one operation at a time, whatever is cancelled was submitted before.
THEOREM SpareInvariance == ASSUME OneController PROVE Spec => []SpareInv
<1>1. Init => SpareInv
  BY Initially, ActorFacts
  DEF Init, SpareInv, TurnsOK, SparesOK, Registered, CancelLabels
<1>2. SpareInv /\ [Next]_vars => SpareInv'
  BY Inductively, TurnsStep, SparesStep DEF SpareInv, IInv
<1>. QED
  BY <1>1, <1>2, PTL DEF Spec

\* A cancellation selects only turns submitted before it began.
THEOREM SparesLaterTurns ==
    ASSUME OneController PROVE Spec => []CancelSparesLaterTurns
<1>1. SpareInv => CancelSparesLaterTurns
  BY DEF SpareInv, IInv, SparesOK, OperationsOK, SelectionsOK,
     CancelSparesLaterTurns
<1>. QED
  BY <1>1, SpareInvariance, PTL

\* The line is empty before the first turn is submitted.
LEMMA GateInitially == ASSUME Init PROVE GateInv
<1>. SUFFICES SpareInv /\ LineOK
  BY DEF GateInv
<1>. USE DEF Init
<1>1. SpareInv
  BY Initially, ActorFacts
  DEF SpareInv, TurnsOK, SparesOK, Registered, CancelLabels
<1>2. pc = [a \in Actors |-> "idle"]
  OBVIOUS
<1>3. QueuesOK
  <2>1. \A c \in Channels : lockQueue[c] = <<>> /\ DOMAIN lockQueue[c] = {}
    OBVIOUS
  <2>. QED
    BY <1>2, <2>1, ActorFacts DEF QueuesOK, Queued
<1>4. StagesOK /\ CalmOK /\ BlockedOK
  BY <1>2, ActorFacts, KidFacts DEF StagesOK, CalmOK, BlockedOK, KidLive, KidRunning
<1>5. TailsOK /\ ChainOK /\ GateOK
  BY DEF TailsOK, ChainOK, GateOK
<1>. QED
  BY <1>1, <1>3, <1>4, <1>5 DEF LineOK

\* Every step keeps the line, until close() begins.
LEMMA GateInductively == ASSUME Sequential, GateInv, [Next]_vars PROVE GateInv'
<1>1. SpareInv'
  BY Inductively, TurnsStep, SparesStep DEF GateInv, SpareInv, IInv, Sequential
<1>2. ASSUME ~ closed' PROVE LineOK'
  <2>1. ~ closed
    BY <1>2, ClosedStays DEF GateInv, SpareInv, IInv
  <2>. QED
    BY <1>1, <1>2, <2>1, LineStep DEF GateInv, SpareInv, OpenStep
<1>. QED
  BY <1>1, <1>2 DEF GateInv

\* The turns of a channel form a line: queued, admitted, and processed in order.
THEOREM GateInvariance == ASSUME Sequential PROVE Spec => []GateInv
BY GateInitially, GateInductively, PTL DEF Spec

\* A child is processed only when every live earlier turn of its channel is
\* semantically done.
THEOREM GatesSemantically == ASSUME Sequential PROVE Spec => []SemanticGate
<1>1. GateInv => SemanticGate
  <2>. SUFFICES ASSUME GateInv, NEW k \in Children, pc[Kid(k)] = "process",
                       ~ Interrupted(k), NEW p \in parents,
                       ChannelOf[p] = ChannelOf[k[1]], Before(<<p, 1>>, k), p # k[1]
                PROVE  SemanticDone(p)
    BY DEF SemanticGate
  <2>1. Executing(k) /\ KidLive(k)
    BY DEF Executing, KidRunning, KidLive
  <2>2. ~ closed /\ LineOK /\ k[1] \in parents
    BY <2>1 DEF GateInv, SpareInv, IInv, ClosedOK, LateChildrenAreInterrupted,
       Executing
  <2>3. pc[Runner(k[1])] = "await" /\ Earlier(p, k[1])
    BY <2>1, <2>2 DEF LineOK, StagesOK, Before, Earlier
  <2>. QED
    BY <2>2, <2>3 DEF LineOK, GateOK
<1>. QED
  BY <1>1, GateInvariance, PTL

-----------------------------------------------------------------------------
(* The order of the outputs. *)

\* No child reports or delivers anything new.
Quiet ==
    /\ UNCHANGED <<outputs, dropped>>
    /\ \A k \in Children : terminal'[Kid(k)] \in {terminal[Kid(k)], None}

\* Who reports a child, or delivers, is its own task.
LEMMA QuietFrame ==
    ASSUME TypeOK, Aborts = {}, [Next]_vars
    PROVE  Quiet \/ \E k \in Children : ChildStep(k)
<1>. USE DEF Quiet, registry, admission, progress, tasks, control
<1>. terminal \in [Actors -> Children \cup {None}] /\ pc \in [Actors -> PcValues]
  BY DEF TypeOK
<1>s. ASSUME NEW a \in Actors, \A k \in Children : a # Kid(k),
             \/ UNCHANGED terminal
             \/ \E S : StartSweep(a, S)
             \/ \E k : Terminalize(a, k)
      PROVE  \A k \in Children : terminal'[Kid(k)] \in {terminal[Kid(k)], None}
  <2>1. terminal' = terminal \/ \E k : Terminalize(a, k)
    BY <1>s DEF StartSweep
  <2>. QED
    BY <1>s, <2>1, ActorFacts DEF Terminalize
<1>1. CASE UNCHANGED vars
  BY <1>1 DEF vars
<1>2. ASSUME NEW p \in Parents,
             \/ Reject(p) \/ Register(p) \/ SubmitterCancelled(p) \/ LockAcquired(p)
             \/ Admitted(p) \/ NotAdmitted(p) \/ Withdraw(p) \/ Withdrawn(p)
             \/ ChildCreationFails(p)
      PROVE  Quiet
  <2>1. UNCHANGED <<outputs, dropped>>
    BY <1>2
    DEF Reject, Register, SubmitterCancelled, LockAcquired, Admitted, NotAdmitted,
        Withdraw, Withdrawn, ChildCreationFails, SweepOne
  <2>2. \/ UNCHANGED terminal
        \/ \E S : StartSweep(Submitter(p), S)
        \/ \E k : Terminalize(Submitter(p), k)
    BY <1>2
    DEF Reject, Register, SubmitterCancelled, LockAcquired, Admitted, NotAdmitted,
        Withdraw, Withdrawn, ChildCreationFails, SweepOne
  <2>. QED
    BY <1>s, <2>1, <2>2, ActorFacts
<1>3. ASSUME NEW p \in Parents, RunnerMoves(p)
      PROVE  \A k \in Children : terminal'[Kid(k)] \in {terminal[Kid(k)], None}
  <2>1. UNCHANGED terminal \/ \E k : Terminalize(Runner(p), k)
    BY <1>3 DEF RunnerMoves
  <2>. QED
    BY <1>s, <2>1, ActorFacts
<1>4. ASSUME NEW p \in Parents, ChildCreated(p) PROVE Quiet
  <2>1. UNCHANGED <<outputs, dropped>>
    BY <1>4 DEF ChildCreated
  <2>2. CASE ~ CancellationRequested(p) /\ StartRunner(p)
    BY <1>3, <2>1, <2>2, StartMoves
  <2>3. CASE UNCHANGED terminal \/ StartSweep(Submitter(p), {p})
    BY <1>s, <2>1, <2>3, ActorFacts
  <2>. QED
    BY <1>4, <2>2, <2>3 DEF ChildCreated, CreateNext
<1>5. ASSUME NEW p \in Parents, LoopContinues(p) PROVE Quiet
  BY <1>3, <1>5, LoopMoves DEF LoopContinues
<1>6. ASSUME NEW p \in Parents,
             Gathered(p) \/ RunnerCancelled(p) \/ RunnerSweeps(p) \/ RunnerEnds(p)
      PROVE  Quiet
  <2>1. UNCHANGED <<outputs, dropped>>
    BY <1>6 DEF Gathered, RunnerCancelled, RunnerSweeps, RunnerEnds, SweepOne
  <2>2. UNCHANGED terminal \/ \E S : StartSweep(Runner(p), S)
    BY <1>6 DEF Gathered, RunnerCancelled, RunnerSweeps, RunnerEnds, SweepOne, Unwind
  <2>. QED
    BY <1>s, <2>1, <2>2, ActorFacts
<1>7. ASSUME NEW k \in Children, ChildDropped(k) PROVE FALSE
  BY <1>7 DEF ChildDropped
<1>8. ASSUME NEW x \in Controllers, ControlMoves(x) \/ ControlSweeps(x) PROVE Quiet
  <2>1. UNCHANGED <<outputs, dropped>>
    BY <1>8
    DEF ControlMoves, ControlSweeps, SweepOne, CancelQueued, CancelStarts,
        CancelFindsNothing, OpenIngress, BeginsCancel, CancelSelected, Select,
        TasksEnded, CancelReturns, DrainLock, LockDrained, CloseScope, ScopeClosed,
        CloseReturns, BeginClose
  <2>2. UNCHANGED terminal \/ \E S : StartSweep(Control(x), S)
    BY <1>8
    DEF ControlMoves, ControlSweeps, SweepOne, CancelQueued, CancelStarts,
        CancelFindsNothing, OpenIngress, BeginsCancel, CancelSelected, Select,
        TasksEnded, CancelReturns, DrainLock, LockDrained, CloseScope, ScopeClosed,
        CloseReturns, BeginClose
  <2>. QED
    BY <1>s, <2>1, <2>2, ActorFacts
<1>9. ASSUME NEW a \in Actors, AdapterReturns(a) PROVE Quiet
  BY <1>9, ActorFacts DEF AdapterReturns, TerminalReturns, ClosedReturns
<1>. QED
  BY <1>1, <1>2, <1>4, <1>5, <1>6, <1>7, <1>8, <1>9
  DEF Next, Environment, SubmitStep, RunStep, ControlStep, ControlMoves

\* The closed event of a turn is set after it was closed.
LEMMA EventsFrame ==
    ASSUME TypeOK, TerminalsOK, [Next]_vars
    PROVE  /\ closedEvents \subseteq closedEvents'
           /\ closedEvents' \subseteq closedEvents \cup closedParents
           /\ closedParents \subseteq closedParents'
<1>. USE DEF registry, admission, progress, tasks, control
<1>1. CASE UNCHANGED vars
  BY <1>1 DEF vars
<1>2. ASSUME NEW a \in Actors, AdapterReturns(a)
      PROVE  /\ \/ closedEvents' = closedEvents
                \/ /\ closing[a] # None
                   /\ closedEvents' = closedEvents \cup {closing[a]}
             /\ closedParents \subseteq closedParents'
  BY <1>2 DEF AdapterReturns, TerminalReturns, ClosedReturns, CloseParent
<1>3. ASSUME NEW p \in Parents,
             \/ Reject(p) \/ Register(p) \/ SubmitterCancelled(p) \/ SubmitStep(p)
             \/ RunStep(p)
      PROVE  UNCHANGED closedEvents /\ closedParents \subseteq closedParents'
  BY <1>3
  DEF Reject, Register, SubmitterCancelled, SubmitStep, LockAcquired, Admitted,
      NotAdmitted, Withdraw, Withdrawn, ChildCreated, ChildCreationFails, RunStep,
      LoopContinues, Gathered, RunnerCancelled, RunnerSweeps, RunnerEnds, SweepOne
<1>4. ASSUME NEW k \in Children, ChildStep(k) \/ ChildDropped(k)
      PROVE  UNCHANGED <<closedEvents, closedParents>>
  BY <1>4
  DEF ChildStep, ChildStarted, ChildProcessed, PredecessorClosed, OutputReturns,
      ChildInterrupted, ChildEnds, ChildDropped, Deliver
<1>5. ASSUME NEW x \in Controllers, ControlMoves(x) \/ ControlSweeps(x)
      PROVE  UNCHANGED <<closedEvents, closedParents>>
  BY <1>5
  DEF ControlMoves, ControlSweeps, SweepOne, CancelQueued, CancelStarts,
      CancelFindsNothing, OpenIngress, BeginsCancel, CancelSelected, Select,
      TasksEnded, CancelReturns, DrainLock, LockDrained, CloseScope, ScopeClosed,
      CloseReturns, BeginClose
<1>. QED
  BY <1>1, <1>2, <1>3, <1>4, <1>5
  DEF Next, Environment, ControlStep, ControlMoves, TerminalsOK

\* A step while the owner is open, with all invariants of the order.
OrderStep ==
    /\ OpenStep /\ Aborts = {} /\ LineOK'
    /\ ReportsOK /\ ReadyOK /\ FrontOK /\ PublishedOK

\* The effects of such a step: only the task of a child delivers or reports for it.
LEMMA OrderEffects ==
    ASSUME OrderStep
    PROVE  \/ \E k \in Children : KidMoves(k)
           \/ /\ Quiet
              /\ \/ NothingMoves
                 \/ \E p \in Parents : \/ Register(p) \/ SubmitterMoves(p) \/ Admits(p)
                                       \/ Withdraws(p) \/ Runs(p)
                 \/ \E a \in Actors : TerminalReturns(a)
                 \/ \E x \in Controllers : Steers(x)
<1>. /\ TypeOK /\ TerminalsOK /\ SubmittersOK /\ ClosedExactlyWhenComplete
     /\ TurnsOK /\ TurnsOK' /\ [Next]_vars
     /\ pc \in [Actors -> PcValues]
  BY DEF OrderStep, OpenStep, IInv, TypeOK
<1>1. ASSUME NEW k \in Children, ChildStep(k)
      PROVE  pc'[Kid(k)] # pc[Kid(k)] /\ pc'[Kid(k)] # "started"
  BY <1>1, ActorFacts DEF ChildStep, ChildStarted, ChildProcessed,
     PredecessorClosed, OutputReturns, ChildInterrupted, ChildEnds, Deliver, Goto,
     KidRunning
<1>2. ASSUME \A k \in Children : pc'[Kid(k)] = pc[Kid(k)] \/ pc'[Kid(k)] = "started"
      PROVE  Quiet
  <2>1. Aborts = {}
    BY DEF OrderStep
  <2>2. Quiet \/ \E k \in Children : ChildStep(k)
    BY <2>1, QuietFrame
  <2>. QED
    BY <1>1, <1>2, <2>2
<1>3. ASSUME KidsStill PROVE Quiet
  BY <1>2, <1>3 DEF KidsStill
<1>4. ASSUME NEW p \in Parents, Runs(p)
      PROVE  \A k \in Children : pc'[Kid(k)] = pc[Kid(k)] \/ pc'[Kid(k)] = "started"
  <2>1. \A k \in KidsOf(p) : pc'[Kid(k)] = pc[Kid(k)] \/ pc'[Kid(k)] = "started"
    BY <1>4 DEF Runs
  <2>2. \A k \in Children : k[1] # p => pc'[Kid(k)] = pc[Kid(k)]
    BY <1>4 DEF Runs
  <2>. QED
    BY <2>1, <2>2, KidFacts
<1>5. ASSUME NEW p \in Parents,
             Register(p) \/ SubmitterMoves(p) \/ Admits(p) \/ Withdraws(p)
      PROVE  KidsStill
  BY <1>5, Registering DEF SubmitterMoves, Admits, Withdraws
<1>6. ASSUME NEW a \in Actors, TerminalReturns(a) PROVE KidsStill
  BY <1>6, Reporting
<1>7. ASSUME NEW x \in Controllers, Steers(x) PROVE KidsStill
  BY <1>7 DEF Steers
<1>8. NothingMoves => KidsStill
  BY DEF NothingMoves
<1>. QED
  BY <1>2, <1>3, <1>4, <1>5, <1>6, <1>7, <1>8, OpenEffects DEF OrderStep

\* Whoever else reports a child, the child does not execute, and is live only when
\* its turn is cancelled.
LEMMA Reporters ==
    ASSUME OrderStep, NEW a \in Actors, terminal[a] # None,
           terminal[a][1] \in parents, a # Kid(terminal[a])
    PROVE  ~ Executing(terminal[a]) /\
           (KidLive(terminal[a]) => terminal[a][1] \in cancelling)
<1>. DEFINE k == terminal[a]
            p == k[1]
<1>. /\ TerminalsOK /\ SubmittersOK /\ RunnersOK /\ SelectionsOK /\ CalmOK /\ StagesOK
     /\ ~ closed /\ RolesOK
  BY DEF OrderStep, OpenStep, IInv, LineOK
<1>0. k \in Children /\ p \in Parents /\ k \in KidsOf(p)
  BY KidFacts DEF TerminalsOK
<1>a. Executing(k) => KidLive(k)
  BY DEF Executing, KidLive
<1>1. ASSUME NEW q \in Parents, a = Submitter(q) PROVE ~ KidLive(k)
  <2>1. q = p /\ pc[Runner(p)] = "idle"
    BY <1>1, KidFacts DEF TerminalsOK, SubmittersOK
  <2>. QED
    BY <1>0, <2>1 DEF StagesOK
<1>2. ASSUME NEW q \in Parents, a = Runner(q)
      PROVE  ~ Executing(k) /\ (KidLive(k) => p \in cancelling)
  <2>1. q = p /\ pc[Runner(p)] \in {"skip", "unwind"}
    BY <1>2, KidFacts DEF TerminalsOK
  <2>. QED
    BY <1>0, <1>a, <2>1 DEF StagesOK
<1>3. ASSUME NEW j \in Children, a = Kid(j) PROVE FALSE
  BY <1>3 DEF TerminalsOK
<1>4. ASSUME NEW x \in Controllers, a = Control(x)
      PROVE  ~ Executing(k) /\ p \in cancelling
  BY <1>0, <1>4 DEF TerminalsOK, SelectionsOK
<1>. QED
  BY <1>a, <1>1, <1>2, <1>3, <1>4 DEF Actors

\* What the task of a child does in one step: its result counts before it delivers,
\* it delivers when the turn before is closed, and it is complete when it ends.
LEMMA KidWork ==
    ASSUME OrderStep, NEW k \in Children, KidMoves(k)
    PROVE  /\ pc'[Kid(k)] \in {"process", "queued", "output", "ending", "raised", "done"}
           /\ KidLive(k)' \/ k \in completed
           /\ pc'[Kid(k)] = "process" => Executing(k) /\ k \notin semantic'
           /\ KidRunning(k)' => Executing(k)
           /\ pc'[Kid(k)] \in {"queued", "output"} => k \in semantic'
           /\ pc'[Kid(k)] = "output" => OutputReady(k[1])
           /\ outputs' # outputs =>
                /\ outputs' = Append(outputs, k) /\ Executing(k) /\ OutputReady(k[1])
                /\ pc[Kid(k)] \in {"process", "queued"}
           /\ \A j \in Children \ {k} : terminal'[Kid(j)] = terminal[Kid(j)]
           /\ terminal'[Kid(k)] # None /\ k[1] \in parents \ cancelling =>
                /\ Calm(k[1]) => k \in semantic'
                /\ k \in semantic' => OutputReady(k[1])
           /\ UNCHANGED <<closedEvents, dropped>>
<1>. /\ pc \in [Actors -> PcValues] /\ Kid(k) \in Actors
     /\ terminal \in [Actors -> Children \cup {None}]
     /\ ~ closed /\ k[1] \in Parents
     /\ dropped = {}
  BY ActorFacts, KidFacts DEF OrderStep, OpenStep, IInv, TypeOK, ReportsOK
<1>. USE DEF registry, admission, progress, tasks, control, Goto, Executing,
   KidRunning, KidLive
<1>t. ASSUME UNCHANGED terminal \/ \E j : Terminalize(Kid(k), j)
      PROVE  \A j \in Children \ {k} : terminal'[Kid(j)] = terminal[Kid(j)]
  BY <1>t, ActorFacts DEF Terminalize
<1>r. /\ pc[Kid(k)] \in {"started", "process"} /\ Executing(k) => k \notin semantic
      /\ pc[Kid(k)] \in {"queued", "output"} => k \in semantic
      /\ pc[Kid(k)] = "output" => OutputReady(k[1])
  BY DEF OrderStep, ReadyOK, Ready
<1>1. CASE ChildStarted(k)
  <2>1. terminal[Kid(k)] = None
    BY <1>1 DEF ChildStarted, OrderStep, OpenStep, IInv, TerminalsOK
  <2>. QED
    BY <1>1, <1>r, <2>1 DEF ChildStarted
<1>2. CASE ChildProcessed(k)
  <2>1. Executing(k) /\ k \notin semantic
    BY <1>2, <1>r DEF ChildProcessed
  <2>2. CASE CancellationRequested(k[1])
    <3>1. k[1] \in parents \ cancelling => ~ Calm(k[1])
      BY <2>2 DEF CancellationRequested, Calm
    <3>. QED
      BY <1>2, <1>t, <2>1, <2>2, <3>1 DEF ChildProcessed
  <2>3. CASE ~ CancellationRequested(k[1]) /\ OutputReady(k[1])
    BY <1>2, <1>t, <2>1, <2>3 DEF ChildProcessed, Deliver
  <2>4. CASE ~ CancellationRequested(k[1]) /\ ~ OutputReady(k[1])
    <3>1. terminal[Kid(k)] = None
      BY <1>2 DEF ChildProcessed, OrderStep, OpenStep, IInv, TerminalsOK
    <3>. QED
      BY <1>2, <2>1, <2>4, <3>1 DEF ChildProcessed
  <2>. QED
    BY <2>2, <2>3, <2>4
<1>3. CASE PredecessorClosed(k)
  BY <1>3, <1>r, <1>t DEF PredecessorClosed, Deliver
<1>4. CASE OutputReturns(k)
  BY <1>4, <1>r, <1>t DEF OutputReturns
<1>5. CASE ChildInterrupted(k)
  <2>1. k[1] \in parents => k[1] \in cancelling
    BY <1>5 DEF ChildInterrupted, Interrupted, OrderStep, OpenStep, LineOK, CalmOK
  <2>. QED
    BY <1>5, <1>t, <2>1 DEF ChildInterrupted
<1>6. CASE ChildEnds(k)
  <2>1. k \in completed /\ terminal[Kid(k)] = None
    BY <1>6 DEF ChildEnds, Free, OrderStep, OpenStep, IInv, EndedOK
  <2>. QED
    BY <1>6, <2>1 DEF ChildEnds
<1>. QED
  BY <1>1, <1>2, <1>3, <1>4, <1>5, <1>6 DEF KidMoves, ChildStep

\* A task that starts a child was not asked to stop, and starts the next one.
LEMMA Starting ==
    ASSUME OrderStep, NEW p \in Parents, Runs(p), NEW k \in Children,
           pc'[Kid(k)] # pc[Kid(k)]
    PROVE  /\ k[1] = p /\ pc'[Kid(k)] = "started" /\ pc'[Runner(p)] = "await"
           /\ ~ CancellationRequested(p) /\ UNCHANGED kill
           /\ k \notin completed /\ ~ KidLive(k) /\ k \notin semantic
           /\ p \in parents
           /\ \A j \in KidsOf(p) : j[2] < k[2] => j \in completed
<1>. /\ StagesOK /\ ReportsOK /\ RunnersOK /\ RunnersOK' /\ ClosedExactlyWhenComplete
  BY DEF OrderStep, OpenStep, IInv, LineOK
<1>1. k[1] = p /\ k \in KidsOf(p)
  BY KidFacts DEF Runs
<1>2. pc'[Runner(p)] = "await" /\ ~ CancellationRequested(p) /\ UNCHANGED kill
  BY <1>1 DEF Runs
<1>3. PICK j \in FirstOf(KidsOf(p) \ completed) :
        \A i \in KidsOf(p) : pc'[Kid(i)] = IF i = j THEN "started" ELSE pc[Kid(i)]
  BY <1>1 DEF Runs
<1>4. j = k /\ pc'[Kid(k)] = "started"
  BY <1>1, <1>3
<1>5. k \notin completed /\ \A i \in KidsOf(p) \ completed : ~ (i[2] < k[2])
  <2>1. KidsOf(p) \ completed \in SUBSET KidsOf(p)
    OBVIOUS
  <2>2. k \in FirstOf(KidsOf(p) \ completed)
    BY <1>3, <1>4
  <2>3. \A i \in KidsOf(p) \ completed : k \in KidsOf(p) \ completed /\ ~ (i[2] < k[2])
    BY <2>1, <2>2, FirstKid
  <2>4. k \notin completed
    BY <2>2 DEF FirstOf
  <2>. QED
    BY <2>3, <2>4
<1>6. ~ KidLive(k)
  BY <1>1 DEF Runs, StagesOK
<1>7. k \notin semantic
  BY <1>5, <1>6 DEF ReportsOK
<1>8. p \in parents
  <2>1. p \in Registered
    BY <1>2 DEF Runs, RunnersOK, ChainStill, Registered
  <2>. QED
    BY <1>1, <1>5, <2>1 DEF Registered, ClosedExactlyWhenComplete
<1>. QED
  BY <1>1, <1>2, <1>4, <1>5, <1>6, <1>7, <1>8

\* What counts is reported, and what is cancelled does not execute.
LEMMA ReportsStep == ASSUME OrderStep PROVE ReportsOK'
<1>. /\ ReportsOK /\ StagesOK /\ CalmOK /\ OneController /\ TypeOK /\ TerminalsOK
     /\ SubmittersOK /\ ClosedExactlyWhenComplete /\ TurnsOK /\ TurnsOK'
     /\ RolesOK /\ RunnersOK /\ RunnersOK' /\ [Next]_vars
     /\ parents \subseteq Parents
  BY DEF OrderStep, OpenStep, IInv, LineOK, Sequential, TypeOK
<1>. DEFINE Gathers(k) == \E x \in Controllers :
                pc[Control(x)] = "gather" /\ k[1] \in call[x].selected
<1>0. ASSUME \A k \in semantic' \ completed' : KidLive(k)',
             \A k \in Children : Kid(k) \in kill' /\ KidLive(k)' => Gathers(k)',
             \A p \in cancelling' : \A k \in KidsOf(p) : ~ Executing(k)',
             \A p \in cancelling', q \in parents' :
               ChannelOf[p] = ChannelOf[q] => q \in cancelling'
      PROVE  ReportsOK'
  <2>1. closedEvents' \subseteq closedParents'
    BY EventsFrame DEF ReportsOK
  <2>2. dropped' = {}
    BY OrderEffects, KidWork DEF Quiet, ReportsOK
  <2>. QED
    BY <1>0, <2>1, <2>2 DEF ReportsOK
<1>1. /\ dropped = {} /\ dropped' = {}
  BY OrderEffects, KidWork DEF Quiet, ReportsOK
<1>2. /\ \A k \in semantic \ completed : KidLive(k)
      /\ \A k \in Children : Kid(k) \in kill /\ KidLive(k) => Gathers(k)
      /\ \A p \in cancelling : \A k \in KidsOf(p) : ~ Executing(k)
      /\ \A p \in cancelling, q \in parents :
           ChannelOf[p] = ChannelOf[q] => q \in cancelling
  BY DEF ReportsOK
<1>3. semantic \subseteq Children /\ completed \subseteq Children
  BY DEF TypeOK
<1>4. ASSUME KidsStill
      PROVE  \A k \in Children :
               (KidLive(k)' <=> KidLive(k)) /\ (KidRunning(k)' <=> KidRunning(k))
  BY <1>4 DEF KidsStill, KidLive, KidRunning
<1>5. ASSUME ControlStill
      PROVE  \A k \in Children : Gathers(k) => Gathers(k)'
  BY <1>5 DEF ControlStill
<1>6. ASSUME KidsStill, kill \subseteq kill'
      PROVE  \A k \in Children : Executing(k)' => Executing(k)
  BY <1>1, <1>4, <1>6 DEF Executing, Interrupted
<1>. \A p \in Parents : \A k \in KidsOf(p) : k \in Children
  BY KidFacts
<1>. HIDE DEF Gathers
\* The kids, the operations and what counts are left alone.
<1>7. ASSUME KidsStill, ControlStill, UNCHANGED <<cancelling, kill, completed, semantic>>,
             \A p \in cancelling, q \in parents' :
               ChannelOf[p] = ChannelOf[q] => q \in cancelling
      PROVE  ReportsOK'
  <2>1. cancelling \subseteq Parents
    BY DEF TypeOK
  <2>. QED
    BY <1>0, <1>2, <1>3, <1>4, <1>5, <1>6, <1>7, <2>1
<1>8. ASSUME \/ NothingMoves
             \/ \E p \in Parents : SubmitterMoves(p) \/ Admits(p) \/ Withdraws(p)
      PROVE  ReportsOK'
  BY <1>2, <1>7, <1>8 DEF NothingMoves, SubmitterMoves, Admits, Withdraws, ChainStill
<1>9. ASSUME NEW p \in Parents, Register(p) PROVE ReportsOK'
  <2>1. /\ KidsStill /\ ControlStill /\ UNCHANGED <<cancelling, kill, completed, semantic>>
        /\ parents' \subseteq parents \cup {p} /\ Calm(p)
    BY <1>9, Registering DEF Calm
  <2>2. ASSUME NEW q \in cancelling, ChannelOf[q] = ChannelOf[p] PROVE FALSE
    BY <2>1, <2>2 DEF StagesOK, CalmOK, Calm
  <2>. QED
    BY <1>2, <1>7, <2>1, <2>2
<1>10. ASSUME NEW a \in Actors, TerminalReturns(a) PROVE ReportsOK'
  <2>1. /\ KidsStill /\ ControlStill /\ UNCHANGED kill
        /\ completed' = completed \cup {terminal[a]}
        /\ semantic' = semantic \cup {terminal[a]}
        /\ \/ UNCHANGED <<parents, cancelling>>
           \/ \E p \in Parents : parents' = parents \ {p} /\ cancelling' = cancelling \ {p}
    BY <1>10, Reporting
  <2>2. cancelling \subseteq Parents
    BY DEF TypeOK
  <2>3. \A p \in cancelling', q \in parents' :
          ChannelOf[p] = ChannelOf[q] => q \in cancelling'
    BY <1>2, <2>1
  <2>4. \A k \in semantic' \ completed' : KidLive(k)'
    BY <1>2, <1>3, <1>4, <2>1
  <2>5. cancelling' \subseteq cancelling
    BY <2>1
  <2>6. \A p \in cancelling' : \A k \in KidsOf(p) : ~ Executing(k)'
    BY <1>2, <1>6, <2>1, <2>2, <2>5
  <2>7. \A k \in Children : Kid(k) \in kill' /\ KidLive(k)' => Gathers(k)'
    BY <1>2, <1>4, <1>5, <2>1
  <2>. QED
    BY <1>0, <2>3, <2>4, <2>6, <2>7
<1>11. ASSUME NEW k \in Children, KidMoves(k) PROVE ReportsOK'
  <2>1. /\ ControlStill /\ UNCHANGED <<parents, cancelling, kill, completed>>
        /\ \A j \in Children \ {k} : pc'[Kid(j)] = pc[Kid(j)]
        /\ KidLive(k) /\ semantic' \subseteq semantic \cup {k}
        /\ KidLive(k)' \/ k \in completed
        /\ pc'[Kid(k)] = "process" => Executing(k)
    BY <1>11, KidWork DEF KidMoves, ChainStill
  <2>2. cancelling \subseteq Parents
    BY DEF TypeOK
  <2>3. \A j \in Children \ {k} :
          /\ KidLive(j)' <=> KidLive(j)
          /\ Executing(j)' <=> Executing(j)
    BY <1>1, <2>1 DEF KidLive, KidRunning, Executing, Interrupted
  <2>4. Executing(k)' => Executing(k)
    BY <1>11, KidWork DEF Executing
  <2>5. \A j \in semantic' \ completed' : KidLive(j)'
    BY <1>2, <1>3, <2>1, <2>3
  <2>6. \A p \in cancelling' : \A j \in KidsOf(p) : ~ Executing(j)'
    BY <1>2, <2>1, <2>2, <2>3, <2>4
  <2>7. \A j \in Children : Kid(j) \in kill' /\ KidLive(j)' => Gathers(j)'
    BY <1>2, <1>5, <2>1, <2>3
  <2>. QED
    BY <1>0, <1>2, <2>1, <2>5, <2>6, <2>7
<1>12. ASSUME NEW s \in Parents, Runs(s) PROVE ReportsOK'
  <2>1. /\ ControlStill /\ UNCHANGED <<parents, cancelling, completed, semantic>>
        /\ kill' \subseteq kill
        /\ \A k \in Children : Kid(k) \in kill <=> Kid(k) \in kill'
    BY <1>12, ActorFacts DEF Runs, ChainStill
  <2>2. cancelling \subseteq Parents
    BY DEF TypeOK
  <2>3. ASSUME NEW k \in Children, pc'[Kid(k)] = pc[Kid(k)]
        PROVE  (KidLive(k)' <=> KidLive(k)) /\ (Executing(k)' <=> Executing(k))
    BY <1>1, <2>1, <2>3 DEF KidLive, KidRunning, Executing, Interrupted
  <2>4. ASSUME NEW k \in Children, pc'[Kid(k)] # pc[Kid(k)]
        PROVE  KidLive(k)' /\ k[1] \notin cancelling /\ Kid(k) \notin kill'
    <3>1. /\ k[1] = s /\ pc'[Kid(k)] = "started" /\ ~ CancellationRequested(s)
          /\ s \in parents
      BY <1>12, <2>4, Starting
    <3>2. k[1] \notin cancelling
      BY <3>1 DEF CancellationRequested
    <3>3. Kid(k) \notin kill
      BY <3>1, <3>2 DEF CalmOK
    <3>. QED
      BY <2>1, <3>1, <3>2, <3>3 DEF KidLive, KidRunning
  <2>5. \A k \in semantic' \ completed' : KidLive(k)'
    BY <1>2, <1>3, <2>1, <2>3, <2>4
  <2>6. \A p \in cancelling' : \A k \in KidsOf(p) : ~ Executing(k)'
    BY <1>2, <2>1, <2>2, <2>3, <2>4, KidFacts
  <2>7. \A k \in Children : Kid(k) \in kill' /\ KidLive(k)' => Gathers(k)'
    BY <1>2, <1>5, <2>1, <2>3, <2>4
  <2>. QED
    BY <1>0, <1>2, <2>1, <2>5, <2>6, <2>7
<1>13. ASSUME NEW x \in Controllers, Steers(x) PROVE ReportsOK'
  <2>1. /\ UNCHANGED <<parents, completed, semantic>> /\ KidsStill
    BY <1>13 DEF Steers
  <2>2. cancelling \subseteq Parents
    BY DEF TypeOK
  <2>3. \A k \in semantic' \ completed' : KidLive(k)'
    BY <1>2, <1>3, <1>4, <2>1
  <2>4. CASE UNCHANGED <<cancelling, kill>>
    <3>1. ASSUME NEW k \in Children, Kid(k) \in kill, KidLive(k) PROVE FALSE
      <4>1. PICK y \in Controllers : pc[Control(y)] = "gather" /\ k[1] \in call[y].selected
        BY <1>2, <3>1 DEF Gathers
      <4>2. y = x
        BY DEF OneController
      <4>3. \A p \in call[x].selected : ~ RunnerLive(p)
        <5>1. pc[Control(x)] = "gather"
          BY <4>1, <4>2
        <5>. QED
          BY <1>13, <5>1 DEF Steers
      <4>. QED
        BY <3>1, <4>1, <4>2, <4>3 DEF StagesOK, RunnerLive
    <3>2. \A p \in cancelling' : \A k \in KidsOf(p) : ~ Executing(k)'
      BY <1>2, <1>6, <2>1, <2>2, <2>4
    <3>3. \A k \in Children : Kid(k) \in kill' /\ KidLive(k)' => Gathers(k)'
      BY <1>4, <2>1, <2>4, <3>1
    <3>. QED
      BY <1>0, <1>2, <2>1, <2>3, <2>4, <3>2, <3>3
  <2>5. ASSUME NEW c \in Channels, pc[Control(x)] \in {"idle", "lock"},
               call'[x].selected = Selected(c),
               cancelling' = cancelling \cup Selected(c),
               kill' = kill \cup KilledWith(Selected(c)),
               IF \E p \in Selected(c) : RunnerLive(p)
                 THEN pc'[Control(x)] = "gather"
                 ELSE pc'[Control(x)] = "sweep"
        PROVE  ReportsOK'
    <3>1. Selected(c) \in SUBSET Parents
      BY DEF Selected
    <3>2. \A k \in Children : Kid(k) \in kill' <=>
            Kid(k) \in kill \/ (k[1] \in Selected(c) /\ KidLive(k) /\ RunnerLive(k[1]))
      BY <2>5, <3>1, KilledFacts
    <3>3. \A p \in cancelling', q \in parents' :
            ChannelOf[p] = ChannelOf[q] => q \in cancelling'
      BY <1>2, <2>1, <2>5 DEF Selected
    <3>4. ASSUME NEW p \in cancelling', NEW k \in KidsOf(p), Executing(k)'
          PROVE  FALSE
      <4>1. Executing(k) /\ k[1] = p /\ k \in Children /\ KidLive(k)
        BY <1>6, <2>1, <2>2, <2>5, <3>1, <3>4, KidFacts DEF Executing, KidLive
      <4>2. p \in Selected(c)
        BY <1>2, <2>5, <4>1
      <4>3. RunnerLive(p)
        BY <4>1 DEF StagesOK, RunnerLive
      <4>4. Kid(k) \in kill'
        BY <3>2, <4>1, <4>2, <4>3
      <4>. QED
        BY <3>4, <4>4 DEF Executing, Interrupted
    <3>5. ASSUME NEW k \in Children, Kid(k) \in kill', KidLive(k)' PROVE Gathers(k)'
      <4>1. KidLive(k)
        BY <1>4, <2>1, <3>5
      <4>2. Kid(k) \notin kill
        BY <1>2, <2>5, <4>1 DEF Gathers, OneController
      <4>3. k[1] \in Selected(c) /\ RunnerLive(k[1])
        BY <3>2, <3>5, <4>2
      <4>. QED
        BY <2>5, <4>3 DEF Gathers
    <3>. QED
      BY <1>0, <2>3, <3>3, <3>4, <3>5
  <2>. QED
    BY <1>13, <2>4, <2>5 DEF Steers
<1>. QED
  BY <1>8, <1>9, <1>10, <1>11, <1>12, <1>13, OrderEffects

\* A child whose task and whose results are left alone stays ready.
LEMMA ReadyKept ==
    ASSUME OrderStep, Quiet, NEW k \in Children, pc'[Kid(k)] = pc[Kid(k)],
           predecessor'[k[1]] = predecessor[k[1]] \/ ~ KidLive(k),
           Kid(k) \in kill => Kid(k) \in kill', k \in semantic' <=> k \in semantic,
           KidLive(k) /\ k[1] \in parents' \ cancelling' =>
             k[1] \in parents \ cancelling /\ (Calm(k[1])' => Calm(k[1]))
    PROVE  Ready(k)'
<1>1. Ready(k) /\ (terminal[Kid(k)] # None => pc[Kid(k)] = "ending")
  BY DEF OrderStep, OpenStep, IInv, ReadyOK, TerminalsOK
<1>2. Executing(k)' => Executing(k)
  BY DEF Executing, KidRunning, Interrupted, OrderStep, ReportsOK, Quiet
<1>3. KidLive(k) /\ OutputReady(k[1]) => OutputReady(k[1])'
  <2>1. closedEvents \subseteq closedEvents'
    BY EventsFrame DEF OrderStep, OpenStep, IInv
  <2>. QED
    BY <2>1 DEF OutputReady
<1>4. terminal'[Kid(k)] # None => terminal[Kid(k)] # None /\ KidLive(k)
  BY <1>1 DEF Quiet, KidLive
<1>5. pc[Kid(k)] \in {"queued", "output"} => KidLive(k)
  BY DEF KidLive, KidRunning
<1>. QED
  BY <1>1, <1>2, <1>3, <1>4, <1>5 DEF Ready

\* A child delivers only when it is ready to.
LEMMA ReadyStep == ASSUME OrderStep PROVE ReadyOK'
<1>. /\ ReadyOK /\ ReportsOK /\ StagesOK /\ TypeOK /\ TerminalsOK /\ SubmittersOK
     /\ ClosedExactlyWhenComplete /\ TurnsOK /\ TurnsOK' /\ RunnersOK
     /\ LateChildrenAreInterrupted /\ OneController /\ BlockedOK
     /\ [Next]_vars /\ parents \subseteq Parents
  BY DEF OrderStep, OpenStep, IInv, LineOK, Sequential, TypeOK
<1>. \A k \in Children : k[1] \in Parents /\ k \in KidsOf(k[1])
  BY KidFacts
<1>1. ASSUME \/ NothingMoves
             \/ \E p \in Parents : SubmitterMoves(p) \/ Withdraws(p),
             Quiet
      PROVE  ReadyOK'
  <2>1. /\ KidsStill /\ UNCHANGED <<predecessor, kill, semantic, parents, cancelling, blocked>>
    BY <1>1 DEF NothingMoves, SubmitterMoves, Withdraws, ChainStill, ControlStill
  <2>. QED
    BY <1>1, <2>1, ReadyKept DEF KidsStill, ReadyOK, Calm
<1>2. ASSUME NEW p \in Parents, Admits(p), Quiet PROVE ReadyOK'
  <2>1. /\ KidsStill /\ UNCHANGED <<kill, semantic, parents, cancelling, blocked>>
        /\ \A q \in Parents \ {p} : predecessor'[q] = predecessor[q]
    BY <1>2 DEF Admits, ControlStill
  <2>2. \A k \in KidsOf(p) : ~ KidLive(k)
    BY <1>2 DEF Admits, SubmittersOK, RunnersOK, KidLive, KidRunning
  <2>. QED
    BY <1>2, <2>1, <2>2, ReadyKept DEF KidsStill, ReadyOK, Calm
<1>3. ASSUME NEW p \in Parents, Register(p), Quiet PROVE ReadyOK'
  <2>1. /\ KidsStill /\ ControlStill /\ UNCHANGED <<predecessor, kill, semantic, cancelling>>
        /\ parents' \subseteq parents \cup {p} /\ pc[Runner(p)] = "idle"
    BY <1>3, Registering
  <2>2. \A k \in KidsOf(p) : ~ KidLive(k)
    BY <2>1 DEF RunnersOK, KidLive, KidRunning
  <2>. QED
    BY <1>3, <2>1, <2>2, ReadyKept DEF KidsStill, ControlStill, ReadyOK, Calm
<1>4. ASSUME NEW p \in Parents, Runs(p), Quiet PROVE ReadyOK'
  <2>. SUFFICES ASSUME NEW k \in Children PROVE Ready(k)'
    BY DEF ReadyOK
  <2>1. /\ UNCHANGED <<predecessor, semantic, parents, cancelling, blocked>>
        /\ Kid(k) \in kill => Kid(k) \in kill'
    BY <1>4, ActorFacts DEF Runs, ChainStill, ControlStill
  <2>2. CASE pc'[Kid(k)] = pc[Kid(k)]
    BY <1>4, <2>1, <2>2, ReadyKept DEF Calm
  <2>3. CASE pc'[Kid(k)] # pc[Kid(k)]
    <3>1. pc'[Kid(k)] = "started" /\ k \notin semantic /\ ~ KidLive(k)
      BY <1>4, <2>3, Starting
    <3>2. terminal[Kid(k)] = None
      BY <3>1 DEF TerminalsOK, KidLive
    <3>. QED
      BY <1>4, <2>1, <3>1, <3>2 DEF Ready, Quiet
  <2>. QED
    BY <2>2, <2>3
<1>5. ASSUME NEW x \in Controllers, Steers(x), Quiet PROVE ReadyOK'
  <2>. SUFFICES ASSUME NEW k \in Children PROVE Ready(k)'
    BY DEF ReadyOK
  <2>1. /\ KidsStill /\ UNCHANGED <<predecessor, semantic, parents>>
        /\ kill \subseteq kill' /\ cancelling \subseteq cancelling'
    BY <1>5 DEF Steers
  <2>2. k[1] \in parents /\ Calm(k[1])' => Calm(k[1])
    BY <1>5, Unblocking, ChannelFacts DEF Calm, Selected
  <2>. QED
    BY <1>5, <2>1, <2>2, ReadyKept DEF KidsStill
<1>6. ASSUME NEW a \in Actors, TerminalReturns(a), Quiet PROVE ReadyOK'
  <2>. SUFFICES ASSUME NEW k \in Children PROVE Ready(k)'
    BY DEF ReadyOK
  <2>1. /\ KidsStill /\ ControlStill /\ UNCHANGED <<predecessor, kill>>
        /\ semantic' = semantic \cup {terminal[a]}
        /\ \/ UNCHANGED <<parents, cancelling>>
           \/ \E p : parents' = parents \ {p} /\ cancelling' = cancelling \ {p}
        /\ terminal[a] # None /\ terminal' = [terminal EXCEPT ![a] = None]
    BY <1>6, Reporting DEF TerminalReturns
  <2>2. k[1] \in parents' \ cancelling' => k[1] \in parents \ cancelling
    BY <2>1
  <2>3. CASE k # terminal[a]
    BY <1>6, <2>1, <2>2, <2>3, ReadyKept DEF KidsStill, ControlStill, Calm
  <2>4. CASE k = terminal[a] /\ a = Kid(k)
    <3>1. pc'[Kid(k)] = "ending" /\ terminal'[Kid(k)] = None
      BY <2>1, <2>4 DEF TerminalsOK, KidsStill, TypeOK
    <3>. QED
      BY <3>1 DEF Ready
  <2>5. CASE k = terminal[a] /\ a # Kid(k)
    <3>1. ~ Executing(k) /\ (KidLive(k) => k[1] \notin parents \ cancelling)
      BY <2>1, <2>5, Reporters DEF LateChildrenAreInterrupted, Executing
    <3>2. ~ Executing(k)'
      BY <2>1, <3>1 DEF Executing, KidsStill, KidRunning, Interrupted, Quiet, ReportsOK
    <3>3. terminal'[Kid(k)] # None => KidLive(k)
      BY <1>6 DEF Quiet, TerminalsOK, KidLive
    <3>4. pc'[Kid(k)] = "output" => OutputReady(k[1])'
      <4>1. closedEvents \subseteq closedEvents'
        BY EventsFrame
      <4>. QED
        BY <2>1, <4>1 DEF KidsStill, ReadyOK, Ready, OutputReady
    <3>. QED
      BY <2>1, <2>2, <2>5, <3>1, <3>2, <3>3, <3>4 DEF Ready
  <2>. QED
    BY <2>3, <2>4, <2>5
<1>7. ASSUME NEW j \in Children, KidMoves(j) PROVE ReadyOK'
  <2>. SUFFICES ASSUME NEW k \in Children PROVE Ready(k)'
    BY DEF ReadyOK
  <2>1. /\ UNCHANGED <<predecessor, parents, cancelling, blocked, kill, closedEvents, dropped>>
        /\ \A i \in Children \ {j} :
             pc'[Kid(i)] = pc[Kid(i)] /\ terminal'[Kid(i)] = terminal[Kid(i)]
        /\ semantic' \subseteq semantic \cup {j} /\ semantic \subseteq semantic'
    BY <1>7, KidWork DEF KidMoves, ChainStill, ControlStill
  <2>2. (OutputReady(k[1])' <=> OutputReady(k[1])) /\ (Calm(k[1])' <=> Calm(k[1]))
    BY <2>1 DEF OutputReady, Calm
  <2>3. CASE k # j
    <3>1. Executing(k)' <=> Executing(k)
      BY <2>1, <2>3 DEF Executing, KidRunning, Interrupted
    <3>. QED
      BY <2>1, <2>2, <2>3, <3>1 DEF ReadyOK, Ready
  <2>4. CASE k = j
    BY <1>7, <2>1, <2>2, <2>4, KidWork DEF Ready
  <2>. QED
    BY <2>3, <2>4
<1>. QED
  BY <1>1, <1>2, <1>3, <1>4, <1>5, <1>6, <1>7, OrderEffects

\* A turn that is closed while its channel is calm, or after all its results count,
\* is the first of its channel.
LEMMA LeavesAsFirst ==
    ASSUME OrderStep, NEW a \in Actors, terminal[a] # None, NEW s \in parents,
           terminal[a][1] = s, terminal[a] \notin completed,
           \/ Calm(s) /\ ~ Queued(s)
           \/ s \notin cancelling /\ SemanticDone(s)
    PROVE  \A q \in parents : ~ Earlier(q, s)
<1>. PICK k : k = terminal[a]
  OBVIOUS
<1>. /\ TypeOK /\ TerminalsOK /\ RolesOK /\ SelectionsOK /\ OperationsOK /\ SparesOK
     /\ StagesOK /\ CalmOK /\ ReportsOK /\ ReadyOK /\ FrontOK /\ ~ closed /\ Dual = {}
  BY DEF OrderStep, OpenStep, IInv, LineOK, Sequential
<1>1. k \in Children /\ k \in KidsOf(s) /\ s \in Parents
  BY KidFacts DEF TerminalsOK
<1>2. SUFFICES /\ AheadClosed(s)
               /\ \/ s \notin cancelling /\ pc[Runner(s)] = "await"
                  \/ Calm(s) /\ ~ Queued(s)
  BY DEF FrontOK
<1>3. ASSUME a = Kid(k), k \in semantic, s \notin cancelling PROVE AheadClosed(s)
  <2>1. OutputReady(s)
    BY <1>1, <1>3 DEF ReadyOK, Ready
  <2>. QED
    BY <2>1 DEF OutputReady, AheadClosed, ReportsOK
<1>4. CASE Calm(s) /\ ~ Queued(s)
  <2>1. a = Kid(k)
    BY <1>4, CalmReports DEF Queued
  <2>2. s \notin cancelling
    BY <1>4 DEF CalmOK
  <2>3. k \in semantic
    BY <1>1, <1>4, <2>1, <2>2 DEF ReadyOK, Ready
  <2>. QED
    BY <1>3, <1>4, <2>1, <2>2, <2>3
<1>5. CASE s \notin cancelling /\ SemanticDone(s)
  <2>1. k \in semantic \ completed
    BY <1>1, <1>5 DEF SemanticDone
  <2>2. KidLive(k)
    BY <2>1 DEF ReportsOK
  <2>3. a = Kid(k)
    BY <1>5, <2>2, Reporters
  <2>4. pc[Runner(s)] = "await"
    BY <1>1, <2>2 DEF StagesOK
  <2>. QED
    BY <1>3, <1>5, <2>1, <2>3, <2>4
<1>. QED
  BY <1>4, <1>5

\* Who is ahead of everyone stays ahead of everyone.
LEMMA FrontStep == ASSUME OrderStep PROVE FrontOK'
<1>. DEFINE First(p) == AheadClosed(p) /\ p \notin cancelling /\ pc[Runner(p)] = "await" =>
                           \A q \in parents : ~ Earlier(q, p)
            Leads(p) == AheadClosed(p) /\ Calm(p) /\ ~ Queued(p) =>
                           \A q \in parents : ~ Earlier(q, p)
            Tailed(p) == Calm(p) /\ tails[ChannelOf[p]] = None => Queued(p)
<1>. /\ TypeOK /\ TerminalsOK /\ SubmittersOK /\ SubmittersOK' /\ RolesOK /\ ChainOK /\ GateOK
     /\ TailsOK /\ CalmOK /\ ReportsOK /\ BlockedOK /\ OneController
     /\ ClosedExactlyWhenComplete /\ TurnsOK /\ TurnsOK' /\ RunnersOK
     /\ [Next]_vars /\ parents \subseteq Parents /\ Registered \subseteq Parents
     /\ parents \subseteq Registered
  BY DEF OrderStep, OpenStep, IInv, LineOK, Sequential, TypeOK, Registered
<1>0. \A p \in parents : First(p) /\ Leads(p) /\ Tailed(p)
  BY DEF OrderStep, FrontOK
<1>00. ASSUME \A p \in parents' : First(p)' /\ Leads(p)' /\ Tailed(p)' PROVE FrontOK'
  BY <1>00 DEF FrontOK
<1>q. \A p \in Parents : Queued(p) => pc[Runner(p)] = "idle"
  BY DEF Queued, SubmittersOK
<1>r. \A p \in Parents : Queued(p)' => pc'[Runner(p)] = "idle"
  BY DEF Queued, SubmittersOK
<1>c. \A p \in Parents : ChannelOf[p] \in Channels
  BY ChannelFacts
\* The turns and their tasks are left alone.
<1>1. ASSUME UNCHANGED <<parents, closedParents, tails, predecessor, turn>>,
             cancelling \subseteq cancelling', RunnersStill,
             \A p \in parents : Queued(p)' <=> Queued(p),
             \A p \in parents : Calm(p)' => Calm(p)
      PROVE  FrontOK'
  <2>1. \A p \in parents : AheadClosed(p)' <=> AheadClosed(p)
    BY <1>1 DEF AheadClosed
  <2>2. \A p, q \in parents : Earlier(q, p)' <=> Earlier(q, p)
    BY <1>1 DEF Earlier
  <2>. QED
    BY <1>0, <1>00, <1>1, <2>1, <2>2 DEF RunnersStill
<1>2. ASSUME \/ NothingMoves \/ \E k \in Children : KidMoves(k)
             \/ \E p \in Parents : SubmitterMoves(p)
      PROVE  FrontOK'
  <2>1. /\ UNCHANGED <<parents, closedParents, tails, predecessor, turn, cancelling, blocked>>
        /\ RunnersStill
    BY <1>2 DEF NothingMoves, KidMoves, SubmitterMoves, ChainStill, ControlStill
  <2>2. \A p \in parents : Queued(p)' <=> Queued(p)
    BY <1>2, QueuedStays DEF NothingMoves, KidMoves
  <2>. QED
    BY <1>1, <2>1, <2>2 DEF Calm
<1>3. ASSUME NEW p \in Parents, Withdraws(p) PROVE FrontOK'
  <2>1. /\ UNCHANGED <<parents, closedParents, tails, predecessor, turn, cancelling, blocked>>
        /\ RunnersStill /\ p \notin parents
    BY <1>3 DEF Withdraws, ControlStill
  <2>2. \A q \in parents : Queued(q)' <=> Queued(q)
    BY <1>3, <2>1, QueuedStays
  <2>. QED
    BY <1>1, <2>1, <2>2 DEF Calm
<1>4. ASSUME NEW x \in Controllers, Steers(x) PROVE FrontOK'
  <2>1. /\ UNCHANGED <<parents, closedParents, tails, predecessor, turn>>
        /\ RunnersStill /\ SubmittersStill /\ cancelling \subseteq cancelling'
    BY <1>4 DEF Steers
  <2>2. \A q \in parents : Queued(q)' <=> Queued(q)
    BY <2>1, QueuedStays
  <2>3. \A q \in parents : Calm(q)' => Calm(q)
    BY <1>4, <1>c, Unblocking DEF Calm, Selected
  <2>. QED
    BY <1>1, <2>1, <2>2, <2>3
<1>5. ASSUME NEW p \in Parents, Runs(p) PROVE FrontOK'
  <2>1. /\ UNCHANGED <<parents, closedParents, tails, predecessor, turn, cancelling, blocked>>
        /\ \A q \in Parents \ {p} : pc'[Runner(q)] = pc[Runner(q)]
        /\ pc'[Runner(p)] = "await" => Calm(p)
    BY <1>5 DEF Runs, ChainStill, ControlStill, CancellationRequested, Calm
  <2>2. \A q \in Parents : Queued(q)' <=> Queued(q)
    BY <1>5, QueuedStays
  <2>3. \A q \in parents : AheadClosed(q)' <=> AheadClosed(q)
    BY <2>1 DEF AheadClosed
  <2>4. \A q, r \in parents : Earlier(r, q)' <=> Earlier(r, q)
    BY <2>1 DEF Earlier
  <2>5. \A q \in parents : Calm(q)' <=> Calm(q)
    BY <2>1 DEF Calm
  <2>6. \A q \in parents : First(q)'
    <3>. SUFFICES ASSUME NEW q \in parents, First(q)!1' PROVE \A r \in parents : ~ Earlier(r, q)
      BY <2>1, <2>4
    <3>1. CASE q = p
      <4>1. ~ Queued(q)
        BY <1>r, <2>2
      <4>. QED
        BY <1>0, <2>1, <2>3, <3>1, <4>1
    <3>2. CASE q # p
      BY <1>0, <2>1, <2>3, <3>2
    <3>. QED
      BY <3>1, <3>2
  <2>. QED
    BY <1>0, <1>00, <2>1, <2>2, <2>3, <2>4, <2>5, <2>6
<1>6. ASSUME NEW p \in Parents, Admits(p) PROVE FrontOK'
  <2>1. /\ UNCHANGED <<parents, closedParents, turn, cancelling, blocked>> /\ RunnersStill
        /\ \A q \in Parents :
             predecessor'[q] = IF q = p THEN tails[ChannelOf[p]] ELSE predecessor[q]
        /\ \A c \in Channels : tails'[c] = IF c = ChannelOf[p] THEN p ELSE tails[c]
        /\ p \in parents /\ Calm(p) /\ pc[Submitter(p)] = "admitting"
    BY <1>6 DEF Admits, ControlStill, CancellationRequested, Calm
  <2>2. \A q \in Parents : Queued(q)' <=> Queued(q) /\ q # p
    BY <1>6, QueuedStays
  <2>3. \A q \in parents : q # p => (AheadClosed(q)' <=> AheadClosed(q))
    BY <2>1 DEF AheadClosed
  <2>4. \A q, r \in parents : Earlier(r, q)' <=> Earlier(r, q)
    BY <2>1 DEF Earlier
  <2>5. \A q \in parents : Calm(q)' <=> Calm(q)
    BY <2>1 DEF Calm
  <2>6. ASSUME AheadClosed(p)', NEW q \in parents PROVE ~ Earlier(q, p)
    <3>1. tails[ChannelOf[p]] = None
      BY <1>c, <2>1, <2>6 DEF AheadClosed, TailsOK, ClosedExactlyWhenComplete
    <3>2. CASE q # p /\ ChannelOf[q] = ChannelOf[p]
      <4>1. Queued(q)
        BY <1>0, <2>1, <3>1, <3>2 DEF Calm
      <4>2. Earlier(p, q)
        BY <2>1, <3>2, <4>1, HolderFacts DEF OrderStep
      <4>. QED
        BY <4>2, EarlierOrder
    <3>3. CASE q = p
      BY <3>3, EarlierOrder
    <3>4. CASE ChannelOf[q] # ChannelOf[p]
      BY <3>4 DEF Earlier
    <3>. QED
      BY <3>2, <3>3, <3>4
  <2>7. \A q \in parents : Tailed(q)'
    BY <1>0, <1>c, <2>1, <2>2, <2>5, KidFacts
  <2>. QED
    BY <1>0, <1>00, <2>1, <2>2, <2>3, <2>4, <2>5, <2>6, <2>7 DEF RunnersStill
<1>7. ASSUME NEW p \in Parents, Register(p) PROVE FrontOK'
  <2>1. /\ UNCHANGED <<tails, cancelling, predecessor>> /\ ControlStill /\ RunnersStill
        /\ \A q \in Parents \ {p} : pc'[Submitter(q)] = pc[Submitter(q)]
        /\ p \notin Registered /\ pc[Runner(p)] = "idle"
        /\ parents' \subseteq parents \cup {p} /\ Registered' = Registered \cup {p}
        /\ \A q, r \in Registered : Earlier(q, r)' <=> Earlier(q, r)
        /\ \A q \in Registered : ~ Earlier(p, q)'
    BY <1>7, Registering
  <2>2. p \in parents' => Queued(p)'
    BY <1>7, Registering DEF Registered, ClosedExactlyWhenComplete
  <2>3. \A q \in parents : (Queued(q)' <=> Queued(q)) /\ (Calm(q)' <=> Calm(q))
    BY <2>1 DEF Queued, Calm, ControlStill
  <2>4. ASSUME NEW q \in parents, ~ Queued(q), AheadClosed(q)' PROVE AheadClosed(q)
    <3>1. predecessor[q] # None => predecessor[q] \in Registered
      BY <2>4 DEF ChainOK
    <3>2. closedParents' \subseteq closedParents \cup {p}
      BY <1>7 DEF Register
    <3>. QED
      BY <2>1, <2>4, <3>1, <3>2 DEF AheadClosed
  <2>5. ASSUME NEW q \in parents, \A r \in parents : ~ Earlier(r, q)
        PROVE  \A r \in parents' : ~ Earlier(r, q)'
    BY <2>1, <2>5
  <2>6. \A q \in parents : First(q)' /\ Leads(q)' /\ Tailed(q)'
    BY <1>0, <1>q, <2>1, <2>3, <2>4, <2>5 DEF RunnersStill
  <2>7. p \in parents' => First(p)' /\ Leads(p)' /\ Tailed(p)'
    BY <1>r, <2>2
  <2>. QED
    BY <1>00, <2>1, <2>6, <2>7
<1>8. ASSUME NEW a \in Actors, TerminalReturns(a) PROVE FrontOK'
  <2>1. /\ UNCHANGED <<predecessor, turn>> /\ ControlStill /\ SubmittersStill /\ RunnersStill
        /\ terminal[a] # None
    BY <1>8, Reporting DEF TerminalReturns
  <2>2. \A q \in Parents : (Queued(q)' <=> Queued(q)) /\ (Calm(q)' <=> Calm(q))
    BY <2>1, QueuedStays DEF Calm, ControlStill
  <2>3. CASE UNCHANGED <<parents, closedParents, cancelling, tails>>
    BY <1>1, <2>1, <2>2, <2>3
  <2>4. ASSUME NEW s \in parents, s = terminal[a][1], terminal[a] \notin completed,
               parents' = parents \ {s}, closedParents' = closedParents \cup {s},
               cancelling' = cancelling \ {s},
               \A c \in Channels : tails'[c] = IF tails[c] = s THEN None ELSE tails[c]
        PROVE  FrontOK'
    <3>1. \A p, q \in parents : Earlier(q, p)' <=> Earlier(q, p)
      BY <2>1 DEF Earlier
    <3>2. \A p \in parents : AheadClosed(p)' => AheadClosed(p) \/ predecessor[p] = s
      BY <2>1, <2>4 DEF AheadClosed
    <3>3. ASSUME NEW p \in parents, predecessor[p] = s, ~ Queued(p)
          PROVE  /\ Earlier(s, p) /\ ~ Queued(s) /\ ChannelOf[s] = ChannelOf[p]
                 /\ \A q \in parents : Earlier(q, p) => q = s \/ Earlier(q, s)
      BY <3>3, KidFacts DEF ChainOK, Earlier
    <3>4. ASSUME NEW p \in parents', First(p)!1', predecessor[p] = s
          PROVE  \A q \in parents' : ~ Earlier(q, p)
      <4>1. ~ Queued(p) /\ p \in parents /\ p \notin cancelling /\ pc[Runner(p)] = "await"
        BY <1>q, <2>1, <2>4, <3>4 DEF RunnersStill
      <4>2. s \notin cancelling
        BY <3>3, <3>4, <4>1 DEF ReportsOK
      <4>3. SemanticDone(s)
        BY <3>3, <3>4, <4>1 DEF GateOK
      <4>4. \A q \in parents : ~ Earlier(q, s)
        BY <2>1, <2>4, <4>2, <4>3, LeavesAsFirst
      <4>. QED
        BY <2>4, <3>3, <3>4, <4>1, <4>4
    <3>5. ASSUME NEW p \in parents', Leads(p)!1', predecessor[p] = s
          PROVE  \A q \in parents' : ~ Earlier(q, p)
      <4>1. ~ Queued(p) /\ p \in parents /\ Calm(p)
        BY <2>2, <2>4, <3>5
      <4>2. Calm(s) /\ ~ Queued(s)
        BY <3>3, <3>5, <4>1 DEF Calm
      <4>3. \A q \in parents : ~ Earlier(q, s)
        BY <2>1, <2>4, <4>2, LeavesAsFirst
      <4>. QED
        BY <2>4, <3>3, <3>5, <4>1, <4>3
    <3>6. ASSUME NEW p \in parents', Tailed(p)!1', ~ Queued(p) PROVE FALSE
      <4>1. p \in parents /\ p # s /\ Calm(p)
        BY <2>2, <2>4, <3>6
      <4>2. tails[ChannelOf[p]] = s
        BY <1>0, <1>c, <2>4, <3>6, <4>1
      <4>3. Earlier(p, s) /\ ~ Queued(s) /\ ChannelOf[s] = ChannelOf[p]
        BY <1>c, <3>6, <4>1, <4>2, KidFacts DEF TailsOK
      <4>4. \A q \in parents : ~ Earlier(q, s)
        BY <2>1, <2>4, <4>1, <4>3, LeavesAsFirst DEF Calm
      <4>. QED
        BY <4>1, <4>3, <4>4
    <3>7. \A p \in parents' : First(p)'
      BY <1>0, <2>1, <2>4, <3>1, <3>2, <3>4 DEF RunnersStill
    <3>8. \A p \in parents' : Leads(p)'
      BY <1>0, <2>2, <2>4, <3>1, <3>2, <3>5
    <3>9. \A p \in parents' : Tailed(p)'
      BY <2>2, <2>4, <3>6
    <3>. QED
      BY <1>00, <3>7, <3>8, <3>9
  <2>. QED
    BY <1>8, <2>3, <2>4, Reporting
<1>. QED
  BY <1>2, <1>3, <1>4, <1>5, <1>6, <1>7, <1>8, OrderEffects

\* The turns of the outputs are registered.
LEMMA OutputTurns ==
    ASSUME IInv
    PROVE  \A i \in DOMAIN outputs :
             /\ outputs[i] \in Children /\ outputs[i][1] \in Registered
             /\ pc[Kid(outputs[i])] \in {"output", "ending", "raised", "done"}
<1>. DOMAIN outputs = 1 .. Len(outputs) /\ \A i \in DOMAIN outputs : outputs[i] \in Children
  BY DEF IInv, TypeOK
<1>. QED
  BY KidFacts DEF IInv, OutputsOK, RunnersOK

\* Children run one after the other, and nobody live is earlier than an output.
LEMMA PublishedStep == ASSUME OrderStep PROVE PublishedOK'
<1>. /\ TypeOK /\ TerminalsOK /\ SubmittersOK /\ StagesOK /\ ReportsOK /\ FrontOK
     /\ ClosedExactlyWhenComplete /\ TurnsOK /\ TurnsOK' /\ RunnersOK /\ IInv
     /\ LateChildrenAreInterrupted /\ PublishedOK /\ Dual = {}
     /\ [Next]_vars /\ parents \subseteq Registered
  BY DEF OrderStep, OpenStep, IInv, LineOK, Sequential, TypeOK, Registered
<1>. \A k \in Children : k[1] \in Parents /\ k \in KidsOf(k[1])
  BY KidFacts
<1>0. ASSUME \A k \in Children : pc'[Kid(k)] # "idle" =>
                \A j \in KidsOf(k[1]) : j[2] < k[2] => j \in completed',
             \A i \in DOMAIN outputs' : \A p \in parents' : ~ Earlier(p, outputs[i][1])'
      PROVE  PublishedOK'
  BY <1>0 DEF PublishedOK
<1>1. /\ \A k \in Children : pc[Kid(k)] # "idle" =>
            \A j \in KidsOf(k[1]) : j[2] < k[2] => j \in completed
      /\ \A i \in DOMAIN outputs : \A p \in parents : ~ Earlier(p, outputs[i][1])
  BY DEF PublishedOK
\* No live turn becomes earlier, no child starts, and nothing is delivered.
<1>2. ASSUME Quiet, completed \subseteq completed', parents' \subseteq parents,
             UNCHANGED turn
      PROVE  \A i \in DOMAIN outputs' : \A p \in parents' : ~ Earlier(p, outputs[i][1])'
  BY <1>1, <1>2 DEF Quiet, Earlier
<1>3. ASSUME KidsStill, completed \subseteq completed'
      PROVE  \A k \in Children : pc'[Kid(k)] # "idle" =>
                \A j \in KidsOf(k[1]) : j[2] < k[2] => j \in completed'
  BY <1>1, <1>3 DEF KidsStill
<1>4. ASSUME Quiet, \/ NothingMoves
                    \/ \E p \in Parents : SubmitterMoves(p) \/ Admits(p) \/ Withdraws(p)
                    \/ \E x \in Controllers : Steers(x)
      PROVE  PublishedOK'
  <2>1. KidsStill /\ UNCHANGED <<completed, parents, turn>>
    BY <1>4 DEF NothingMoves, SubmitterMoves, Admits, Withdraws, Steers, ChainStill
  <2>. QED
    BY <1>0, <1>2, <1>3, <1>4, <2>1
<1>5. ASSUME NEW a \in Actors, TerminalReturns(a), Quiet PROVE PublishedOK'
  <2>1. /\ KidsStill /\ UNCHANGED turn
        /\ completed \subseteq completed' /\ parents' \subseteq parents
    BY <1>5, Reporting
  <2>. QED
    BY <1>0, <1>2, <1>3, <1>5, <2>1
<1>6. ASSUME NEW p \in Parents, Register(p), Quiet PROVE PublishedOK'
  <2>1. /\ KidsStill /\ UNCHANGED completed /\ parents' \subseteq parents \cup {p}
        /\ \A q, r \in Registered : Earlier(q, r)' <=> Earlier(q, r)
        /\ \A q \in Registered : ~ Earlier(p, q)'
    BY <1>6, Registering
  <2>2. \A i \in DOMAIN outputs' : \A q \in parents' : ~ Earlier(q, outputs[i][1])'
    BY <1>1, <1>6, <2>1, OutputTurns DEF Quiet
  <2>. QED
    BY <1>0, <1>3, <1>6, <2>1, <2>2
<1>7. ASSUME NEW p \in Parents, Runs(p), Quiet PROVE PublishedOK'
  <2>1. UNCHANGED <<completed, parents, turn>>
    BY <1>7 DEF Runs, ChainStill
  <2>2. ASSUME NEW k \in Children, pc'[Kid(k)] # "idle",
               NEW j \in KidsOf(k[1]), j[2] < k[2]
        PROVE  j \in completed
    <3>1. CASE pc'[Kid(k)] = pc[Kid(k)]
      BY <1>1, <2>2, <3>1
    <3>2. CASE pc'[Kid(k)] # pc[Kid(k)]
      BY <1>7, <2>2, <3>2, Starting
    <3>. QED
      BY <3>1, <3>2
  <2>. QED
    BY <1>0, <1>2, <1>7, <2>1, <2>2
<1>8. ASSUME NEW k \in Children, KidMoves(k) PROVE PublishedOK'
  <2>1. /\ UNCHANGED <<completed, parents, turn>> /\ KidLive(k)
        /\ \A j \in Children \ {k} : pc'[Kid(j)] = pc[Kid(j)]
    BY <1>8 DEF KidMoves, ChainStill
  <2>2. \A j \in Children : pc'[Kid(j)] # "idle" => pc[Kid(j)] # "idle"
    BY <2>1 DEF KidLive, KidRunning
  <2>3. \A p, q : Earlier(p, q)' <=> Earlier(p, q)
    BY <2>1 DEF Earlier
  <2>4. CASE outputs' = outputs
    BY <1>0, <1>1, <2>1, <2>2, <2>3, <2>4
  <2>5. CASE outputs' # outputs
    <3>1. outputs' = Append(outputs, k) /\ Executing(k) /\ OutputReady(k[1])
      BY <1>8, <2>5, KidWork
    <3>2. k[1] \in parents /\ k[1] \notin cancelling /\ pc[Runner(k[1])] = "await"
      <4>1. KidRunning(k) /\ ~ Interrupted(k)
        BY <3>1 DEF Executing
      <4>. QED
        BY <2>1, <3>1, <4>1 DEF LateChildrenAreInterrupted, ReportsOK, StagesOK
    <3>3. AheadClosed(k[1])
      BY <3>1 DEF OutputReady, AheadClosed, ReportsOK
    <3>4. \A p \in parents : ~ Earlier(p, k[1])
      BY <3>2, <3>3 DEF FrontOK
    <3>5. \A i \in DOMAIN outputs' :
            \/ i \in DOMAIN outputs /\ outputs'[i] = outputs[i]
            \/ outputs'[i] = k
      BY <3>1 DEF TypeOK
    <3>. QED
      BY <1>0, <1>1, <2>1, <2>2, <2>3, <3>4, <3>5
  <2>. QED
    BY <2>4, <2>5
<1>. QED
  BY <1>4, <1>5, <1>6, <1>7, <1>8, OrderEffects

\* Whoever published before a child is behind nobody who could still publish.
LEMMA OutputFollows ==
    ASSUME OrderStep, NEW k \in Children, Executing(k), OutputReady(k[1]),
           pc[Kid(k)] \in {"process", "queued"},
           NEW o \in Children, o[1] \in Registered, ChannelOf[o[1]] = ChannelOf[k[1]],
           pc[Kid(o)] \in {"output", "ending", "raised", "done"},
           \A p \in parents : ~ Earlier(p, o[1])
    PROVE  Before(o, k) /\ pc[Kid(o)] # "output"
<1>. /\ TypeOK /\ StagesOK /\ ReportsOK /\ FrontOK /\ ~ closed
     /\ TurnsOK /\ RunnersOK /\ KillsOK /\ SelectionsOK /\ SparesOK /\ DrainOK
     /\ OperationsOK /\ LateChildrenAreInterrupted /\ PublishedOK /\ Dual = {}
     /\ parents \subseteq Registered /\ Registered \subseteq Parents
  BY DEF OrderStep, OpenStep, IInv, LineOK, Sequential, TypeOK, Registered
<1>1. /\ k[1] \in Parents /\ k \in KidsOf(k[1])
      /\ o[1] \in Parents /\ o \in KidsOf(o[1])
  BY KidFacts
<1>2. /\ k = <<k[1], k[2]>> /\ k[2] \in Nat
      /\ o = <<o[1], o[2]>> /\ o[2] \in Nat
  BY <1>1 DEF KidsOf
<1>3. o # k /\ KidRunning(k) /\ ~ Interrupted(k)
  BY DEF Executing
<1>4. /\ k[1] \in parents /\ k \notin completed /\ k[1] \notin cancelling
      /\ pc[Runner(k[1])] = "await"
  BY <1>1, <1>3 DEF LateChildrenAreInterrupted, ReportsOK, StagesOK, KidLive
<1>5. ASSUME pc[Kid(o)] = "output", ~ Executing(o) PROVE Kid(o) \in kill /\ KidLive(o)
  BY <1>5 DEF Executing, KidRunning, KidLive, Interrupted, ReportsOK
<1>6. CASE o[1] = k[1]
  <2>1. ~ (k[2] < o[2])
    <3>1. pc[Kid(o)] # "idle" /\ k \in KidsOf(o[1])
      BY <1>1, <1>6
    <3>. QED
      BY <1>4, <3>1 DEF PublishedOK
  <2>2. o[2] # k[2]
    BY <1>2, <1>3, <1>6
  <2>3. o[2] < k[2]
    BY <1>2, <2>1, <2>2
  <2>4. o \in completed
    BY <1>1, <1>3, <1>6, <2>3 DEF PublishedOK, KidRunning
  <2>5. pc[Kid(o)] # "output"
    <3>1. ~ Executing(o)
      BY <2>4 DEF Executing, LateChildrenAreInterrupted
    <3>. QED
      BY <1>3, <1>5, <1>6, <3>1 DEF KillsOK, Interrupted
  <2>. QED
    BY <1>6, <2>3, <2>5 DEF Before
<1>7. CASE o[1] # k[1]
  <2>1. Earlier(o[1], k[1])
    BY <1>4, <1>7 DEF TurnsOK
  <2>2. \A p \in parents : ~ Earlier(p, k[1])
    <3>1. AheadClosed(k[1])
      BY DEF OutputReady, AheadClosed, ReportsOK
    <3>. QED
      BY <1>4, <3>1 DEF FrontOK
  <2>3. ASSUME pc[Kid(o)] = "output" PROVE FALSE
    <3>1. ~ Executing(o)
      BY <2>1, <2>2 DEF Executing, LateChildrenAreInterrupted
    <3>2. PICK x \in Controllers : pc[Control(x)] = "gather" /\ o[1] \in call[x].selected
      BY <1>5, <2>3, <3>1 DEF ReportsOK
    <3>3. /\ ChannelOf[o[1]] = call[x].channel
          /\ turn[k[1]][1] < call[x].generation
      BY <1>4, <3>2 DEF OperationsOK, SparesOK, CancelLabels
    <3>4. k[1] \in call[x].selected
      BY <1>4, <3>2, <3>3 DEF DrainOK
    <3>. QED
      BY <1>4, <3>4 DEF SelectionsOK
  <2>. QED
    BY <1>7, <2>1, <2>3 DEF Before, Earlier
<1>. QED
  BY <1>6, <1>7

\* The outputs stay in the order of the turns while none is submitted.
LEMMA OutputsStay ==
    ASSUME IInv, [Next]_vars, OutputsInTurnOrder, outputs' = outputs
    PROVE  OutputsInTurnOrder'
<1>. DOMAIN outputs = 1 .. Len(outputs)
  BY DEF IInv, TypeOK
<1>1. \A q \in Registered : turn'[q] = turn[q]
  <2>1. UNCHANGED turn \/ \E p \in Parents : Register(p)
    BY AdmissionFrame DEF IInv
  <2>. QED
    BY <2>1 DEF Register, IInv, TypeOK, Registered
<1>2. \A k \in Children : pc'[Kid(k)] = "output" => pc[Kid(k)] = "output"
  BY LiveStep DEF LiveMoves, IInv
<1>3. \A i, j \in DOMAIN outputs :
        Before(outputs[i], outputs[j])' <=> Before(outputs[i], outputs[j])
  BY <1>1, OutputTurns DEF Before
<1>. QED
  BY <1>2, <1>3, OutputTurns DEF OutputsInTurnOrder

\* The next output comes after the outputs before it.
LEMMA OutputsAppended ==
    ASSUME OrderStep, OutputsInTurnOrder, NEW k \in Children, KidMoves(k),
           outputs' # outputs
    PROVE  OutputsInTurnOrder'
<1>. TypeOK /\ IInv /\ PublishedOK /\ outputs \in Seq(Children) /\ [Next]_vars
  BY DEF OrderStep, OpenStep, IInv, TypeOK
<1>1. /\ outputs' = Append(outputs, k) /\ Executing(k) /\ OutputReady(k[1])
      /\ pc[Kid(k)] \in {"process", "queued"}
  BY KidWork
<1>2. /\ UNCHANGED turn
      /\ \A j \in Children \ {k} : pc'[Kid(j)] = pc[Kid(j)]
  BY DEF KidMoves, ChainStill
<1>3. /\ Len(outputs') = Len(outputs) + 1 /\ outputs'[Len(outputs) + 1] = k
      /\ \A i \in 1 .. Len(outputs) : i \in DOMAIN outputs /\ outputs'[i] = outputs[i]
      /\ Len(outputs) \in Nat
  BY <1>1
<1>4. \A i \in 1 .. Len(outputs) : ChannelOf[outputs[i][1]] = ChannelOf[k[1]] =>
        Before(outputs[i], k) /\ pc[Kid(outputs[i])] # "output"
  BY <1>1, <1>3, OutputTurns, OutputFollows DEF PublishedOK
<1>5. \A i \in 1 .. Len(outputs) : outputs[i] \in Children \ {k}
  BY <1>1, <1>3, OutputTurns
<1>6. \A j, i : Before(j, i)' <=> Before(j, i)
  BY <1>2 DEF Before
<1>. SUFFICES ASSUME NEW i \in 1 .. Len(outputs'), NEW j \in 1 .. Len(outputs'), i < j,
                     ChannelOf[outputs'[i][1]] = ChannelOf[outputs'[j][1]]
              PROVE  /\ Before(outputs[i], outputs[j])'
                     /\ pc'[Kid(outputs'[i])] # "output"
  BY DEF OutputsInTurnOrder
<1>7. i \in 1 .. Len(outputs) /\ (j \in 1 .. Len(outputs) \/ j = Len(outputs) + 1)
  BY <1>3
<1>8. CASE j \in 1 .. Len(outputs)
  BY <1>2, <1>3, <1>5, <1>6, <1>7, <1>8 DEF OutputsInTurnOrder
<1>9. CASE j = Len(outputs) + 1
  BY <1>2, <1>3, <1>4, <1>5, <1>6, <1>7, <1>9
<1>. QED
  BY <1>7, <1>8, <1>9

\* Outputs are published in the order of the turns, and each by a turn that nobody
\* live is ahead of.
THEOREM OrderInvariance ==
    ASSUME Sequential, Aborts = {} PROVE Spec => []OrderInv
<1>1. Init => OrderInv
  <2>. SUFFICES ASSUME Init PROVE OrderInv
    OBVIOUS
  <2>. USE DEF Init
  <2>1. GateInv
    BY GateInitially
  <2>2. pc = [a \in Actors |-> "idle"] /\ terminal = [a \in Actors |-> None]
    OBVIOUS
  <2>3. ReportsOK /\ ReadyOK
    BY <2>2, ActorFacts DEF ReportsOK, ReadyOK, Ready, KidLive, KidRunning
  <2>4. FrontOK
    BY DEF FrontOK
  <2>5. PublishedOK
    BY <2>2, ActorFacts DEF PublishedOK
  <2>6. OutputsInTurnOrder
    BY DEF OutputsInTurnOrder
  <2>. QED
    BY <2>1, <2>3, <2>4, <2>5, <2>6 DEF OrderInv
<1>2. OrderInv /\ [Next]_vars => OrderInv'
  <2>. SUFFICES ASSUME OrderInv, [Next]_vars PROVE OrderInv'
    OBVIOUS
  <2>0. IInv /\ TypeOK /\ GateInv /\ OutputsInTurnOrder
    BY DEF OrderInv, GateInv, SpareInv, IInv
  <2>1. GateInv'
    BY <2>0, GateInductively
  <2>2. ASSUME ~ closed' PROVE OrderStep
    <3>1. ~ closed
      BY <2>0, <2>2, ClosedStays
    <3>2. LineOK' /\ SpareInv'
      BY <2>1, <2>2 DEF GateInv
    <3>. QED
      BY <2>2, <3>1, <3>2 DEF OrderStep, OpenStep, OrderInv, GateInv, SpareInv
  <2>3. ASSUME ~ closed' PROVE ReportsOK' /\ ReadyOK' /\ FrontOK' /\ PublishedOK'
    BY <2>2, <2>3, ReportsStep, ReadyStep, FrontStep, PublishedStep
  <2>4. OutputsInTurnOrder'
    <3>1. CASE outputs' = outputs
      BY <2>0, <3>1, OutputsStay
    <3>2. CASE outputs' # outputs
      <4>1. ~ closed'
        BY <2>0, <3>2, OutputStep DEF IInv, ClosedOK
      <4>2. OrderStep
        BY <2>2, <4>1
      <4>3. \E k \in Children : KidMoves(k)
        BY <3>2, <4>2, OrderEffects DEF Quiet
      <4>. QED
        BY <2>0, <3>2, <4>2, <4>3, OutputsAppended
    <3>. QED
      BY <3>1, <3>2
  <2>. QED
    BY <2>1, <2>3, <2>4 DEF OrderInv
<1>. QED
  BY <1>1, <1>2, PTL DEF Spec

\* The outputs of a channel follow the order its turns were submitted in, and the
\* order of the children within a turn, each submitted after the one before it.
THEOREM PublishesInTurnOrder ==
    ASSUME Sequential, Aborts = {} PROVE Spec => []OutputsInTurnOrder
<1>1. OrderInv => OutputsInTurnOrder
  BY DEF OrderInv
<1>. QED
  BY <1>1, OrderInvariance, PTL
=============================================================================
