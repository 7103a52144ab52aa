-------------------------- MODULE TranslationTurnSteps --------------------------
(***************************************************************************)
(* That every step of TranslationTurn preserves each conjunct of the       *)
(* inductive invariant, with the lemmas about the operators of the         *)
(* specification that the proofs rest on.  TranslationTurnProofs draws the *)
(* conclusions.                                                            *)
(***************************************************************************)
EXTENDS TranslationTurnInv, SequenceTheorems, TLAPS

-----------------------------------------------------------------------------
(* Facts about the identities of tasks and children. *)

\* The four kinds of task are disjoint, and each task has one owner.
LEMMA ActorFacts ==
    /\ \A p \in Parents : Submitter(p) \in Actors /\ Runner(p) \in Actors
    /\ \A k \in Children : Kid(k) \in Actors
    /\ \A x \in Controllers : Control(x) \in Actors
    /\ \A p, q \in Parents :
        /\ Submitter(p) # Runner(q)
        /\ Submitter(p) = Submitter(q) => p = q
        /\ Runner(p) = Runner(q) => p = q
    /\ \A p \in Parents, k \in Children :
        Submitter(p) # Kid(k) /\ Runner(p) # Kid(k)
    /\ \A p \in Parents, x \in Controllers :
        Submitter(p) # Control(x) /\ Runner(p) # Control(x)
    /\ \A k \in Children, x \in Controllers : Kid(k) # Control(x)
    /\ \A j, k \in Children : Kid(j) = Kid(k) => j = k
    /\ \A x, y \in Controllers : Control(x) = Control(y) => x = y
BY DEF Actors, Submitter, Runner, Kid, Control

\* A child belongs to the parent it names.
LEMMA KidFacts ==
    /\ \A k \in Children : k[1] \in Parents /\ k \in KidsOf(k[1])
    /\ \A p \in Parents : \A k \in KidsOf(p) : k \in Children /\ k[1] = p
    /\ None \notin Children /\ None \notin Parents
BY TurnAssumption DEF Children, KidsOf, TurnAssumption

\* The loops over children only ever pick one of them.
LEMMA FirstOfFacts == \A S : FirstOf(S) \subseteq S
BY DEF FirstOf

\* What the constants are assumed to be, as the steps use it.
LEMMA ChannelFacts ==
    \A p \in Parents : ChannelOf[p] \in Channels /\ ChildCount[p] \in Nat
BY TurnAssumption DEF TurnAssumption

-----------------------------------------------------------------------------
(* Types. *)

\* Moving a task keeps the labels typed.
LEMMA GotoType ==
    ASSUME TypeOK, NEW a \in Actors, NEW l \in PcValues, Goto(a, l)
    PROVE  pc' \in [Actors -> PcValues]
BY DEF TypeOK, Goto

\* _terminalize_child awaits on_child_terminal for a child or for nothing.
LEMMA TerminalizeType ==
    ASSUME TypeOK, NEW a \in Actors, NEW k \in Children, Terminalize(a, k)
    PROVE  terminal' \in [Actors -> Children \cup {None}]
BY DEF TypeOK, Terminalize

\* A sweep terminalizes a child of one of its parents, or nothing.
LEMMA SweepType ==
    ASSUME TypeOK, NEW a \in Actors, NEW S, StartSweep(a, S)
    PROVE  terminal' \in [Actors -> Children \cup {None}]
<1>1. CASE Unfinished(S) = {}
  BY <1>1 DEF TypeOK, StartSweep
<1>2. CASE Unfinished(S) # {}
  <2>1. PICK k \in FirstOf(Unfinished(S)) : Terminalize(a, k)
    BY <1>2 DEF StartSweep
  <2>2. k \in Children
    BY FirstOfFacts DEF Unfinished
  <2>. QED
    BY <2>1, <2>2, TerminalizeType
<1>. QED
  BY <1>1, <1>2

\* The loop of _run_parent keeps labels and pending callbacks typed.
LEMMA LoopType ==
    ASSUME TypeOK, NEW p \in Parents, NEW f \in [Actors -> PcValues], Loop(p, f)
    PROVE  /\ pc' \in [Actors -> PcValues]
           /\ terminal' \in [Actors -> Children \cup {None}]
<1>. DEFINE todo == FirstOf(KidsOf(p) \ completed)
<1>1. \A k \in todo : k \in Children
  BY FirstOfFacts, KidFacts
<1>2. CASE todo = {} /\ pc' = [f EXCEPT ![Runner(p)] = "done"] /\ UNCHANGED terminal
  BY <1>2, ActorFacts DEF TypeOK, PcValues
<1>3. CASE /\ \E k \in todo : Terminalize(Runner(p), k)
           /\ pc' = [f EXCEPT ![Runner(p)] = "skip"]
  BY <1>1, <1>3, ActorFacts, TerminalizeType DEF PcValues
<1>4. CASE /\ \E k \in todo :
                pc' = [f EXCEPT ![Runner(p)] = "await", ![Kid(k)] = "started"]
           /\ UNCHANGED terminal
  BY <1>1, <1>4, ActorFacts DEF TypeOK, PcValues
<1>. QED
  BY <1>2, <1>3, <1>4 DEF Loop

\* Taking and leaving an admission lock keeps its queue a queue of tasks.
LEMMA QueueType ==
    ASSUME TypeOK, NEW a \in Actors, NEW c \in Channels,
           Release(a, c) \/ Enqueue(a, c)
    PROVE  lockQueue' \in [Channels -> Seq(Actors)]
<1>1. lockQueue[c] \in Seq(Actors)
  BY DEF TypeOK
<1>2. CASE Release(a, c)
  <2>1. Tail(lockQueue[c]) \in Seq(Actors)
    BY <1>1, <1>2, HeadTailProperties DEF Release, Holds
  <2>. QED
    BY <1>2, <2>1 DEF Release, TypeOK
<1>3. CASE Enqueue(a, c)
  <2>1. Append(lockQueue[c], a) \in Seq(Actors)
    BY <1>1, AppendProperties
  <2>. QED
    BY <1>3, <2>1 DEF Enqueue, TypeOK
<1>. QED
  BY <1>2, <1>3

\* Leaving the middle of a queue keeps it a queue.
LEMMA RemoveType ==
    ASSUME NEW S, NEW q \in Seq(S), NEW i \in DOMAIN q
    PROVE  SubSeq(q, 1, i - 1) \o SubSeq(q, i + 1, Len(q)) \in Seq(S)
<1>1. i \in 1 .. Len(q) /\ Len(q) \in Nat
  BY LenProperties
<1>2. SubSeq(q, 1, i - 1) \in Seq(S)
  BY <1>1, SubSeqProperties
<1>3. SubSeq(q, i + 1, Len(q)) \in Seq(S)
  BY <1>1, SubSeqProperties
<1>. QED
  BY <1>2, <1>3, ConcatProperties

\* A cancellation reaches exactly the running tasks of its parents and the
\* children they wait for.
LEMMA KilledFacts ==
    ASSUME NEW S \in SUBSET Parents
    PROVE  /\ KilledWith(S) \subseteq Actors
           /\ \A p \in Parents :
                Runner(p) \in KilledWith(S) <=> p \in S /\ RunnerLive(p)
           /\ \A k \in Children :
                Kid(k) \in KilledWith(S) <=>
                    k[1] \in S /\ KidLive(k) /\ RunnerLive(k[1])
BY ActorFacts DEF KilledWith

\* The locals of the cancelling operations are well formed.
LEMMA CallType ==
    /\ \A op \in OperationNames \cup {"none"}, c \in Channels \cup {None},
          S \in SUBSET Parents, L \in SUBSET Channels, g \in Nat :
        Call(op, c, S, L, g) \in Calls
    /\ NoCall \in Calls
    /\ \A r \in Calls :
        /\ r.channel \in Channels \cup {None}
        /\ r.op \in OperationNames \cup {"none"}
        /\ r.generation \in Nat
        /\ r.selected \subseteq Parents
        /\ r.locks \subseteq Channels
        /\ \A c \in Channels :
            /\ [r EXCEPT !.locks = @ \ {c}] \in Calls
            /\ [r EXCEPT !.channel = c] \in Calls
        /\ \A S \in SUBSET Parents : [r EXCEPT !.selected = S] \in Calls
BY DEF Calls, Call, NoCall

\* Every action keeps every variable in its type.
LEMMA TypeStep ==
    ASSUME TypeOK, SubmittersOK, SelectionsOK, [Next]_vars
    PROVE  TypeOK'
<1>. USE DEF registry, admission, progress, tasks, control
<1>1. CASE UNCHANGED vars
  BY <1>1 DEF vars, TypeOK
<1>2. ASSUME NEW p \in Parents, Reject(p) PROVE TypeOK'
  <2>1. pc' \in [Actors -> PcValues]
    BY <1>2, GotoType, ActorFacts DEF Reject, PcValues
  <2>. QED
    BY <1>2, <2>1, ActorFacts DEF Reject, TypeOK
<1>3. ASSUME NEW p \in Parents, Register(p) PROVE TypeOK'
  <2>1. pc' \in [Actors -> PcValues]
    BY <1>3, GotoType, ActorFacts DEF Register, PcValues
  <2>2. lockQueue' \in [Channels -> Seq(Actors)]
    BY <1>3, QueueType, ActorFacts, ChannelFacts DEF Register, TypeOK
  <2>3. turn' \in [Parents -> Nat \X Nat] /\ nextOrder' \in [Channels -> Nat]
    BY <1>3, ChannelFacts DEF Register, TypeOK
  <2>4. closing' = closing \/ closing' = [closing EXCEPT ![Submitter(p)] = p]
    BY <1>3 DEF Register
  <2>5. closing' \in [Actors -> Parents \cup {None}]
    BY <1>3, <2>4, ActorFacts DEF Register, TypeOK
  <2>6. parents' \subseteq Parents /\ closedParents' \subseteq Parents
    BY <1>3 DEF Register, TypeOK
  <2>. QED
    BY <1>3, <2>1, <2>2, <2>3, <2>4, <2>5, <2>6, ActorFacts DEF Register, TypeOK
<1>4. ASSUME NEW p \in Parents, LockAcquired(p) PROVE TypeOK'
  <2>1. pc' \in [Actors -> PcValues]
    BY <1>4, GotoType, ActorFacts DEF LockAcquired, PcValues
  <2>2. terminal' \in [Actors -> Children \cup {None}]
    BY <1>4, SweepType, ActorFacts DEF LockAcquired, TypeOK
  <2>. QED
    BY <1>4, <2>1, <2>2, ActorFacts DEF LockAcquired, TypeOK
<1>5. ASSUME NEW p \in Parents, Admitted(p) PROVE TypeOK'
  <2>1. pc' \in [Actors -> PcValues]
    BY <1>5, GotoType, ActorFacts DEF Admitted, PcValues
  <2>2. lockQueue' \in [Channels -> Seq(Actors)]
    BY <1>5, QueueType, ActorFacts, ChannelFacts DEF Admitted
  <2>3. /\ predecessor' \in [Parents -> Parents \cup {None}]
        /\ tails' \in [Channels -> Parents \cup {None}]
        /\ creating' \in [Parents -> Nat]
    BY <1>5, ChannelFacts DEF Admitted, TypeOK
  <2>. QED
    BY <1>5, <2>1, <2>2, <2>3, ActorFacts DEF Admitted, TypeOK
<1>6. ASSUME NEW p \in Parents, NotAdmitted(p) PROVE TypeOK'
  <2>1. pc' \in [Actors -> PcValues]
    BY <1>6, GotoType, ActorFacts DEF NotAdmitted, PcValues
  <2>2. terminal' \in [Actors -> Children \cup {None}]
    BY <1>6, SweepType, ActorFacts DEF NotAdmitted
  <2>. QED
    BY <1>6, <2>1, <2>2, ActorFacts DEF NotAdmitted, TypeOK
<1>7. ASSUME NEW p \in Parents, Withdraw(p) PROVE TypeOK'
  <2>1. terminal' \in [Actors -> Children \cup {None}]
    BY <1>7, SweepType, ActorFacts DEF Withdraw, SweepOne
  <2>. QED
    BY <1>7, <2>1, ActorFacts DEF Withdraw, TypeOK, SweepOne
<1>8. ASSUME NEW p \in Parents, Withdrawn(p) PROVE TypeOK'
  <2>1. pc' \in [Actors -> PcValues]
    BY <1>8, GotoType, ActorFacts DEF Withdrawn, PcValues
  <2>2. lockQueue' \in [Channels -> Seq(Actors)]
    BY <1>8, QueueType, ActorFacts, ChannelFacts DEF Withdrawn, TypeOK
  <2>. QED
    BY <1>8, <2>1, <2>2, ActorFacts DEF Withdrawn, TypeOK
<1>9. ASSUME NEW p \in Parents, ChildCreated(p) PROVE TypeOK'
  <2>. USE DEF ChildCreated
  <2>1. CASE p \notin parents /\ Goto(Submitter(p), "return") /\ UNCHANGED <<creating, terminal>>
    <3>1. pc' \in [Actors -> PcValues]
      BY <2>1, GotoType, ActorFacts DEF PcValues
    <3>. QED
      BY <1>9, <2>1, <3>1 DEF TypeOK
  <2>2. CASE /\ MoreChildren(p)
             /\ creating' = [creating EXCEPT ![p] = @ + 1]
             /\ Goto(Submitter(p), "create")
             /\ UNCHANGED terminal
    <3>1. pc' \in [Actors -> PcValues]
      BY <2>2, GotoType, ActorFacts DEF PcValues
    <3>. QED
      BY <1>9, <2>2, <3>1 DEF TypeOK
  <2>3. CASE UNCHANGED creating /\ Goto(Submitter(p), "sweep") /\ StartSweep(Submitter(p), {p})
    <3>1. pc' \in [Actors -> PcValues]
      BY <2>3, GotoType, ActorFacts DEF PcValues
    <3>2. terminal' \in [Actors -> Children \cup {None}]
      BY <2>3, SweepType, ActorFacts
    <3>. QED
      BY <1>9, <2>3, <3>1, <3>2 DEF TypeOK
  <2>4. CASE UNCHANGED creating /\ StartRunner(p)
    <3>1. [pc EXCEPT ![Submitter(p)] = "return"] \in [Actors -> PcValues]
      BY ActorFacts DEF TypeOK, PcValues
    <3>2. pc' \in [Actors -> PcValues] /\ terminal' \in [Actors -> Children \cup {None}]
      BY <2>4, <3>1, ActorFacts, LoopType DEF StartRunner, TypeOK, PcValues
    <3>. QED
      BY <1>9, <2>4, <3>2 DEF TypeOK
  <2>. QED
    BY <1>9, <2>1, <2>2, <2>3, <2>4 DEF CreateNext
<1>10. ASSUME NEW p \in Parents, ChildCreationFails(p) PROVE TypeOK'
  <2>1. pc' \in [Actors -> PcValues]
    BY <1>10, GotoType, ActorFacts DEF ChildCreationFails, PcValues
  <2>2. terminal' \in [Actors -> Children \cup {None}]
    BY <1>10, TerminalizeType, ActorFacts
    DEF ChildCreationFails, SubmittersOK, KidsOf, Children
  <2>. QED
    BY <1>10, <2>1, <2>2, ActorFacts DEF ChildCreationFails, TypeOK
<1>11. ASSUME NEW p \in Parents, SubmitterCancelled(p) PROVE TypeOK'
  <2>. USE DEF SubmitterCancelled
  <2>1. pc' \in [Actors -> PcValues]
    BY <1>11, GotoType, ActorFacts DEF PcValues
  <2>2. lockQueue' \in [Channels -> Seq(Actors)]
    <3>1. CASE UNCHANGED lockQueue
      BY <3>1 DEF TypeOK
    <3>2. ASSUME NEW i \in DOMAIN lockQueue[ChannelOf[p]],
                 lockQueue' = [lockQueue EXCEPT ![ChannelOf[p]] =
                     SubSeq(@, 1, i - 1) \o SubSeq(@, i + 1, Len(@))]
          PROVE  lockQueue' \in [Channels -> Seq(Actors)]
      <4>1. lockQueue[ChannelOf[p]] \in Seq(Actors)
        BY ChannelFacts DEF TypeOK
      <4>. QED
        BY <3>2, <4>1, RemoveType DEF TypeOK
    <3>. QED
      BY <1>11, <3>1, <3>2
  <2>. QED
    BY <1>11, <2>1, <2>2 DEF TypeOK
<1>12. ASSUME NEW p \in Parents, LoopContinues(p) PROVE TypeOK'
  <2>1. pc' \in [Actors -> PcValues] /\ terminal' \in [Actors -> Children \cup {None}]
    BY <1>12, LoopType DEF LoopContinues, TypeOK
  <2>. QED
    BY <1>12, <2>1, ActorFacts DEF LoopContinues, TypeOK
<1>13. ASSUME NEW p \in Parents, Gathered(p) PROVE TypeOK'
  <2>1. pc' \in [Actors -> PcValues]
    BY <1>13, GotoType, ActorFacts DEF Gathered, PcValues
  <2>. QED
    BY <1>13, <2>1, ActorFacts DEF Gathered, TypeOK
<1>14. ASSUME NEW p \in Parents, RunnerCancelled(p) PROVE TypeOK'
  <2>1. pc' \in [Actors -> PcValues]
    BY <1>14, GotoType, ActorFacts DEF RunnerCancelled, PcValues, Unwind
  <2>2. terminal' \in [Actors -> Children \cup {None}]
    BY <1>14, SweepType, ActorFacts DEF RunnerCancelled, Unwind
  <2>. QED
    BY <1>14, <2>1, <2>2, ActorFacts DEF RunnerCancelled, TypeOK, Unwind
<1>15. ASSUME NEW p \in Parents, RunnerSweeps(p) PROVE TypeOK'
  <2>1. terminal' \in [Actors -> Children \cup {None}]
    BY <1>15, SweepType, ActorFacts DEF RunnerSweeps, SweepOne
  <2>. QED
    BY <1>15, <2>1, ActorFacts DEF RunnerSweeps, TypeOK, SweepOne
<1>16. ASSUME NEW p \in Parents, RunnerEnds(p) PROVE TypeOK'
  <2>1. pc' \in [Actors -> PcValues]
    BY <1>16, GotoType, ActorFacts DEF RunnerEnds, PcValues
  <2>. QED
    BY <1>16, <2>1, ActorFacts DEF RunnerEnds, TypeOK
<1>17. ASSUME NEW k \in Children, ChildStarted(k) PROVE TypeOK'
  <2>1. pc' \in [Actors -> PcValues]
    BY <1>17, GotoType, ActorFacts DEF ChildStarted, PcValues
  <2>. QED
    BY <1>17, <2>1, ActorFacts DEF ChildStarted, TypeOK
<1>18. ASSUME NEW k \in Children, ChildProcessed(k) PROVE TypeOK'
  <2>1. pc' \in [Actors -> PcValues]
    BY <1>18, GotoType, ActorFacts DEF ChildProcessed, PcValues, Deliver
  <2>2. terminal' \in [Actors -> Children \cup {None}]
    BY <1>18, TerminalizeType, ActorFacts DEF ChildProcessed, TypeOK, Deliver
  <2>3. Append(outputs, k) \in Seq(Children)
    BY <1>18, AppendProperties DEF ChildProcessed, TypeOK
  <2>4. outputs' \in Seq(Children)
    BY <1>18, <2>3 DEF ChildProcessed, TypeOK, Deliver
  <2>. QED
    BY <1>18, <2>1, <2>2, <2>3, <2>4, ActorFacts DEF ChildProcessed, TypeOK
<1>19. ASSUME NEW k \in Children, PredecessorClosed(k) PROVE TypeOK'
  <2>1. pc' \in [Actors -> PcValues]
    BY <1>19, GotoType, ActorFacts DEF PredecessorClosed, PcValues, Deliver
  <2>2. terminal' \in [Actors -> Children \cup {None}]
    BY <1>19, TerminalizeType, ActorFacts DEF PredecessorClosed, TypeOK, Deliver
  <2>3. Append(outputs, k) \in Seq(Children)
    BY <1>19, AppendProperties DEF PredecessorClosed, TypeOK
  <2>4. outputs' \in Seq(Children)
    BY <1>19, <2>3 DEF PredecessorClosed, TypeOK, Deliver
  <2>. QED
    BY <1>19, <2>1, <2>2, <2>3, <2>4, ActorFacts DEF PredecessorClosed, TypeOK
<1>20. ASSUME NEW k \in Children, OutputReturns(k) PROVE TypeOK'
  <2>1. pc' \in [Actors -> PcValues]
    BY <1>20, GotoType, ActorFacts DEF OutputReturns, PcValues
  <2>2. terminal' \in [Actors -> Children \cup {None}]
    BY <1>20, TerminalizeType, ActorFacts DEF OutputReturns
  <2>. QED
    BY <1>20, <2>1, <2>2, ActorFacts DEF OutputReturns, TypeOK
<1>21. ASSUME NEW k \in Children, ChildInterrupted(k) PROVE TypeOK'
  <2>1. pc' \in [Actors -> PcValues]
    BY <1>21, GotoType, ActorFacts DEF ChildInterrupted, PcValues
  <2>2. terminal' \in [Actors -> Children \cup {None}]
    BY <1>21, TerminalizeType, ActorFacts DEF ChildInterrupted
  <2>. QED
    BY <1>21, <2>1, <2>2, ActorFacts DEF ChildInterrupted, TypeOK
<1>22. ASSUME NEW k \in Children, ChildEnds(k) PROVE TypeOK'
  <2>1. pc' \in [Actors -> PcValues]
    BY <1>22, GotoType, ActorFacts DEF ChildEnds, PcValues
  <2>. QED
    BY <1>22, <2>1, ActorFacts DEF ChildEnds, TypeOK
<1>23. ASSUME NEW k \in Children, ChildDropped(k) PROVE TypeOK'
  BY <1>23, ActorFacts DEF ChildDropped, TypeOK
<1>24. ASSUME NEW x \in Controllers, NEW op \in {"cancel", "closeIngress"},
               NEW c \in Channels, CancelQueued(x, op, c) PROVE TypeOK'
  <2>1. pc' \in [Actors -> PcValues]
    BY <1>24, GotoType, ActorFacts DEF CancelQueued, PcValues, BeginsCancel
  <2>2. lockQueue' \in [Channels -> Seq(Actors)]
    BY <1>24, QueueType, ActorFacts DEF CancelQueued, BeginsCancel
  <2>3. generation[c] + 1 \in Nat /\ op \in OperationNames
    BY <1>24 DEF CancelQueued, TypeOK, OperationNames, BeginsCancel
  <2>4. Call(op, c, {}, {}, generation[c] + 1) \in Calls
    BY <1>24, CallType, <2>3 DEF CancelQueued, BeginsCancel
  <2>5. call' \in [Controllers -> Calls]
    BY <1>24, <2>4 DEF CancelQueued, TypeOK, BeginsCancel
  <2>. QED
    BY <1>24, <2>1, <2>2, <2>3, <2>4, <2>5, ActorFacts
    DEF CancelQueued, TypeOK, Block, BeginsCancel, Advanced, Called
<1>25. ASSUME NEW x \in Controllers, NEW op \in {"cancel", "closeIngress"},
               NEW c \in Channels, CancelStarts(x, op, c) PROVE TypeOK'
  <2>1. pc' \in [Actors -> PcValues]
    BY <1>25, GotoType, ActorFacts
    DEF CancelStarts, PcValues, CancelSelected, BeginsCancel
  <2>2. terminal' \in [Actors -> Children \cup {None}]
    BY <1>25, SweepType, ActorFacts
    DEF CancelStarts, TypeOK, CancelSelected, BeginsCancel
  <2>3. lockQueue' \in [Channels -> Seq(Actors)]
    BY <1>25, QueueType, ActorFacts DEF CancelStarts, BeginsCancel
  <2>4. generation[c] + 1 \in Nat /\ op \in OperationNames /\ Selected(c) \subseteq Parents
    BY <1>25 DEF CancelStarts, TypeOK, OperationNames, Selected, BeginsCancel
  <2>5. Call(op, c, Selected(c), {}, generation[c] + 1) \in Calls
    BY <1>25, CallType, <2>4 DEF CancelStarts, BeginsCancel
  <2>6. call' \in [Controllers -> Calls]
    BY <1>25, <2>5 DEF CancelStarts, TypeOK, CancelSelected, BeginsCancel
  <2>7. kill' \subseteq Actors
    BY <1>25, KilledFacts, <2>4
    DEF CancelStarts, TypeOK, CancelSelected, BeginsCancel
  <2>8. blocked' \subseteq Channels /\ cancelling' \subseteq Parents
    BY <1>25, <2>4 DEF CancelStarts, TypeOK, CancelSelected, Block, BeginsCancel
  <2>9. /\ generation' \in [Channels -> Nat] /\ nextOrder' \in [Channels -> Nat]
        /\ operations' \in Nat
    BY <1>25 DEF CancelStarts, TypeOK, Advanced, Called, BeginsCancel
  <2>. QED
    BY <1>25, <2>1, <2>2, <2>3, <2>4, <2>5, <2>6, <2>7, <2>8, <2>9, ActorFacts
    DEF CancelStarts, TypeOK, BeginsCancel
<1>26. ASSUME NEW x \in Controllers, NEW op \in {"cancel", "closeIngress"},
               NEW c \in Channels, CancelFindsNothing(x, op, c) PROVE TypeOK'
  BY <1>26, ActorFacts
  DEF CancelFindsNothing, TypeOK, Unblock, BeginsCancel, Advanced, Called
<1>27. ASSUME NEW x \in Controllers, NEW c \in Channels, OpenIngress(x, c)
       PROVE  TypeOK'
  BY <1>27, ActorFacts DEF OpenIngress, TypeOK, Called
<1>28. ASSUME NEW x \in Controllers, Select(x) PROVE TypeOK'
  <2>1. pc' \in [Actors -> PcValues]
    BY <1>28, GotoType, ActorFacts DEF Select, PcValues, CancelSelected
  <2>2. terminal' \in [Actors -> Children \cup {None}]
    BY <1>28, SweepType, ActorFacts DEF Select, TypeOK, CancelSelected
  <2>3. Call(call[x].op, call[x].channel, Selected(call[x].channel), {},
             call[x].generation) \in Calls
    BY <1>28, CallType DEF Select, TypeOK, Selected
  <2>4. call' \in [Controllers -> Calls]
    BY <1>28, <2>3 DEF Select, TypeOK, CancelSelected
  <2>5. Selected(call[x].channel) \in SUBSET Parents
    BY <1>28 DEF Select, TypeOK, Selected
  <2>6. kill' \subseteq Actors
    BY <1>28, KilledFacts, <2>5 DEF Select, TypeOK, CancelSelected
  <2>7. blocked' \subseteq Channels /\ cancelling' \subseteq Parents
    BY <1>28, <2>5 DEF Select, TypeOK, CancelSelected, Block, SelectionsOK
  <2>. QED
    BY <1>28, <2>1, <2>2, <2>3, <2>4, <2>5, <2>6, <2>7, ActorFacts
    DEF Select, TypeOK, Block
<1>29. ASSUME NEW x \in Controllers, CancelReturns(x) PROVE TypeOK'
  <2>1. pc' \in [Actors -> PcValues]
    BY <1>29, GotoType, ActorFacts DEF CancelReturns, PcValues
  <2>2. call[x].channel \in Channels
    BY <1>29 DEF CancelReturns, SelectionsOK
  <2>3. lockQueue' \in [Channels -> Seq(Actors)]
    BY <1>29, QueueType, ActorFacts, <2>2 DEF CancelReturns
  <2>4. blocked' \subseteq Channels
    BY <1>29, <2>2 DEF CancelReturns, Unblock, TypeOK
  <2>5. call' \in [Controllers -> Calls]
    BY <1>29, CallType DEF CancelReturns, TypeOK
  <2>. QED
    BY <1>29, <2>1, <2>2, <2>3, <2>4, <2>5, ActorFacts
    DEF CancelReturns, TypeOK, Unblock
<1>30. ASSUME NEW x \in Controllers, TasksEnded(x) PROVE TypeOK'
  <2>1. pc' \in [Actors -> PcValues]
    BY <1>30, GotoType, ActorFacts DEF TasksEnded, PcValues
  <2>2. terminal' \in [Actors -> Children \cup {None}]
    BY <1>30, SweepType, ActorFacts DEF TasksEnded
  <2>. QED
    BY <1>30, <2>1, <2>2, ActorFacts DEF TasksEnded, TypeOK
<1>31. ASSUME NEW x \in Controllers, ControlSweeps(x) PROVE TypeOK'
  <2>1. terminal' \in [Actors -> Children \cup {None}]
    BY <1>31, SweepType, ActorFacts DEF ControlSweeps, SweepOne
  <2>. QED
    BY <1>31, <2>1, ActorFacts DEF ControlSweeps, TypeOK, SweepOne
<1>32. ASSUME NEW x \in Controllers, BeginClose(x) PROVE TypeOK'
  <2>1. pc' \in [Actors -> PcValues]
    BY <1>32, GotoType, ActorFacts DEF BeginClose, PcValues
  <2>2. Call("close", None, {}, Channels, 0) \in Calls
    BY <1>32, CallType DEF BeginClose, OperationNames
  <2>3. call' \in [Controllers -> Calls]
    BY <1>32, <2>2 DEF BeginClose, TypeOK
  <2>. QED
    BY <1>32, <2>1, <2>2, <2>3, ActorFacts
    DEF BeginClose, TypeOK, Advanced, Called, KilledWith
<1>33. ASSUME NEW x \in Controllers, NEW c \in Channels, DrainLock(x, c)
       PROVE  TypeOK'
  <2>1. pc' \in [Actors -> PcValues]
    BY <1>33, GotoType, ActorFacts DEF DrainLock, PcValues, TypeOK
  <2>2. lockQueue' \in [Channels -> Seq(Actors)]
    BY <1>33, QueueType, ActorFacts DEF DrainLock, TypeOK
  <2>3. call[x] \in Calls
    BY <1>33 DEF DrainLock, TypeOK
  <2>4. [call[x] EXCEPT !.locks = @ \ {c}] \in Calls /\ [call[x] EXCEPT !.channel = c] \in Calls
    BY <1>33, <2>3, CallType DEF DrainLock
  <2>5. call' \in [Controllers -> Calls]
    BY <1>33, <2>4 DEF DrainLock, TypeOK
  <2>. QED
    BY <1>33, <2>1, <2>2, <2>3, <2>4, <2>5, ActorFacts DEF DrainLock, TypeOK
<1>34. ASSUME NEW x \in Controllers, LockDrained(x) PROVE TypeOK'
  <2>1. pc' \in [Actors -> PcValues]
    BY <1>34, GotoType, ActorFacts DEF LockDrained, PcValues
  <2>2. call[x] \in Calls
    BY <1>34 DEF LockDrained, TypeOK
  <2>3. call[x].channel \in Channels
    BY <1>34 DEF LockDrained, SelectionsOK
  <2>4. lockQueue' \in [Channels -> Seq(Actors)]
    BY <1>34, <2>3, QueueType, ActorFacts DEF LockDrained, TypeOK
  <2>5. [call[x] EXCEPT !.locks = @ \ {call[x].channel}] \in Calls
    BY <1>34, <2>2, <2>3, CallType DEF LockDrained
  <2>6. call' \in [Controllers -> Calls]
    BY <1>34, <2>5 DEF LockDrained, TypeOK
  <2>. QED
    BY <1>34, <2>1, <2>2, <2>3, <2>4, <2>5, <2>6, ActorFacts
    DEF LockDrained, TypeOK
<1>35. ASSUME NEW x \in Controllers, CloseScope(x) PROVE TypeOK'
  <2>1. pc' \in [Actors -> PcValues]
    BY <1>35, GotoType, ActorFacts DEF CloseScope, PcValues
  <2>. QED
    BY <1>35, <2>1, ActorFacts DEF CloseScope, TypeOK
<1>36. ASSUME NEW x \in Controllers, ScopeClosed(x) PROVE TypeOK'
  <2>1. pc' \in [Actors -> PcValues]
    BY <1>36, GotoType, ActorFacts DEF ScopeClosed, PcValues
  <2>2. terminal' \in [Actors -> Children \cup {None}]
    BY <1>36, SweepType, ActorFacts DEF ScopeClosed
  <2>3. call' \in [Controllers -> Calls]
    BY <1>36, CallType DEF ScopeClosed, TypeOK
  <2>. QED
    BY <1>36, <2>1, <2>2, <2>3, ActorFacts DEF ScopeClosed, TypeOK
<1>37. ASSUME NEW x \in Controllers, CloseReturns(x) PROVE TypeOK'
  <2>1. pc' \in [Actors -> PcValues]
    BY <1>37, GotoType, ActorFacts DEF CloseReturns, PcValues
  <2>2. call' \in [Controllers -> Calls]
    BY <1>37, CallType DEF CloseReturns, TypeOK
  <2>. QED
    BY <1>37, <2>1, <2>2, ActorFacts DEF CloseReturns, TypeOK
<1>38. ASSUME NEW a \in Actors, TerminalReturns(a) PROVE TypeOK'
  <2>. USE DEF TerminalReturns
  <2>1. completed' \subseteq Children /\ semantic' \subseteq Children
    BY <1>38, ActorFacts DEF TypeOK
  <2>2. terminal' \in [Actors -> Children \cup {None}]
    BY <1>38 DEF TypeOK
  <2>3. CASE UNCHANGED registry
    BY <1>38, <2>1, <2>2, <2>3 DEF TypeOK
  <2>4. CASE CloseParent(a, terminal[a][1])
    <3>1. terminal[a][1] \in Parents
      BY <1>38, KidFacts DEF TypeOK
    <3>. QED
      BY <1>38, <2>1, <2>2, <2>4, <3>1 DEF TypeOK, CloseParent
  <2>. QED
    BY <1>38, <2>3, <2>4
<1>39. ASSUME NEW a \in Actors, ClosedReturns(a) PROVE TypeOK'
  BY <1>39, ActorFacts DEF ClosedReturns, TypeOK
<1>. QED
  BY <1>1, <1>2, <1>3, <1>4, <1>5, <1>6, <1>7, <1>8, <1>9, <1>10, <1>11, <1>12,
     <1>13, <1>14, <1>15, <1>16, <1>17, <1>18, <1>19, <1>20, <1>21, <1>22,
     <1>23, <1>24, <1>25, <1>26, <1>27, <1>28, <1>29, <1>30, <1>31, <1>32,
     <1>33, <1>34, <1>35, <1>36, <1>37, <1>38, <1>39
  DEF Next, Environment, AdapterReturns, SubmitStep, RunStep, ChildStep,
     ControlStep

-----------------------------------------------------------------------------
-----------------------------------------------------------------------------
(* How the actions move tasks. *)

\* A sweep reports one unfinished child of the parents it is given, if any.
LEMMA SweepFacts ==
    ASSUME TypeOK, NEW a \in Actors, NEW S, StartSweep(a, S)
    PROVE  \/ UNCHANGED terminal /\ Unfinished(S) = {}
           \/ \E k \in Unfinished(S) : k \in Children /\ Terminalize(a, k)
BY FirstOfFacts DEF StartSweep, Unfinished

\* What starting or continuing the task of p can do to its labels: it waits or
\* ends, skips one child, or starts children.
RunnerMoves(p) ==
    /\ \A q \in Parents \ {p} :
        /\ pc'[Submitter(q)] = pc[Submitter(q)]
        /\ pc'[Runner(q)] = pc[Runner(q)]
    /\ \A x \in Controllers : pc'[Control(x)] = pc[Control(x)]
    /\ \A k \in Children : k[1] # p => pc'[Kid(k)] = pc[Kid(k)]
    /\ \/ /\ pc'[Runner(p)] \in {"wait", "done"}
          /\ \A k \in KidsOf(p) : pc'[Kid(k)] = pc[Kid(k)]
          /\ UNCHANGED terminal
       \/ /\ pc'[Runner(p)] = "skip"
          /\ \A k \in KidsOf(p) : pc'[Kid(k)] = pc[Kid(k)]
          /\ \E k \in KidsOf(p) \ completed : Terminalize(Runner(p), k)
       \/ /\ pc'[Runner(p)] \in {"await", "gather"}
          /\ ~ CancellationRequested(p)
          /\ \A k \in KidsOf(p) :
                pc'[Kid(k)] = pc[Kid(k)]
                  \/ (pc'[Kid(k)] = "started" /\ k \notin completed)
          /\ UNCHANGED terminal

\* One round of the sequential loop, entered with the labels f, moves the runner
\* and starts at most one child.
LEMMA LoopMoves ==
    ASSUME NEW p \in Parents, NEW f \in [Actors -> PcValues], Loop(p, f),
           \A a \in Actors : a # Submitter(p) => f[a] = pc[a]
    PROVE  RunnerMoves(p) /\ pc'[Submitter(p)] = f[Submitter(p)]
<1>1. CASE pc' = [f EXCEPT ![Runner(p)] = "done"] /\ UNCHANGED terminal
  BY <1>1, ActorFacts, KidFacts DEF RunnerMoves
<1>2. ASSUME NEW k \in KidsOf(p) \ completed,
             pc' = [f EXCEPT ![Runner(p)] = "skip"],
             Terminalize(Runner(p), k)
      PROVE  RunnerMoves(p) /\ pc'[Submitter(p)] = f[Submitter(p)]
  BY <1>2, ActorFacts, KidFacts DEF RunnerMoves
<1>3. ASSUME NEW k \in KidsOf(p) \ completed,
             ~ CancellationRequested(p),
             pc' = [f EXCEPT ![Runner(p)] = "await", ![Kid(k)] = "started"],
             UNCHANGED terminal
      PROVE  RunnerMoves(p) /\ pc'[Submitter(p)] = f[Submitter(p)]
  <2>1. \A a \in Actors : pc'[a] = IF a = Kid(k) THEN "started"
                                   ELSE IF a = Runner(p) THEN "await" ELSE f[a]
    BY <1>3, ActorFacts, KidFacts
  <2>2. pc'[Runner(p)] = "await"
    BY <2>1, ActorFacts, KidFacts
  <2>3. \A j \in KidsOf(p) : pc'[Kid(j)] = pc[Kid(j)]
                              \/ (pc'[Kid(j)] = "started" /\ j \notin completed)
    <3>. TAKE j \in KidsOf(p)
    <3>1. j \in Children /\ k \in Children /\ k \notin completed
      BY KidFacts
    <3>2. Kid(j) # Runner(p) /\ Kid(j) # Submitter(p) /\ Kid(j) \in Actors
      BY <3>1, ActorFacts
    <3>3. Kid(j) = Kid(k) => j = k
      BY <3>1, ActorFacts
    <3>. QED
      BY <1>3, <2>1, <3>1, <3>2, <3>3
  <2>4. \A j \in Children : j[1] # p => pc'[Kid(j)] = pc[Kid(j)]
    BY <2>1, ActorFacts, KidFacts
  <2>. QED
    BY <1>3, <2>1, <2>2, <2>3, <2>4, ActorFacts, KidFacts DEF RunnerMoves
<1>. QED
  BY <1>1, <1>2, <1>3, FirstOfFacts DEF Loop

\* Starting the task of a parent moves it like a round of its loop.
LEMMA StartMoves ==
    ASSUME TypeOK, NEW p \in Parents, StartRunner(p), ~ CancellationRequested(p)
    PROVE  RunnerMoves(p) /\ pc'[Submitter(p)] = "return"
<1>. DEFINE f == [pc EXCEPT ![Submitter(p)] = "return"]
<1>1. /\ f \in [Actors -> PcValues]
      /\ f[Submitter(p)] = "return"
      /\ \A a \in Actors : a # Submitter(p) => f[a] = pc[a]
  BY ActorFacts DEF TypeOK, PcValues
<1>2. CASE p \in Dual
  <2>1. UNCHANGED terminal
    BY <1>2 DEF StartRunner
  <2>2. \A a \in Actors : pc'[a] =
            IF a \in {Kid(k) : k \in KidsOf(p) \ completed} THEN "started"
            ELSE IF a = Runner(p) THEN "gather" ELSE f[a]
    BY <1>2 DEF StartRunner
  <2>. HIDE DEF f
  <2>3. \A j \in Children : pc'[Kid(j)] = pc[Kid(j)]
            \/ (j[1] = p /\ pc'[Kid(j)] = "started" /\ j \notin completed)
    <3>. TAKE j \in Children
    <3>1. Kid(j) # Runner(p) /\ Kid(j) # Submitter(p) /\ Kid(j) \in Actors
      BY ActorFacts
    <3>2. \A k \in KidsOf(p) : Kid(j) = Kid(k) => j = k /\ k[1] = p
      BY ActorFacts, KidFacts
    <3>. QED
      BY <1>1, <2>2, <3>1, <3>2
  <2>4. \A q \in Parents : pc'[Runner(q)] = IF q = p THEN "gather" ELSE pc[Runner(q)]
    BY <1>1, <2>2, ActorFacts, KidFacts
  <2>5. \A q \in Parents : pc'[Submitter(q)] = f[Submitter(q)]
    BY <1>1, <2>2, ActorFacts, KidFacts
  <2>6. \A x \in Controllers : pc'[Control(x)] = pc[Control(x)]
    BY <1>1, <2>2, ActorFacts, KidFacts
  <2>. QED
    BY <1>1, <2>1, <2>3, <2>4, <2>5, <2>6, ActorFacts, KidFacts DEF RunnerMoves
<1>3. CASE p \notin Dual /\ WaitsForPredecessor(p)
  BY <1>1, <1>3, ActorFacts, KidFacts DEF StartRunner, RunnerMoves
<1>4. CASE p \notin Dual /\ ~ WaitsForPredecessor(p)
  <2>1. Loop(p, f)
    BY <1>4 DEF StartRunner
  <2>. HIDE DEF f
  <2>. QED
    BY <1>1, <2>1, LoopMoves
<1>. QED
  BY <1>2, <1>3, <1>4

\* close() changes the lock it waits for and the locks left, nothing else.
LEMMA CallFacts ==
    ASSUME TypeOK, NEW x \in Controllers
    PROVE  /\ \A c \in Channels, y \in Controllers : DrainLock(x, c) =>
                /\ call'[y].selected = call[y].selected
                /\ y # x => call'[y] = call[y]
                /\ call'[x].op = call[x].op
                /\ lockQueue[c] # <<>> => call'[x].channel = c
           /\ \A y \in Controllers : LockDrained(x) =>
                /\ call'[y].selected = call[y].selected
                /\ y # x => call'[y] = call[y]
                /\ call'[x].op = call[x].op
           /\ \A y \in Controllers : ScopeClosed(x) =>
                /\ y # x => call'[y] = call[y]
                /\ call'[x].selected = parents
                /\ call'[x].op = call[x].op
<1>0. call \in [Controllers -> Calls]
  BY DEF TypeOK
<1>1. \A c \in Channels, y \in Controllers : DrainLock(x, c) =>
        /\ call'[y].selected = call[y].selected
        /\ y # x => call'[y] = call[y]
        /\ call'[x].op = call[x].op
        /\ lockQueue[c] # <<>> => call'[x].channel = c
  BY <1>0 DEF DrainLock, Calls
<1>2. \A y \in Controllers : LockDrained(x) =>
        /\ call'[y].selected = call[y].selected
        /\ y # x => call'[y] = call[y]
        /\ call'[x].op = call[x].op
  BY <1>0 DEF LockDrained, Calls
<1>3. \A y \in Controllers : ScopeClosed(x) =>
        /\ y # x => call'[y] = call[y]
        /\ call'[x].selected = parents
        /\ call'[x].op = call[x].op
  BY <1>0 DEF ScopeClosed, Calls
<1>. QED
  BY <1>1, <1>2, <1>3

\* A child starts to execute only when its parent is live, no cancellation of it
\* is requested, and no operation moves in the same step.
ExecutingMoves ==
    \A k \in Children : Executing(k)' =>
        \/ Executing(k)
        \/ /\ k[1] \in parents
           /\ ~ CancellationRequested(k[1])
           /\ \A x \in Controllers : pc'[Control(x)] = pc[Control(x)]

\* No action revives a child: a task only starts to execute while its parent is
\* wanted.
LEMMA ExecutingStep ==
    ASSUME TypeOK, RolesOK, RunnersOK, ClosedExactlyWhenComplete, [Next]_vars
    PROVE  ExecutingMoves
<1>. USE DEF ExecutingMoves, Executing, KidRunning, KidLive, Interrupted,
   registry, admission, progress, tasks, control
<1>. pc \in [Actors -> PcValues]
  BY DEF TypeOK
<1>1. CASE UNCHANGED vars
  BY <1>1 DEF vars
<1>2. ASSUME NEW p \in Parents, Reject(p) PROVE ExecutingMoves
  BY <1>2, ActorFacts, KidFacts DEF Reject, Goto
<1>3. ASSUME NEW p \in Parents, Register(p) PROVE ExecutingMoves
  BY <1>3, ActorFacts, KidFacts DEF Register, Goto
<1>4. ASSUME NEW p \in Parents, LockAcquired(p) PROVE ExecutingMoves
  BY <1>4, ActorFacts, KidFacts DEF LockAcquired, Goto
<1>5. ASSUME NEW p \in Parents, Admitted(p) PROVE ExecutingMoves
  BY <1>5, ActorFacts, KidFacts DEF Admitted, Goto
<1>6. ASSUME NEW p \in Parents, NotAdmitted(p) PROVE ExecutingMoves
  BY <1>6, ActorFacts, KidFacts DEF NotAdmitted, Goto
<1>7. ASSUME NEW p \in Parents, Withdraw(p) PROVE ExecutingMoves
  BY <1>7, ActorFacts, KidFacts DEF Withdraw, SweepOne
<1>8. ASSUME NEW p \in Parents, Withdrawn(p) PROVE ExecutingMoves
  BY <1>8, ActorFacts, KidFacts DEF Withdrawn, Goto
<1>9. ASSUME NEW p \in Parents, ChildCreated(p) PROVE ExecutingMoves
  <2>1. CASE /\ p \notin parents
             /\ Goto(Submitter(p), "return")
             /\ UNCHANGED <<creating, terminal>>
    BY <1>9, <2>1, ActorFacts, KidFacts DEF ChildCreated, Goto
  <2>2. CASE /\ p \in parents /\ MoreChildren(p)
             /\ creating' = [creating EXCEPT ![p] = @ + 1]
             /\ Goto(Submitter(p), "create")
             /\ UNCHANGED terminal
    BY <1>9, <2>2, ActorFacts, KidFacts DEF ChildCreated, Goto
  <2>3. CASE /\ p \in parents /\ CancellationRequested(p)
             /\ Goto(Submitter(p), "sweep")
             /\ StartSweep(Submitter(p), {p})
             /\ UNCHANGED creating
    BY <1>9, <2>3, ActorFacts, KidFacts DEF ChildCreated, Goto
  <2>4. CASE /\ p \in parents /\ ~ CancellationRequested(p)
             /\ StartRunner(p)
             /\ UNCHANGED creating
    <3>1. RunnerMoves(p) /\ pc'[Submitter(p)] = "return"
      BY <2>4, StartMoves
    <3>. QED
      BY <1>9, <2>4, <3>1, ActorFacts, KidFacts DEF ChildCreated, RunnerMoves
  <2>. QED
    BY <1>9, <2>1, <2>2, <2>3, <2>4 DEF ChildCreated, CreateNext
<1>10. ASSUME NEW p \in Parents, ChildCreationFails(p) PROVE ExecutingMoves
  BY <1>10, ActorFacts, KidFacts DEF ChildCreationFails, Goto
<1>11. ASSUME NEW p \in Parents, SubmitterCancelled(p) PROVE ExecutingMoves
  BY <1>11, ActorFacts, KidFacts DEF SubmitterCancelled, Goto
<1>12. ASSUME NEW p \in Parents, LoopContinues(p) PROVE ExecutingMoves
  <2>1. RunnerMoves(p) /\ pc'[Submitter(p)] = pc[Submitter(p)]
    BY <1>12, LoopMoves DEF LoopContinues, TypeOK
  <2>. QED
    BY <1>12, <2>1, ActorFacts, KidFacts
    DEF LoopContinues, RunnerMoves, RunnersOK, ClosedExactlyWhenComplete,
        Registered
<1>13. ASSUME NEW p \in Parents, Gathered(p) PROVE ExecutingMoves
  BY <1>13, ActorFacts, KidFacts DEF Gathered, Goto
<1>14. ASSUME NEW p \in Parents, RunnerCancelled(p) PROVE ExecutingMoves
  BY <1>14, ActorFacts, KidFacts DEF RunnerCancelled, Unwind, Goto
<1>15. ASSUME NEW p \in Parents, RunnerSweeps(p) PROVE ExecutingMoves
  BY <1>15, ActorFacts, KidFacts DEF RunnerSweeps, SweepOne
<1>16. ASSUME NEW p \in Parents, RunnerEnds(p) PROVE ExecutingMoves
  BY <1>16, ActorFacts, KidFacts DEF RunnerEnds, Goto
<1>17. ASSUME NEW k \in Children, ChildStarted(k) PROVE ExecutingMoves
  BY <1>17, ActorFacts, KidFacts DEF ChildStarted, Goto
<1>18. ASSUME NEW k \in Children, ChildProcessed(k) PROVE ExecutingMoves
  BY <1>18, ActorFacts, KidFacts DEF ChildProcessed, Deliver, Goto
<1>19. ASSUME NEW k \in Children, PredecessorClosed(k) PROVE ExecutingMoves
  BY <1>19, ActorFacts, KidFacts DEF PredecessorClosed, Deliver, Goto
<1>20. ASSUME NEW k \in Children, OutputReturns(k) PROVE ExecutingMoves
  BY <1>20, ActorFacts, KidFacts DEF OutputReturns, Goto
<1>21. ASSUME NEW k \in Children, ChildInterrupted(k) PROVE ExecutingMoves
  BY <1>21, ActorFacts, KidFacts DEF ChildInterrupted, Goto
<1>22. ASSUME NEW k \in Children, ChildEnds(k) PROVE ExecutingMoves
  BY <1>22, ActorFacts, KidFacts DEF ChildEnds, Goto
<1>23. ASSUME NEW k \in Children, ChildDropped(k) PROVE ExecutingMoves
  BY <1>23, ActorFacts, KidFacts DEF ChildDropped
<1>24. ASSUME NEW x \in Controllers, NEW op \in {"cancel", "closeIngress"},
               NEW c \in Channels, CancelQueued(x, op, c) PROVE ExecutingMoves
  BY <1>24, ActorFacts, KidFacts DEF CancelQueued, BeginsCancel, Called, Goto
<1>25. ASSUME NEW x \in Controllers, NEW op \in {"cancel", "closeIngress"},
               NEW c \in Channels, CancelStarts(x, op, c) PROVE ExecutingMoves
  BY <1>25, ActorFacts, KidFacts
  DEF CancelStarts, BeginsCancel, Called, CancelSelected, Goto
<1>26. ASSUME NEW x \in Controllers, NEW op \in {"cancel", "closeIngress"},
               NEW c \in Channels, CancelFindsNothing(x, op, c)
     PROVE  ExecutingMoves
  BY <1>26, ActorFacts, KidFacts DEF CancelFindsNothing, BeginsCancel, Called
<1>27. ASSUME NEW x \in Controllers, NEW c \in Channels, OpenIngress(x, c)
       PROVE  ExecutingMoves
  BY <1>27, ActorFacts, KidFacts DEF OpenIngress
<1>28. ASSUME NEW x \in Controllers, Select(x) PROVE ExecutingMoves
  BY <1>28, ActorFacts, KidFacts DEF Select, CancelSelected, Goto
<1>29. ASSUME NEW x \in Controllers, CancelReturns(x) PROVE ExecutingMoves
  BY <1>29, ActorFacts, KidFacts DEF CancelReturns, Goto
<1>30. ASSUME NEW x \in Controllers, TasksEnded(x) PROVE ExecutingMoves
  BY <1>30, ActorFacts, KidFacts DEF TasksEnded, Goto
<1>31. ASSUME NEW x \in Controllers, ControlSweeps(x) PROVE ExecutingMoves
  BY <1>31, ActorFacts, KidFacts DEF ControlSweeps, SweepOne
<1>32. ASSUME NEW x \in Controllers, BeginClose(x) PROVE ExecutingMoves
  BY <1>32, ActorFacts, KidFacts DEF BeginClose, Goto
<1>33. ASSUME NEW x \in Controllers, NEW c \in Channels, DrainLock(x, c)
       PROVE  ExecutingMoves
  BY <1>33, ActorFacts, KidFacts DEF DrainLock, Goto
<1>34. ASSUME NEW x \in Controllers, LockDrained(x) PROVE ExecutingMoves
  BY <1>34, ActorFacts, KidFacts DEF LockDrained, Goto
<1>35. ASSUME NEW x \in Controllers, CloseScope(x) PROVE ExecutingMoves
  BY <1>35, ActorFacts, KidFacts DEF CloseScope, Goto
<1>36. ASSUME NEW x \in Controllers, ScopeClosed(x) PROVE ExecutingMoves
  BY <1>36, ActorFacts, KidFacts DEF ScopeClosed, Goto
<1>37. ASSUME NEW x \in Controllers, CloseReturns(x) PROVE ExecutingMoves
  BY <1>37, ActorFacts, KidFacts DEF CloseReturns, Goto
<1>38. ASSUME NEW a \in Actors, TerminalReturns(a) PROVE ExecutingMoves
  BY <1>38, ActorFacts, KidFacts DEF TerminalReturns
<1>39. ASSUME NEW a \in Actors, ClosedReturns(a) PROVE ExecutingMoves
  BY <1>39, ActorFacts, KidFacts DEF ClosedReturns
<1>. QED
  BY <1>1, <1>2, <1>3, <1>4, <1>5, <1>6, <1>7, <1>8, <1>9, <1>10, <1>11, <1>12,
     <1>13, <1>14, <1>15, <1>16, <1>17, <1>18, <1>19, <1>20, <1>21, <1>22,
     <1>23, <1>24, <1>25, <1>26, <1>27, <1>28, <1>29, <1>30, <1>31, <1>32,
     <1>33, <1>34, <1>35, <1>36, <1>37, <1>38, <1>39
  DEF Next, Environment, AdapterReturns, SubmitStep, RunStep, ChildStep,
     ControlStep

-----------------------------------------------------------------------------
(* The conjuncts of the invariant. *)

\* The registry changes only when a turn is submitted and when a child is
\* reported terminal.
LEMMA RegistryFrame ==
    ASSUME [Next]_vars
    PROVE  \/ UNCHANGED <<parents, closedParents, completed>>
           \/ \E p \in Parents : Register(p)
           \/ \E a \in Actors : TerminalReturns(a)
<1>. USE DEF registry, admission, progress, tasks, control
<1>1. CASE UNCHANGED vars
  BY <1>1 DEF vars
<1>2. ASSUME NEW p \in Parents,
               \/ Reject(p) \/ LockAcquired(p) \/ Admitted(p)
               \/ NotAdmitted(p) \/ Withdraw(p) \/ Withdrawn(p)
               \/ ChildCreated(p) \/ ChildCreationFails(p)
               \/ SubmitterCancelled(p) \/ LoopContinues(p)
               \/ Gathered(p) \/ RunnerCancelled(p) \/ RunnerSweeps(p)
               \/ RunnerEnds(p)
     PROVE  UNCHANGED <<parents, closedParents, completed>>
  BY <1>2
  DEF Reject, LockAcquired, Admitted, NotAdmitted, Withdraw, Withdrawn,
      ChildCreated, ChildCreationFails, SubmitterCancelled, LoopContinues,
      Gathered, RunnerCancelled, RunnerSweeps, RunnerEnds, SweepOne
<1>3. ASSUME NEW k \in Children,
               \/ ChildStarted(k) \/ ChildProcessed(k)
               \/ PredecessorClosed(k) \/ OutputReturns(k)
               \/ ChildInterrupted(k) \/ ChildEnds(k) \/ ChildDropped(k)
     PROVE  UNCHANGED <<parents, closedParents, completed>>
  BY <1>3
  DEF ChildStarted, ChildProcessed, PredecessorClosed, OutputReturns,
      ChildInterrupted, ChildEnds, ChildDropped, Deliver
<1>4. ASSUME NEW x \in Controllers, NEW op \in {"cancel", "closeIngress"},
               NEW c \in Channels,
               \/ CancelQueued(x, op, c) \/ CancelStarts(x, op, c)
               \/ CancelFindsNothing(x, op, c)
     PROVE  UNCHANGED <<parents, closedParents, completed>>
  BY <1>4
  DEF CancelQueued, CancelStarts, CancelFindsNothing, BeginsCancel,
      CancelSelected
<1>5. ASSUME NEW x \in Controllers, NEW c \in Channels,
               \/ OpenIngress(x, c) \/ DrainLock(x, c)
     PROVE  UNCHANGED <<parents, closedParents, completed>>
  BY <1>5 DEF OpenIngress, DrainLock
<1>6. ASSUME NEW x \in Controllers,
               \/ Select(x) \/ CancelReturns(x) \/ TasksEnded(x)
               \/ ControlSweeps(x) \/ BeginClose(x) \/ LockDrained(x)
               \/ CloseScope(x) \/ ScopeClosed(x) \/ CloseReturns(x)
     PROVE  UNCHANGED <<parents, closedParents, completed>>
  BY <1>6
  DEF Select, CancelReturns, TasksEnded, ControlSweeps, BeginClose, LockDrained,
      CloseScope, ScopeClosed, CloseReturns, CancelSelected, SweepOne
<1>7. ASSUME NEW a \in Actors,
               ClosedReturns(a)
     PROVE  UNCHANGED <<parents, closedParents, completed>>
  BY <1>7 DEF ClosedReturns
<1>. QED
  BY <1>1, <1>2, <1>3, <1>4, <1>5, <1>6, <1>7
  DEF Next, Environment, AdapterReturns, SubmitStep, RunStep, ChildStep,
     ControlStep

\* A task only moves between the labels of its kind.
LEMMA RolesStep ==
    ASSUME TypeOK, RolesOK, [Next]_vars
    PROVE  RolesOK'
<1>. USE DEF RolesOK, registry, admission, progress, tasks, control
<1>. pc \in [Actors -> PcValues]
  BY DEF TypeOK
<1>1. CASE UNCHANGED vars
  BY <1>1 DEF vars
<1>2. ASSUME NEW p \in Parents,
               \/ Withdraw(p) \/ RunnerSweeps(p)
     PROVE  RolesOK'
  <2>1. UNCHANGED pc
    BY <1>2 DEF Withdraw, RunnerSweeps, SweepOne
  <2>. QED
    BY <2>1
<1>3. ASSUME NEW k \in Children,
               ChildDropped(k)
     PROVE  RolesOK'
  <2>1. UNCHANGED pc
    BY <1>3 DEF ChildDropped
  <2>. QED
    BY <2>1
<1>4. ASSUME NEW x \in Controllers, NEW op \in {"cancel", "closeIngress"},
               NEW c \in Channels,
               CancelFindsNothing(x, op, c)
     PROVE  RolesOK'
  <2>1. UNCHANGED pc
    BY <1>4 DEF CancelFindsNothing, BeginsCancel
  <2>. QED
    BY <2>1
<1>5. ASSUME NEW x \in Controllers, NEW c \in Channels,
               OpenIngress(x, c)
     PROVE  RolesOK'
  <2>1. UNCHANGED pc
    BY <1>5 DEF OpenIngress
  <2>. QED
    BY <2>1
<1>6. ASSUME NEW x \in Controllers,
               ControlSweeps(x)
     PROVE  RolesOK'
  <2>1. UNCHANGED pc
    BY <1>6 DEF ControlSweeps, SweepOne
  <2>. QED
    BY <2>1
<1>7. ASSUME NEW a \in Actors,
               \/ TerminalReturns(a) \/ ClosedReturns(a)
     PROVE  RolesOK'
  <2>1. UNCHANGED pc
    BY <1>7 DEF TerminalReturns, ClosedReturns
  <2>. QED
    BY <2>1
<1>8. ASSUME NEW p \in Parents, Reject(p) PROVE RolesOK'
  BY <1>8, ActorFacts, KidFacts DEF Reject, Goto
<1>9. ASSUME NEW p \in Parents, Register(p) PROVE RolesOK'
  BY <1>9, ActorFacts, KidFacts DEF Register, Goto
<1>10. ASSUME NEW p \in Parents, LockAcquired(p) PROVE RolesOK'
  BY <1>10, ActorFacts, KidFacts DEF LockAcquired, Goto
<1>11. ASSUME NEW p \in Parents, Admitted(p) PROVE RolesOK'
  BY <1>11, ActorFacts, KidFacts DEF Admitted, Goto
<1>12. ASSUME NEW p \in Parents, NotAdmitted(p) PROVE RolesOK'
  BY <1>12, ActorFacts, KidFacts DEF NotAdmitted, Goto
<1>13. ASSUME NEW p \in Parents, Withdrawn(p) PROVE RolesOK'
  BY <1>13, ActorFacts, KidFacts DEF Withdrawn, Goto
<1>14. ASSUME NEW p \in Parents, ChildCreated(p) PROVE RolesOK'
  <2>1. CASE /\ p \notin parents
             /\ Goto(Submitter(p), "return")
             /\ UNCHANGED <<creating, terminal>>
    BY <1>14, <2>1, ActorFacts, KidFacts DEF ChildCreated, Goto
  <2>2. CASE /\ p \in parents /\ MoreChildren(p)
             /\ creating' = [creating EXCEPT ![p] = @ + 1]
             /\ Goto(Submitter(p), "create")
             /\ UNCHANGED terminal
    BY <1>14, <2>2, ActorFacts, KidFacts DEF ChildCreated, Goto
  <2>3. CASE /\ p \in parents /\ CancellationRequested(p)
             /\ Goto(Submitter(p), "sweep")
             /\ StartSweep(Submitter(p), {p})
             /\ UNCHANGED creating
    BY <1>14, <2>3, ActorFacts, KidFacts DEF ChildCreated, Goto
  <2>4. CASE /\ p \in parents /\ ~ CancellationRequested(p)
             /\ StartRunner(p)
             /\ UNCHANGED creating
    <3>1. RunnerMoves(p) /\ pc'[Submitter(p)] = "return"
      BY <2>4, StartMoves
    <3>. QED
      BY <1>14, <2>4, <3>1, ActorFacts, KidFacts DEF ChildCreated, RunnerMoves
  <2>. QED
    BY <1>14, <2>1, <2>2, <2>3, <2>4 DEF ChildCreated, CreateNext
<1>15. ASSUME NEW p \in Parents, ChildCreationFails(p) PROVE RolesOK'
  BY <1>15, ActorFacts, KidFacts DEF ChildCreationFails, Goto
<1>16. ASSUME NEW p \in Parents, SubmitterCancelled(p) PROVE RolesOK'
  BY <1>16, ActorFacts, KidFacts DEF SubmitterCancelled, Goto
<1>17. ASSUME NEW p \in Parents, LoopContinues(p) PROVE RolesOK'
  <2>1. RunnerMoves(p) /\ pc'[Submitter(p)] = pc[Submitter(p)]
    BY <1>17, LoopMoves DEF LoopContinues, TypeOK
  <2>. QED
    BY <1>17, <2>1, ActorFacts, KidFacts DEF LoopContinues, RunnerMoves
<1>18. ASSUME NEW p \in Parents, Gathered(p) PROVE RolesOK'
  BY <1>18, ActorFacts, KidFacts DEF Gathered, Goto
<1>19. ASSUME NEW p \in Parents, RunnerCancelled(p) PROVE RolesOK'
  BY <1>19, ActorFacts, KidFacts DEF RunnerCancelled, Unwind, Goto
<1>20. ASSUME NEW p \in Parents, RunnerEnds(p) PROVE RolesOK'
  BY <1>20, ActorFacts, KidFacts DEF RunnerEnds, Goto
<1>21. ASSUME NEW k \in Children, ChildStarted(k) PROVE RolesOK'
  BY <1>21, ActorFacts, KidFacts DEF ChildStarted, Goto
<1>22. ASSUME NEW k \in Children, ChildProcessed(k) PROVE RolesOK'
  BY <1>22, ActorFacts, KidFacts DEF ChildProcessed, Deliver, Goto
<1>23. ASSUME NEW k \in Children, PredecessorClosed(k) PROVE RolesOK'
  BY <1>23, ActorFacts, KidFacts DEF PredecessorClosed, Deliver, Goto
<1>24. ASSUME NEW k \in Children, OutputReturns(k) PROVE RolesOK'
  BY <1>24, ActorFacts, KidFacts DEF OutputReturns, Goto
<1>25. ASSUME NEW k \in Children, ChildInterrupted(k) PROVE RolesOK'
  BY <1>25, ActorFacts, KidFacts DEF ChildInterrupted, Goto
<1>26. ASSUME NEW k \in Children, ChildEnds(k) PROVE RolesOK'
  BY <1>26, ActorFacts, KidFacts DEF ChildEnds, Goto
<1>27. ASSUME NEW x \in Controllers, NEW op \in {"cancel", "closeIngress"},
               NEW c \in Channels, CancelQueued(x, op, c) PROVE RolesOK'
  BY <1>27, ActorFacts, KidFacts DEF CancelQueued, BeginsCancel, Called, Goto
<1>28. ASSUME NEW x \in Controllers, NEW op \in {"cancel", "closeIngress"},
               NEW c \in Channels, CancelStarts(x, op, c) PROVE RolesOK'
  BY <1>28, ActorFacts, KidFacts
  DEF CancelStarts, BeginsCancel, Called, CancelSelected, Goto
<1>29. ASSUME NEW x \in Controllers, Select(x) PROVE RolesOK'
  BY <1>29, ActorFacts, KidFacts DEF Select, CancelSelected, Goto
<1>30. ASSUME NEW x \in Controllers, CancelReturns(x) PROVE RolesOK'
  BY <1>30, ActorFacts, KidFacts DEF CancelReturns, Goto
<1>31. ASSUME NEW x \in Controllers, TasksEnded(x) PROVE RolesOK'
  BY <1>31, ActorFacts, KidFacts DEF TasksEnded, Goto
<1>32. ASSUME NEW x \in Controllers, BeginClose(x) PROVE RolesOK'
  BY <1>32, ActorFacts, KidFacts DEF BeginClose, Goto
<1>33. ASSUME NEW x \in Controllers, NEW c \in Channels, DrainLock(x, c)
       PROVE  RolesOK'
  BY <1>33, ActorFacts, KidFacts DEF DrainLock, Goto
<1>34. ASSUME NEW x \in Controllers, LockDrained(x) PROVE RolesOK'
  BY <1>34, ActorFacts, KidFacts DEF LockDrained, Goto
<1>35. ASSUME NEW x \in Controllers, CloseScope(x) PROVE RolesOK'
  BY <1>35, ActorFacts, KidFacts DEF CloseScope, Goto
<1>36. ASSUME NEW x \in Controllers, ScopeClosed(x) PROVE RolesOK'
  BY <1>36, ActorFacts, KidFacts DEF ScopeClosed, Goto
<1>37. ASSUME NEW x \in Controllers, CloseReturns(x) PROVE RolesOK'
  BY <1>37, ActorFacts, KidFacts DEF CloseReturns, Goto
<1>. QED
  BY <1>1, <1>2, <1>3, <1>4, <1>5, <1>6, <1>7, <1>8, <1>9, <1>10, <1>11, <1>12,
     <1>13, <1>14, <1>15, <1>16, <1>17, <1>18, <1>19, <1>20, <1>21, <1>22,
     <1>23, <1>24, <1>25, <1>26, <1>27, <1>28, <1>29, <1>30, <1>31, <1>32,
     <1>33, <1>34, <1>35, <1>36, <1>37
  DEF Next, Environment, AdapterReturns, SubmitStep, RunStep, ChildStep,
     ControlStep

\* _close_parent runs in the step that completes the last child.
LEMMA ClosedStep ==
    ASSUME TypeOK, SubmittersOK, ClosedExactlyWhenComplete, [Next]_vars
    PROVE  ClosedExactlyWhenComplete'
<1>. USE DEF ClosedExactlyWhenComplete
<1>1. ASSUME NEW p \in Parents, Register(p) PROVE ClosedExactlyWhenComplete'
  <2>1. UNCHANGED completed /\ p \notin Registered
    BY <1>1 DEF Register, progress
  <2>2. CASE /\ ChildCount[p] = 0
             /\ UNCHANGED parents /\ closedParents' = closedParents \cup {p}
    <3>1. KidsOf(p) = {}
      BY <2>2 DEF KidsOf
    <3>. QED
      BY <2>1, <2>2, <3>1 DEF Registered
  <2>3. CASE /\ ChildCount[p] # 0
             /\ parents' = parents \cup {p} /\ UNCHANGED closedParents
    <3>1. <<p, 1>> \in KidsOf(p)
      BY <2>3, ChannelFacts DEF KidsOf
    <3>2. <<p, 1>> \notin completed
      BY <2>1, <3>1 DEF SubmittersOK
    <3>. QED
      BY <2>1, <2>3, <3>1, <3>2 DEF Registered
  <2>. QED
    BY <1>1, <2>2, <2>3 DEF Register
<1>2. ASSUME NEW a \in Actors, TerminalReturns(a)
      PROVE  ClosedExactlyWhenComplete'
  <2>. DEFINE p == terminal[a][1]
  <2>1. terminal[a] \in KidsOf(p) /\ completed' = completed \cup {terminal[a]}
    BY <1>2, KidFacts DEF TerminalReturns, TypeOK
  <2>2. \A q \in Parents : q # p => terminal[a] \notin KidsOf(q)
    BY <2>1, KidFacts
  <2>3. CASE p \in parents /\ LastChild(p, completed') /\ CloseParent(a, p)
    BY <2>1, <2>2, <2>3 DEF TypeOK, CloseParent, LastChild
  <2>4. CASE ~ (p \in parents /\ LastChild(p, completed')) /\ UNCHANGED registry
    BY <2>1, <2>2, <2>4 DEF TypeOK, LastChild, registry
  <2>. QED
    BY <1>2, <2>3, <2>4 DEF TerminalReturns
<1>. QED
  BY <1>1, <1>2, RegistryFrame

\* The task of a parent starts after its submitter created all children.
LEMMA SubmittersStep ==
    ASSUME TypeOK, RolesOK, SubmittersOK, TerminalsOK, [Next]_vars
    PROVE  SubmittersOK'
<1>. USE DEF SubmittersOK, Registered, registry, admission, progress, tasks,
   control
<1>. pc \in [Actors -> PcValues] /\ creating \in [Parents -> Nat]
  BY DEF TypeOK
<1>. \A p \in Parents : ChildCount[p] \in Nat
  BY ChannelFacts
<1>1. CASE UNCHANGED vars
  BY <1>1 DEF vars
<1>2. ASSUME NEW p \in Parents,
               \/ Withdraw(p) \/ RunnerSweeps(p)
     PROVE  SubmittersOK'
  <2>1. UNCHANGED <<pc, creating, parents, closedParents, completed>>
    BY <1>2 DEF Withdraw, RunnerSweeps, SweepOne
  <2>. QED
    BY <2>1
<1>3. ASSUME NEW k \in Children,
               ChildDropped(k)
     PROVE  SubmittersOK'
  <2>1. UNCHANGED <<pc, creating, parents, closedParents, completed>>
    BY <1>3 DEF ChildDropped
  <2>. QED
    BY <2>1
<1>4. ASSUME NEW x \in Controllers, NEW op \in {"cancel", "closeIngress"},
               NEW c \in Channels,
               CancelFindsNothing(x, op, c)
     PROVE  SubmittersOK'
  <2>1. UNCHANGED <<pc, creating, parents, closedParents, completed>>
    BY <1>4 DEF CancelFindsNothing, BeginsCancel
  <2>. QED
    BY <2>1
<1>5. ASSUME NEW x \in Controllers, NEW c \in Channels,
               OpenIngress(x, c)
     PROVE  SubmittersOK'
  <2>1. UNCHANGED <<pc, creating, parents, closedParents, completed>>
    BY <1>5 DEF OpenIngress
  <2>. QED
    BY <2>1
<1>6. ASSUME NEW x \in Controllers,
               ControlSweeps(x)
     PROVE  SubmittersOK'
  <2>1. UNCHANGED <<pc, creating, parents, closedParents, completed>>
    BY <1>6 DEF ControlSweeps, SweepOne
  <2>. QED
    BY <2>1
<1>7. ASSUME NEW a \in Actors,
               ClosedReturns(a)
     PROVE  SubmittersOK'
  <2>1. UNCHANGED <<pc, creating, parents, closedParents, completed>>
    BY <1>7 DEF ClosedReturns
  <2>. QED
    BY <2>1
<1>8. ASSUME NEW p \in Parents, Reject(p) PROVE SubmittersOK'
  BY <1>8, ActorFacts, KidFacts DEF Reject, Goto
<1>9. ASSUME NEW p \in Parents, Register(p) PROVE SubmittersOK'
  BY <1>9, ActorFacts, KidFacts DEF Register, Goto
<1>10. ASSUME NEW p \in Parents, LockAcquired(p) PROVE SubmittersOK'
  BY <1>10, ActorFacts, KidFacts DEF LockAcquired, Goto
<1>11. ASSUME NEW p \in Parents, Admitted(p) PROVE SubmittersOK'
  BY <1>11, ActorFacts, KidFacts DEF Admitted, Goto
<1>12. ASSUME NEW p \in Parents, NotAdmitted(p) PROVE SubmittersOK'
  BY <1>12, ActorFacts, KidFacts DEF NotAdmitted, Goto
<1>13. ASSUME NEW p \in Parents, Withdrawn(p) PROVE SubmittersOK'
  BY <1>13, ActorFacts, KidFacts DEF Withdrawn, Goto
<1>14. ASSUME NEW p \in Parents, ChildCreated(p) PROVE SubmittersOK'
  <2>1. CASE /\ p \notin parents
             /\ Goto(Submitter(p), "return")
             /\ UNCHANGED <<creating, terminal>>
    BY <1>14, <2>1, ActorFacts, KidFacts DEF ChildCreated, Goto
  <2>2. CASE /\ p \in parents /\ MoreChildren(p)
             /\ creating' = [creating EXCEPT ![p] = @ + 1]
             /\ Goto(Submitter(p), "create")
             /\ UNCHANGED terminal
    BY <1>14, <2>2, ActorFacts, KidFacts DEF ChildCreated, Goto, MoreChildren
  <2>3. CASE /\ p \in parents /\ CancellationRequested(p)
             /\ Goto(Submitter(p), "sweep")
             /\ StartSweep(Submitter(p), {p})
             /\ UNCHANGED creating
    BY <1>14, <2>3, ActorFacts, KidFacts DEF ChildCreated, Goto
  <2>4. CASE /\ p \in parents /\ ~ CancellationRequested(p)
             /\ StartRunner(p)
             /\ UNCHANGED creating
    <3>1. RunnerMoves(p) /\ pc'[Submitter(p)] = "return"
      BY <2>4, StartMoves
    <3>. QED
      BY <1>14, <2>4, <3>1, ActorFacts, KidFacts DEF ChildCreated, RunnerMoves
  <2>. QED
    BY <1>14, <2>1, <2>2, <2>3, <2>4 DEF ChildCreated, CreateNext
<1>15. ASSUME NEW p \in Parents, ChildCreationFails(p) PROVE SubmittersOK'
  BY <1>15, ActorFacts, KidFacts DEF ChildCreationFails, Goto
<1>16. ASSUME NEW p \in Parents, SubmitterCancelled(p) PROVE SubmittersOK'
  BY <1>16, ActorFacts, KidFacts DEF SubmitterCancelled, Goto
<1>17. ASSUME NEW p \in Parents, LoopContinues(p) PROVE SubmittersOK'
  <2>1. RunnerMoves(p) /\ pc'[Submitter(p)] = pc[Submitter(p)]
    BY <1>17, LoopMoves DEF LoopContinues, TypeOK
  <2>. QED
    BY <1>17, <2>1, ActorFacts, KidFacts DEF LoopContinues, RunnerMoves
<1>18. ASSUME NEW p \in Parents, Gathered(p) PROVE SubmittersOK'
  BY <1>18, ActorFacts, KidFacts DEF Gathered, Goto
<1>19. ASSUME NEW p \in Parents, RunnerCancelled(p) PROVE SubmittersOK'
  BY <1>19, ActorFacts, KidFacts DEF RunnerCancelled, Unwind, Goto
<1>20. ASSUME NEW p \in Parents, RunnerEnds(p) PROVE SubmittersOK'
  BY <1>20, ActorFacts, KidFacts DEF RunnerEnds, Goto
<1>21. ASSUME NEW k \in Children, ChildStarted(k) PROVE SubmittersOK'
  BY <1>21, ActorFacts, KidFacts DEF ChildStarted, Goto
<1>22. ASSUME NEW k \in Children, ChildProcessed(k) PROVE SubmittersOK'
  BY <1>22, ActorFacts, KidFacts DEF ChildProcessed, Deliver, Goto
<1>23. ASSUME NEW k \in Children, PredecessorClosed(k) PROVE SubmittersOK'
  BY <1>23, ActorFacts, KidFacts DEF PredecessorClosed, Deliver, Goto
<1>24. ASSUME NEW k \in Children, OutputReturns(k) PROVE SubmittersOK'
  BY <1>24, ActorFacts, KidFacts DEF OutputReturns, Goto
<1>25. ASSUME NEW k \in Children, ChildInterrupted(k) PROVE SubmittersOK'
  BY <1>25, ActorFacts, KidFacts DEF ChildInterrupted, Goto
<1>26. ASSUME NEW k \in Children, ChildEnds(k) PROVE SubmittersOK'
  BY <1>26, ActorFacts, KidFacts DEF ChildEnds, Goto
<1>27. ASSUME NEW x \in Controllers, NEW op \in {"cancel", "closeIngress"},
               NEW c \in Channels, CancelQueued(x, op, c) PROVE SubmittersOK'
  BY <1>27, ActorFacts, KidFacts DEF CancelQueued, BeginsCancel, Called, Goto
<1>28. ASSUME NEW x \in Controllers, NEW op \in {"cancel", "closeIngress"},
               NEW c \in Channels, CancelStarts(x, op, c) PROVE SubmittersOK'
  BY <1>28, ActorFacts, KidFacts
  DEF CancelStarts, BeginsCancel, Called, CancelSelected, Goto
<1>29. ASSUME NEW x \in Controllers, Select(x) PROVE SubmittersOK'
  BY <1>29, ActorFacts, KidFacts DEF Select, CancelSelected, Goto
<1>30. ASSUME NEW x \in Controllers, CancelReturns(x) PROVE SubmittersOK'
  BY <1>30, ActorFacts, KidFacts DEF CancelReturns, Goto
<1>31. ASSUME NEW x \in Controllers, TasksEnded(x) PROVE SubmittersOK'
  BY <1>31, ActorFacts, KidFacts DEF TasksEnded, Goto
<1>32. ASSUME NEW x \in Controllers, BeginClose(x) PROVE SubmittersOK'
  BY <1>32, ActorFacts, KidFacts DEF BeginClose, Goto
<1>33. ASSUME NEW x \in Controllers, NEW c \in Channels, DrainLock(x, c)
       PROVE  SubmittersOK'
  BY <1>33, ActorFacts, KidFacts DEF DrainLock, Goto
<1>34. ASSUME NEW x \in Controllers, LockDrained(x) PROVE SubmittersOK'
  BY <1>34, ActorFacts, KidFacts DEF LockDrained, Goto
<1>35. ASSUME NEW x \in Controllers, CloseScope(x) PROVE SubmittersOK'
  BY <1>35, ActorFacts, KidFacts DEF CloseScope, Goto
<1>36. ASSUME NEW x \in Controllers, ScopeClosed(x) PROVE SubmittersOK'
  BY <1>36, ActorFacts, KidFacts DEF ScopeClosed, Goto
<1>37. ASSUME NEW x \in Controllers, CloseReturns(x) PROVE SubmittersOK'
  BY <1>37, ActorFacts, KidFacts DEF CloseReturns, Goto
<1>38. ASSUME NEW a \in Actors, TerminalReturns(a) PROVE SubmittersOK'
  <2>1. Registered' = Registered /\ UNCHANGED <<pc, creating>>
    BY <1>38 DEF TerminalReturns, CloseParent, Registered, registry
  <2>2. /\ completed' = completed \cup {terminal[a]}
        /\ terminal[a] \in Children /\ terminal[a][1] \in Registered
    BY <1>38 DEF TerminalReturns, TerminalsOK
  <2>. QED
    BY <2>1, <2>2, KidFacts
<1>. QED
  BY <1>1, <1>2, <1>3, <1>4, <1>5, <1>6, <1>7, <1>8, <1>9, <1>10, <1>11, <1>12,
     <1>13, <1>14, <1>15, <1>16, <1>17, <1>18, <1>19, <1>20, <1>21, <1>22,
     <1>23, <1>24, <1>25, <1>26, <1>27, <1>28, <1>29, <1>30, <1>31, <1>32,
     <1>33, <1>34, <1>35, <1>36, <1>37, <1>38
  DEF Next, Environment, AdapterReturns, SubmitStep, RunStep, ChildStep,
     ControlStep

\* No task terminalizes a child outside its own responsibility.
LEMMA TerminalsStep ==
    ASSUME TypeOK, RolesOK, SubmittersOK, RunnersOK, TerminalsOK, [Next]_vars
    PROVE  TerminalsOK'
<1>. USE DEF TerminalsOK, Registered, Terminalize, Free, Unfinished, registry,
   admission, progress, tasks, control
<1>. pc \in [Actors -> PcValues]
  BY DEF TypeOK
<1>. terminal \in [Actors -> Children \cup {None}]
  BY DEF TypeOK
<1>. closing \in [Actors -> Parents \cup {None}]
  BY DEF TypeOK
<1>. call \in [Controllers -> Calls]
  BY DEF TypeOK
<1>1. CASE UNCHANGED vars
  BY <1>1 DEF vars
<1>2. ASSUME NEW k \in Children,
               ChildDropped(k)
     PROVE  TerminalsOK'
  <2>1. UNCHANGED <<pc, terminal, closing, parents, closedParents, call>>
    BY <1>2 DEF ChildDropped
  <2>. QED
    BY <2>1
<1>3. ASSUME NEW x \in Controllers, NEW op \in {"cancel", "closeIngress"},
               NEW c \in Channels,
               CancelFindsNothing(x, op, c)
     PROVE  TerminalsOK'
  <2>1. UNCHANGED <<pc, terminal, closing, parents, closedParents, call>>
    BY <1>3 DEF CancelFindsNothing, BeginsCancel
  <2>. QED
    BY <2>1
<1>4. ASSUME NEW x \in Controllers, NEW c \in Channels,
               OpenIngress(x, c)
     PROVE  TerminalsOK'
  <2>1. UNCHANGED <<pc, terminal, closing, parents, closedParents, call>>
    BY <1>4 DEF OpenIngress
  <2>. QED
    BY <2>1
<1>5. ASSUME NEW p \in Parents, Reject(p) PROVE TerminalsOK'
  BY <1>5, ActorFacts, KidFacts, SweepFacts DEF Reject, Goto
<1>6. ASSUME NEW p \in Parents, Register(p) PROVE TerminalsOK'
  BY <1>6, ActorFacts, KidFacts, SweepFacts DEF Register, Goto, SubmittersOK
<1>7. ASSUME NEW p \in Parents, LockAcquired(p) PROVE TerminalsOK'
  BY <1>7, ActorFacts, KidFacts, SweepFacts DEF LockAcquired, Goto
<1>8. ASSUME NEW p \in Parents, Admitted(p) PROVE TerminalsOK'
  BY <1>8, ActorFacts, KidFacts, SweepFacts DEF Admitted, Goto
<1>9. ASSUME NEW p \in Parents, NotAdmitted(p) PROVE TerminalsOK'
  BY <1>9, ActorFacts, KidFacts, SweepFacts DEF NotAdmitted, Goto
<1>10. ASSUME NEW p \in Parents, Withdraw(p) PROVE TerminalsOK'
  BY <1>10, ActorFacts, KidFacts, SweepFacts DEF Withdraw, SweepOne
<1>11. ASSUME NEW p \in Parents, Withdrawn(p) PROVE TerminalsOK'
  BY <1>11, ActorFacts, KidFacts, SweepFacts DEF Withdrawn, Goto
<1>12. ASSUME NEW p \in Parents, ChildCreated(p) PROVE TerminalsOK'
  <2>1. CASE /\ p \notin parents
             /\ Goto(Submitter(p), "return")
             /\ UNCHANGED <<creating, terminal>>
    BY <1>12, <2>1, ActorFacts, KidFacts, SweepFacts DEF ChildCreated, Goto
  <2>2. CASE /\ p \in parents /\ MoreChildren(p)
             /\ creating' = [creating EXCEPT ![p] = @ + 1]
             /\ Goto(Submitter(p), "create")
             /\ UNCHANGED terminal
    BY <1>12, <2>2, ActorFacts, KidFacts, SweepFacts DEF ChildCreated, Goto
  <2>3. CASE /\ p \in parents /\ CancellationRequested(p)
             /\ Goto(Submitter(p), "sweep")
             /\ StartSweep(Submitter(p), {p})
             /\ UNCHANGED creating
    BY <1>12, <2>3, ActorFacts, KidFacts, SweepFacts DEF ChildCreated, Goto
  <2>4. CASE /\ p \in parents /\ ~ CancellationRequested(p)
             /\ StartRunner(p)
             /\ UNCHANGED creating
    <3>1. RunnerMoves(p) /\ pc'[Submitter(p)] = "return"
      BY <2>4, StartMoves
    <3>. QED
      BY <1>12, <2>4, <3>1, ActorFacts, KidFacts, SweepFacts
      DEF ChildCreated, RunnerMoves, SubmittersOK, RunnersOK
  <2>. QED
    BY <1>12, <2>1, <2>2, <2>3, <2>4 DEF ChildCreated, CreateNext
<1>13. ASSUME NEW p \in Parents, ChildCreationFails(p) PROVE TerminalsOK'
  BY <1>13, ActorFacts, KidFacts, SweepFacts
  DEF ChildCreationFails, Goto, SubmittersOK, KidsOf, Children
<1>14. ASSUME NEW p \in Parents, SubmitterCancelled(p) PROVE TerminalsOK'
  BY <1>14, ActorFacts, KidFacts, SweepFacts DEF SubmitterCancelled, Goto
<1>15. ASSUME NEW p \in Parents, LoopContinues(p) PROVE TerminalsOK'
  <2>1. RunnerMoves(p) /\ pc'[Submitter(p)] = pc[Submitter(p)]
    BY <1>15, LoopMoves DEF LoopContinues, TypeOK
  <2>. QED
    BY <1>15, <2>1, ActorFacts, KidFacts
    DEF LoopContinues, RunnerMoves, RunnersOK, KidLive
<1>16. ASSUME NEW p \in Parents, Gathered(p) PROVE TerminalsOK'
  BY <1>16, ActorFacts, KidFacts, SweepFacts DEF Gathered, Goto
<1>17. ASSUME NEW p \in Parents, RunnerCancelled(p) PROVE TerminalsOK'
  BY <1>17, ActorFacts, KidFacts, SweepFacts DEF RunnerCancelled, Unwind, Goto
<1>18. ASSUME NEW p \in Parents, RunnerSweeps(p) PROVE TerminalsOK'
  BY <1>18, ActorFacts, KidFacts, SweepFacts DEF RunnerSweeps, SweepOne
<1>19. ASSUME NEW p \in Parents, RunnerEnds(p) PROVE TerminalsOK'
  BY <1>19, ActorFacts, KidFacts, SweepFacts DEF RunnerEnds, Goto
<1>20. ASSUME NEW k \in Children, ChildStarted(k) PROVE TerminalsOK'
  BY <1>20, ActorFacts, KidFacts, SweepFacts DEF ChildStarted, Goto
<1>21. ASSUME NEW k \in Children, ChildProcessed(k) PROVE TerminalsOK'
  BY <1>21, ActorFacts, KidFacts, SweepFacts DEF ChildProcessed, Deliver, Goto
<1>22. ASSUME NEW k \in Children, PredecessorClosed(k) PROVE TerminalsOK'
  BY <1>22, ActorFacts, KidFacts, SweepFacts
  DEF PredecessorClosed, Deliver, Goto
<1>23. ASSUME NEW k \in Children, OutputReturns(k) PROVE TerminalsOK'
  BY <1>23, ActorFacts, KidFacts, SweepFacts DEF OutputReturns, Goto
<1>24. ASSUME NEW k \in Children, ChildInterrupted(k) PROVE TerminalsOK'
  BY <1>24, ActorFacts, KidFacts, SweepFacts DEF ChildInterrupted, Goto
<1>25. ASSUME NEW k \in Children, ChildEnds(k) PROVE TerminalsOK'
  BY <1>25, ActorFacts, KidFacts, SweepFacts DEF ChildEnds, Goto
<1>26. ASSUME NEW x \in Controllers, NEW op \in {"cancel", "closeIngress"},
               NEW c \in Channels, CancelQueued(x, op, c) PROVE TerminalsOK'
  BY <1>26, ActorFacts, KidFacts, SweepFacts
  DEF CancelQueued, BeginsCancel, Called, Goto
<1>27. ASSUME NEW x \in Controllers, NEW op \in {"cancel", "closeIngress"},
               NEW c \in Channels, CancelStarts(x, op, c) PROVE TerminalsOK'
  BY <1>27, ActorFacts, KidFacts, SweepFacts
  DEF CancelStarts, BeginsCancel, Called, CancelSelected, Goto, Call
<1>28. ASSUME NEW x \in Controllers, Select(x) PROVE TerminalsOK'
  BY <1>28, ActorFacts, KidFacts, SweepFacts
  DEF Select, CancelSelected, Goto, Call
<1>29. ASSUME NEW x \in Controllers, CancelReturns(x) PROVE TerminalsOK'
  BY <1>29, ActorFacts, KidFacts, SweepFacts DEF CancelReturns, Goto
<1>30. ASSUME NEW x \in Controllers, TasksEnded(x) PROVE TerminalsOK'
  BY <1>30, ActorFacts, KidFacts, SweepFacts DEF TasksEnded, Goto
<1>31. ASSUME NEW x \in Controllers, ControlSweeps(x) PROVE TerminalsOK'
  BY <1>31, ActorFacts, KidFacts, SweepFacts DEF ControlSweeps, SweepOne
<1>32. ASSUME NEW x \in Controllers, BeginClose(x) PROVE TerminalsOK'
  BY <1>32, ActorFacts, KidFacts, SweepFacts DEF BeginClose, Goto, Call, Called
<1>33. ASSUME NEW x \in Controllers, NEW c \in Channels, DrainLock(x, c)
       PROVE  TerminalsOK'
  <2>1. \A y \in Controllers \ {x} : call'[y] = call[y]
    BY <1>33, CallFacts
  <2>2. call'[x].selected = call[x].selected
    BY <1>33, CallFacts
  <2>. QED
    BY <1>33, <2>1, <2>2, ActorFacts, KidFacts, SweepFacts DEF DrainLock, Goto
<1>34. ASSUME NEW x \in Controllers, LockDrained(x) PROVE TerminalsOK'
  <2>1. \A y \in Controllers \ {x} : call'[y] = call[y]
    BY <1>34, CallFacts
  <2>2. call'[x].selected = call[x].selected
    BY <1>34, CallFacts
  <2>. QED
    BY <1>34, <2>1, <2>2, ActorFacts, KidFacts, SweepFacts DEF LockDrained, Goto
<1>35. ASSUME NEW x \in Controllers, CloseScope(x) PROVE TerminalsOK'
  BY <1>35, ActorFacts, KidFacts, SweepFacts DEF CloseScope, Goto
<1>36. ASSUME NEW x \in Controllers, ScopeClosed(x) PROVE TerminalsOK'
  <2>1. \A y \in Controllers \ {x} : call'[y] = call[y]
    BY <1>36, CallFacts
  <2>2. call'[x].selected = parents
    BY <1>36, CallFacts
  <2>. QED
    BY <1>36, <2>1, <2>2, ActorFacts, KidFacts, SweepFacts DEF ScopeClosed, Goto
<1>37. ASSUME NEW x \in Controllers, CloseReturns(x) PROVE TerminalsOK'
  BY <1>37, ActorFacts, KidFacts, SweepFacts DEF CloseReturns, Goto
<1>38. ASSUME NEW a \in Actors, TerminalReturns(a) PROVE TerminalsOK'
  BY <1>38, ActorFacts, KidFacts, SweepFacts DEF TerminalReturns, CloseParent
<1>39. ASSUME NEW a \in Actors, ClosedReturns(a) PROVE TerminalsOK'
  BY <1>39, ActorFacts, KidFacts, SweepFacts DEF ClosedReturns
<1>. QED
  BY <1>1, <1>2, <1>3, <1>4, <1>5, <1>6, <1>7, <1>8, <1>9, <1>10, <1>11, <1>12,
     <1>13, <1>14, <1>15, <1>16, <1>17, <1>18, <1>19, <1>20, <1>21, <1>22,
     <1>23, <1>24, <1>25, <1>26, <1>27, <1>28, <1>29, <1>30, <1>31, <1>32,
     <1>33, <1>34, <1>35, <1>36, <1>37, <1>38, <1>39
  DEF Next, Environment, AdapterReturns, SubmitStep, RunStep, ChildStep,
     ControlStep

\* A runner leaves its children only when they ended or were cancelled.
LEMMA RunnersStep ==
    ASSUME TypeOK, RolesOK, SubmittersOK, RunnersOK, KillsOK, [Next]_vars
    PROVE  RunnersOK'
<1>. USE DEF RunnersOK, Registered, Executing, KidRunning, KidLive, Interrupted,
   registry, admission, progress, tasks, control
<1>. pc \in [Actors -> PcValues]
  BY DEF TypeOK
<1>1. CASE UNCHANGED vars
  BY <1>1 DEF vars
<1>2. ASSUME NEW p \in Parents,
               \/ Withdraw(p) \/ RunnerSweeps(p)
     PROVE  RunnersOK'
  <2>1. UNCHANGED <<pc, parents, closedParents, kill, dropped>>
    BY <1>2 DEF Withdraw, RunnerSweeps, SweepOne
  <2>. QED
    BY <2>1
<1>3. ASSUME NEW x \in Controllers, NEW op \in {"cancel", "closeIngress"},
               NEW c \in Channels,
               CancelFindsNothing(x, op, c)
     PROVE  RunnersOK'
  <2>1. UNCHANGED <<pc, parents, closedParents, kill, dropped>>
    BY <1>3 DEF CancelFindsNothing, BeginsCancel
  <2>. QED
    BY <2>1
<1>4. ASSUME NEW x \in Controllers, NEW c \in Channels,
               OpenIngress(x, c)
     PROVE  RunnersOK'
  <2>1. UNCHANGED <<pc, parents, closedParents, kill, dropped>>
    BY <1>4 DEF OpenIngress
  <2>. QED
    BY <2>1
<1>5. ASSUME NEW x \in Controllers,
               ControlSweeps(x)
     PROVE  RunnersOK'
  <2>1. UNCHANGED <<pc, parents, closedParents, kill, dropped>>
    BY <1>5 DEF ControlSweeps, SweepOne
  <2>. QED
    BY <2>1
<1>6. ASSUME NEW a \in Actors,
               ClosedReturns(a)
     PROVE  RunnersOK'
  <2>1. UNCHANGED <<pc, parents, closedParents, kill, dropped>>
    BY <1>6 DEF ClosedReturns
  <2>. QED
    BY <2>1
<1>7. ASSUME NEW p \in Parents, Reject(p) PROVE RunnersOK'
  BY <1>7, ActorFacts, KidFacts DEF Reject, Goto
<1>8. ASSUME NEW p \in Parents, Register(p) PROVE RunnersOK'
  BY <1>8, ActorFacts, KidFacts DEF Register, Goto
<1>9. ASSUME NEW p \in Parents, LockAcquired(p) PROVE RunnersOK'
  BY <1>9, ActorFacts, KidFacts DEF LockAcquired, Goto
<1>10. ASSUME NEW p \in Parents, Admitted(p) PROVE RunnersOK'
  BY <1>10, ActorFacts, KidFacts DEF Admitted, Goto
<1>11. ASSUME NEW p \in Parents, NotAdmitted(p) PROVE RunnersOK'
  BY <1>11, ActorFacts, KidFacts DEF NotAdmitted, Goto
<1>12. ASSUME NEW p \in Parents, Withdrawn(p) PROVE RunnersOK'
  BY <1>12, ActorFacts, KidFacts DEF Withdrawn, Goto
<1>13. ASSUME NEW p \in Parents, ChildCreated(p) PROVE RunnersOK'
  <2>1. CASE /\ p \notin parents
             /\ Goto(Submitter(p), "return")
             /\ UNCHANGED <<creating, terminal>>
    BY <1>13, <2>1, ActorFacts, KidFacts DEF ChildCreated, Goto
  <2>2. CASE /\ p \in parents /\ MoreChildren(p)
             /\ creating' = [creating EXCEPT ![p] = @ + 1]
             /\ Goto(Submitter(p), "create")
             /\ UNCHANGED terminal
    BY <1>13, <2>2, ActorFacts, KidFacts DEF ChildCreated, Goto
  <2>3. CASE /\ p \in parents /\ CancellationRequested(p)
             /\ Goto(Submitter(p), "sweep")
             /\ StartSweep(Submitter(p), {p})
             /\ UNCHANGED creating
    BY <1>13, <2>3, ActorFacts, KidFacts DEF ChildCreated, Goto
  <2>4. CASE /\ p \in parents /\ ~ CancellationRequested(p)
             /\ StartRunner(p)
             /\ UNCHANGED creating
    <3>1. RunnerMoves(p) /\ pc'[Submitter(p)] = "return"
      BY <2>4, StartMoves
    <3>. QED
      BY <1>13, <2>4, <3>1, ActorFacts, KidFacts
      DEF ChildCreated, RunnerMoves, SubmittersOK
  <2>. QED
    BY <1>13, <2>1, <2>2, <2>3, <2>4 DEF ChildCreated, CreateNext
<1>14. ASSUME NEW p \in Parents, ChildCreationFails(p) PROVE RunnersOK'
  BY <1>14, ActorFacts, KidFacts DEF ChildCreationFails, Goto
<1>15. ASSUME NEW p \in Parents, SubmitterCancelled(p) PROVE RunnersOK'
  BY <1>15, ActorFacts, KidFacts DEF SubmitterCancelled, Goto
<1>16. ASSUME NEW p \in Parents, LoopContinues(p) PROVE RunnersOK'
  <2>1. RunnerMoves(p) /\ pc'[Submitter(p)] = pc[Submitter(p)]
    BY <1>16, LoopMoves DEF LoopContinues, TypeOK
  <2>. QED
    BY <1>16, <2>1, ActorFacts, KidFacts DEF LoopContinues, RunnerMoves
<1>17. ASSUME NEW p \in Parents, Gathered(p) PROVE RunnersOK'
  BY <1>17, ActorFacts, KidFacts DEF Gathered, Goto
<1>18. ASSUME NEW p \in Parents, RunnerCancelled(p) PROVE RunnersOK'
  BY <1>18, ActorFacts, KidFacts DEF RunnerCancelled, Unwind, Goto, KillsOK
<1>19. ASSUME NEW p \in Parents, RunnerEnds(p) PROVE RunnersOK'
  BY <1>19, ActorFacts, KidFacts DEF RunnerEnds, Goto
<1>20. ASSUME NEW k \in Children, ChildStarted(k) PROVE RunnersOK'
  BY <1>20, ActorFacts, KidFacts DEF ChildStarted, Goto
<1>21. ASSUME NEW k \in Children, ChildProcessed(k) PROVE RunnersOK'
  BY <1>21, ActorFacts, KidFacts DEF ChildProcessed, Deliver, Goto
<1>22. ASSUME NEW k \in Children, PredecessorClosed(k) PROVE RunnersOK'
  BY <1>22, ActorFacts, KidFacts DEF PredecessorClosed, Deliver, Goto
<1>23. ASSUME NEW k \in Children, OutputReturns(k) PROVE RunnersOK'
  BY <1>23, ActorFacts, KidFacts DEF OutputReturns, Goto
<1>24. ASSUME NEW k \in Children, ChildInterrupted(k) PROVE RunnersOK'
  BY <1>24, ActorFacts, KidFacts DEF ChildInterrupted, Goto
<1>25. ASSUME NEW k \in Children, ChildEnds(k) PROVE RunnersOK'
  BY <1>25, ActorFacts, KidFacts DEF ChildEnds, Goto
<1>26. ASSUME NEW k \in Children, ChildDropped(k) PROVE RunnersOK'
  BY <1>26, ActorFacts, KidFacts DEF ChildDropped
<1>27. ASSUME NEW x \in Controllers, NEW op \in {"cancel", "closeIngress"},
               NEW c \in Channels, CancelQueued(x, op, c) PROVE RunnersOK'
  BY <1>27, ActorFacts, KidFacts DEF CancelQueued, BeginsCancel, Called, Goto
<1>28. ASSUME NEW x \in Controllers, NEW op \in {"cancel", "closeIngress"},
               NEW c \in Channels, CancelStarts(x, op, c) PROVE RunnersOK'
  BY <1>28, ActorFacts, KidFacts
  DEF CancelStarts, BeginsCancel, Called, CancelSelected, Goto
<1>29. ASSUME NEW x \in Controllers, Select(x) PROVE RunnersOK'
  BY <1>29, ActorFacts, KidFacts DEF Select, CancelSelected, Goto
<1>30. ASSUME NEW x \in Controllers, CancelReturns(x) PROVE RunnersOK'
  BY <1>30, ActorFacts, KidFacts DEF CancelReturns, Goto
<1>31. ASSUME NEW x \in Controllers, TasksEnded(x) PROVE RunnersOK'
  BY <1>31, ActorFacts, KidFacts DEF TasksEnded, Goto
<1>32. ASSUME NEW x \in Controllers, BeginClose(x) PROVE RunnersOK'
  BY <1>32, ActorFacts, KidFacts DEF BeginClose, Goto
<1>33. ASSUME NEW x \in Controllers, NEW c \in Channels, DrainLock(x, c)
       PROVE  RunnersOK'
  BY <1>33, ActorFacts, KidFacts DEF DrainLock, Goto
<1>34. ASSUME NEW x \in Controllers, LockDrained(x) PROVE RunnersOK'
  BY <1>34, ActorFacts, KidFacts DEF LockDrained, Goto
<1>35. ASSUME NEW x \in Controllers, CloseScope(x) PROVE RunnersOK'
  BY <1>35, ActorFacts, KidFacts DEF CloseScope, Goto
<1>36. ASSUME NEW x \in Controllers, ScopeClosed(x) PROVE RunnersOK'
  BY <1>36, ActorFacts, KidFacts DEF ScopeClosed, Goto
<1>37. ASSUME NEW x \in Controllers, CloseReturns(x) PROVE RunnersOK'
  BY <1>37, ActorFacts, KidFacts DEF CloseReturns, Goto
<1>38. ASSUME NEW a \in Actors, TerminalReturns(a) PROVE RunnersOK'
  <2>1. Registered' = Registered /\ UNCHANGED <<pc, kill, dropped>>
    BY <1>38 DEF TerminalReturns, CloseParent, Registered, registry, tasks
  <2>. QED
    BY <2>1
<1>. QED
  BY <1>1, <1>2, <1>3, <1>4, <1>5, <1>6, <1>7, <1>8, <1>9, <1>10, <1>11, <1>12,
     <1>13, <1>14, <1>15, <1>16, <1>17, <1>18, <1>19, <1>20, <1>21, <1>22,
     <1>23, <1>24, <1>25, <1>26, <1>27, <1>28, <1>29, <1>30, <1>31, <1>32,
     <1>33, <1>34, <1>35, <1>36, <1>37, <1>38
  DEF Next, Environment, AdapterReturns, SubmitStep, RunStep, ChildStep,
     ControlStep

\* A cancellation that reaches one child of a parent reaches all that run.
LEMMA KillsStep ==
    ASSUME TypeOK, RolesOK, SubmittersOK, RunnersOK, KillsOK, [Next]_vars
    PROVE  KillsOK'
<1>. USE DEF KillsOK, KidRunning, KidLive, registry, admission, progress, tasks,
   control
<1>. pc \in [Actors -> PcValues]
  BY DEF TypeOK
<1>. parents \in SUBSET Parents /\ \A c : Selected(c) \in SUBSET Parents
  BY DEF TypeOK, Selected
<1>1. CASE UNCHANGED vars
  BY <1>1 DEF vars
<1>2. ASSUME NEW p \in Parents,
               \/ Withdraw(p) \/ RunnerSweeps(p)
     PROVE  KillsOK'
  <2>1. UNCHANGED <<pc, kill>>
    BY <1>2 DEF Withdraw, RunnerSweeps, SweepOne
  <2>. QED
    BY <2>1
<1>3. ASSUME NEW k \in Children,
               ChildDropped(k)
     PROVE  KillsOK'
  <2>1. UNCHANGED <<pc, kill>>
    BY <1>3 DEF ChildDropped
  <2>. QED
    BY <2>1
<1>4. ASSUME NEW x \in Controllers, NEW op \in {"cancel", "closeIngress"},
               NEW c \in Channels,
               CancelFindsNothing(x, op, c)
     PROVE  KillsOK'
  <2>1. UNCHANGED <<pc, kill>>
    BY <1>4 DEF CancelFindsNothing, BeginsCancel
  <2>. QED
    BY <2>1
<1>5. ASSUME NEW x \in Controllers, NEW c \in Channels,
               OpenIngress(x, c)
     PROVE  KillsOK'
  <2>1. UNCHANGED <<pc, kill>>
    BY <1>5 DEF OpenIngress
  <2>. QED
    BY <2>1
<1>6. ASSUME NEW x \in Controllers,
               ControlSweeps(x)
     PROVE  KillsOK'
  <2>1. UNCHANGED <<pc, kill>>
    BY <1>6 DEF ControlSweeps, SweepOne
  <2>. QED
    BY <2>1
<1>7. ASSUME NEW a \in Actors,
               \/ TerminalReturns(a) \/ ClosedReturns(a)
     PROVE  KillsOK'
  <2>1. UNCHANGED <<pc, kill>>
    BY <1>7 DEF TerminalReturns, ClosedReturns
  <2>. QED
    BY <2>1
<1>8. ASSUME NEW p \in Parents, Reject(p) PROVE KillsOK'
  BY <1>8, ActorFacts, KidFacts, KilledFacts DEF Reject, Goto
<1>9. ASSUME NEW p \in Parents, Register(p) PROVE KillsOK'
  BY <1>9, ActorFacts, KidFacts, KilledFacts DEF Register, Goto
<1>10. ASSUME NEW p \in Parents, LockAcquired(p) PROVE KillsOK'
  BY <1>10, ActorFacts, KidFacts, KilledFacts DEF LockAcquired, Goto
<1>11. ASSUME NEW p \in Parents, Admitted(p) PROVE KillsOK'
  BY <1>11, ActorFacts, KidFacts, KilledFacts DEF Admitted, Goto
<1>12. ASSUME NEW p \in Parents, NotAdmitted(p) PROVE KillsOK'
  BY <1>12, ActorFacts, KidFacts, KilledFacts DEF NotAdmitted, Goto
<1>13. ASSUME NEW p \in Parents, Withdrawn(p) PROVE KillsOK'
  BY <1>13, ActorFacts, KidFacts, KilledFacts DEF Withdrawn, Goto
<1>14. ASSUME NEW p \in Parents, ChildCreated(p) PROVE KillsOK'
  <2>1. CASE /\ p \notin parents
             /\ Goto(Submitter(p), "return")
             /\ UNCHANGED <<creating, terminal>>
    BY <1>14, <2>1, ActorFacts, KidFacts, KilledFacts DEF ChildCreated, Goto
  <2>2. CASE /\ p \in parents /\ MoreChildren(p)
             /\ creating' = [creating EXCEPT ![p] = @ + 1]
             /\ Goto(Submitter(p), "create")
             /\ UNCHANGED terminal
    BY <1>14, <2>2, ActorFacts, KidFacts, KilledFacts DEF ChildCreated, Goto
  <2>3. CASE /\ p \in parents /\ CancellationRequested(p)
             /\ Goto(Submitter(p), "sweep")
             /\ StartSweep(Submitter(p), {p})
             /\ UNCHANGED creating
    BY <1>14, <2>3, ActorFacts, KidFacts, KilledFacts DEF ChildCreated, Goto
  <2>4. CASE /\ p \in parents /\ ~ CancellationRequested(p)
             /\ StartRunner(p)
             /\ UNCHANGED creating
    <3>1. RunnerMoves(p) /\ pc'[Submitter(p)] = "return"
      BY <2>4, StartMoves
    <3>. QED
      BY <1>14, <2>4, <3>1, ActorFacts, KidFacts, KilledFacts
      DEF ChildCreated, RunnerMoves, SubmittersOK, RunnersOK
  <2>. QED
    BY <1>14, <2>1, <2>2, <2>3, <2>4 DEF ChildCreated, CreateNext
<1>15. ASSUME NEW p \in Parents, ChildCreationFails(p) PROVE KillsOK'
  BY <1>15, ActorFacts, KidFacts, KilledFacts DEF ChildCreationFails, Goto
<1>16. ASSUME NEW p \in Parents, SubmitterCancelled(p) PROVE KillsOK'
  BY <1>16, ActorFacts, KidFacts, KilledFacts DEF SubmitterCancelled, Goto
<1>17. ASSUME NEW p \in Parents, LoopContinues(p) PROVE KillsOK'
  <2>1. RunnerMoves(p) /\ pc'[Submitter(p)] = pc[Submitter(p)]
    BY <1>17, LoopMoves DEF LoopContinues, TypeOK
  <2>. QED
    BY <1>17, <2>1, ActorFacts, KidFacts
    DEF LoopContinues, RunnerMoves, RunnersOK
<1>18. ASSUME NEW p \in Parents, Gathered(p) PROVE KillsOK'
  BY <1>18, ActorFacts, KidFacts, KilledFacts DEF Gathered, Goto
<1>19. ASSUME NEW p \in Parents, RunnerCancelled(p) PROVE KillsOK'
  BY <1>19, ActorFacts, KidFacts, KilledFacts
  DEF RunnerCancelled, Unwind, Goto, KillsOK
<1>20. ASSUME NEW p \in Parents, RunnerEnds(p) PROVE KillsOK'
  BY <1>20, ActorFacts, KidFacts, KilledFacts DEF RunnerEnds, Goto
<1>21. ASSUME NEW k \in Children, ChildStarted(k) PROVE KillsOK'
  BY <1>21, ActorFacts, KidFacts, KilledFacts DEF ChildStarted, Goto
<1>22. ASSUME NEW k \in Children, ChildProcessed(k) PROVE KillsOK'
  BY <1>22, ActorFacts, KidFacts, KilledFacts DEF ChildProcessed, Deliver, Goto
<1>23. ASSUME NEW k \in Children, PredecessorClosed(k) PROVE KillsOK'
  BY <1>23, ActorFacts, KidFacts, KilledFacts
  DEF PredecessorClosed, Deliver, Goto
<1>24. ASSUME NEW k \in Children, OutputReturns(k) PROVE KillsOK'
  BY <1>24, ActorFacts, KidFacts, KilledFacts DEF OutputReturns, Goto
<1>25. ASSUME NEW k \in Children, ChildInterrupted(k) PROVE KillsOK'
  BY <1>25, ActorFacts, KidFacts, KilledFacts DEF ChildInterrupted, Goto
<1>26. ASSUME NEW k \in Children, ChildEnds(k) PROVE KillsOK'
  BY <1>26, ActorFacts, KidFacts, KilledFacts DEF ChildEnds, Goto
<1>27. ASSUME NEW x \in Controllers, NEW op \in {"cancel", "closeIngress"},
               NEW c \in Channels, CancelQueued(x, op, c) PROVE KillsOK'
  BY <1>27, ActorFacts, KidFacts, KilledFacts
  DEF CancelQueued, BeginsCancel, Called, Goto
<1>28. ASSUME NEW x \in Controllers, NEW op \in {"cancel", "closeIngress"},
               NEW c \in Channels, CancelStarts(x, op, c) PROVE KillsOK'
  BY <1>28, ActorFacts, KidFacts, KilledFacts
  DEF CancelStarts, BeginsCancel, Called, CancelSelected, Goto, RunnerLive
<1>29. ASSUME NEW x \in Controllers, Select(x) PROVE KillsOK'
  BY <1>29, ActorFacts, KidFacts, KilledFacts
  DEF Select, CancelSelected, Goto, RunnerLive
<1>30. ASSUME NEW x \in Controllers, CancelReturns(x) PROVE KillsOK'
  BY <1>30, ActorFacts, KidFacts, KilledFacts DEF CancelReturns, Goto
<1>31. ASSUME NEW x \in Controllers, TasksEnded(x) PROVE KillsOK'
  BY <1>31, ActorFacts, KidFacts, KilledFacts DEF TasksEnded, Goto
<1>32. ASSUME NEW x \in Controllers, BeginClose(x) PROVE KillsOK'
  BY <1>32, ActorFacts, KidFacts, KilledFacts
  DEF BeginClose, Goto, RunnerLive, Called
<1>33. ASSUME NEW x \in Controllers, NEW c \in Channels, DrainLock(x, c)
       PROVE  KillsOK'
  BY <1>33, ActorFacts, KidFacts, KilledFacts DEF DrainLock, Goto
<1>34. ASSUME NEW x \in Controllers, LockDrained(x) PROVE KillsOK'
  BY <1>34, ActorFacts, KidFacts, KilledFacts DEF LockDrained, Goto
<1>35. ASSUME NEW x \in Controllers, CloseScope(x) PROVE KillsOK'
  BY <1>35, ActorFacts, KidFacts, KilledFacts
  DEF CloseScope, Goto, RunnerLive, RunnersOK, RolesOK
<1>36. ASSUME NEW x \in Controllers, ScopeClosed(x) PROVE KillsOK'
  BY <1>36, ActorFacts, KidFacts, KilledFacts DEF ScopeClosed, Goto
<1>37. ASSUME NEW x \in Controllers, CloseReturns(x) PROVE KillsOK'
  BY <1>37, ActorFacts, KidFacts, KilledFacts DEF CloseReturns, Goto
<1>. QED
  BY <1>1, <1>2, <1>3, <1>4, <1>5, <1>6, <1>7, <1>8, <1>9, <1>10, <1>11, <1>12,
     <1>13, <1>14, <1>15, <1>16, <1>17, <1>18, <1>19, <1>20, <1>21, <1>22,
     <1>23, <1>24, <1>25, <1>26, <1>27, <1>28, <1>29, <1>30, <1>31, <1>32,
     <1>33, <1>34, <1>35, <1>36, <1>37
  DEF Next, Environment, AdapterReturns, SubmitStep, RunStep, ChildStep,
     ControlStep

\* A child task ends only after its terminal callback.
LEMMA EndedStep ==
    ASSUME TypeOK, RolesOK, SubmittersOK, RunnersOK, TerminalsOK,
           ClosedExactlyWhenComplete, EndedOK, [Next]_vars
    PROVE  EndedOK'
<1>. USE DEF EndedOK, Terminalize, Free, Unfinished, registry, admission,
   progress, tasks, control
<1>. pc \in [Actors -> PcValues]
  BY DEF TypeOK
<1>. terminal \in [Actors -> Children \cup {None}]
  BY DEF TypeOK
<1>. \A k \in Children : pc[Kid(k)] # "idle" /\ k[1] \notin parents => k \in completed
  BY KidFacts DEF RunnersOK, ClosedExactlyWhenComplete, Registered
<1>1. CASE UNCHANGED vars
  BY <1>1 DEF vars
<1>2. ASSUME NEW k \in Children,
               ChildDropped(k)
     PROVE  EndedOK'
  <2>1. UNCHANGED <<pc, terminal, completed>>
    BY <1>2 DEF ChildDropped
  <2>. QED
    BY <2>1
<1>3. ASSUME NEW x \in Controllers, NEW op \in {"cancel", "closeIngress"},
               NEW c \in Channels,
               CancelFindsNothing(x, op, c)
     PROVE  EndedOK'
  <2>1. UNCHANGED <<pc, terminal, completed>>
    BY <1>3 DEF CancelFindsNothing, BeginsCancel
  <2>. QED
    BY <2>1
<1>4. ASSUME NEW x \in Controllers, NEW c \in Channels,
               OpenIngress(x, c)
     PROVE  EndedOK'
  <2>1. UNCHANGED <<pc, terminal, completed>>
    BY <1>4 DEF OpenIngress
  <2>. QED
    BY <2>1
<1>5. ASSUME NEW a \in Actors,
               ClosedReturns(a)
     PROVE  EndedOK'
  <2>1. UNCHANGED <<pc, terminal, completed>>
    BY <1>5 DEF ClosedReturns
  <2>. QED
    BY <2>1
<1>6. ASSUME NEW p \in Parents, Reject(p) PROVE EndedOK'
  BY <1>6, ActorFacts, KidFacts, SweepFacts DEF Reject, Goto
<1>7. ASSUME NEW p \in Parents, Register(p) PROVE EndedOK'
  BY <1>7, ActorFacts, KidFacts, SweepFacts DEF Register, Goto
<1>8. ASSUME NEW p \in Parents, LockAcquired(p) PROVE EndedOK'
  BY <1>8, ActorFacts, KidFacts, SweepFacts DEF LockAcquired, Goto
<1>9. ASSUME NEW p \in Parents, Admitted(p) PROVE EndedOK'
  BY <1>9, ActorFacts, KidFacts, SweepFacts DEF Admitted, Goto
<1>10. ASSUME NEW p \in Parents, NotAdmitted(p) PROVE EndedOK'
  BY <1>10, ActorFacts, KidFacts, SweepFacts DEF NotAdmitted, Goto
<1>11. ASSUME NEW p \in Parents, Withdraw(p) PROVE EndedOK'
  BY <1>11, ActorFacts, KidFacts, SweepFacts DEF Withdraw, SweepOne
<1>12. ASSUME NEW p \in Parents, Withdrawn(p) PROVE EndedOK'
  BY <1>12, ActorFacts, KidFacts, SweepFacts DEF Withdrawn, Goto
<1>13. ASSUME NEW p \in Parents, ChildCreated(p) PROVE EndedOK'
  <2>1. CASE /\ p \notin parents
             /\ Goto(Submitter(p), "return")
             /\ UNCHANGED <<creating, terminal>>
    BY <1>13, <2>1, ActorFacts, KidFacts, SweepFacts DEF ChildCreated, Goto
  <2>2. CASE /\ p \in parents /\ MoreChildren(p)
             /\ creating' = [creating EXCEPT ![p] = @ + 1]
             /\ Goto(Submitter(p), "create")
             /\ UNCHANGED terminal
    BY <1>13, <2>2, ActorFacts, KidFacts, SweepFacts DEF ChildCreated, Goto
  <2>3. CASE /\ p \in parents /\ CancellationRequested(p)
             /\ Goto(Submitter(p), "sweep")
             /\ StartSweep(Submitter(p), {p})
             /\ UNCHANGED creating
    BY <1>13, <2>3, ActorFacts, KidFacts, SweepFacts DEF ChildCreated, Goto
  <2>4. CASE /\ p \in parents /\ ~ CancellationRequested(p)
             /\ StartRunner(p)
             /\ UNCHANGED creating
    <3>1. RunnerMoves(p) /\ pc'[Submitter(p)] = "return"
      BY <2>4, StartMoves
    <3>. QED
      BY <1>13, <2>4, <3>1, ActorFacts, KidFacts, SweepFacts
      DEF ChildCreated, RunnerMoves, SubmittersOK, RunnersOK
  <2>. QED
    BY <1>13, <2>1, <2>2, <2>3, <2>4 DEF ChildCreated, CreateNext
<1>14. ASSUME NEW p \in Parents, ChildCreationFails(p) PROVE EndedOK'
  BY <1>14, ActorFacts, KidFacts, SweepFacts DEF ChildCreationFails, Goto
<1>15. ASSUME NEW p \in Parents, SubmitterCancelled(p) PROVE EndedOK'
  BY <1>15, ActorFacts, KidFacts, SweepFacts DEF SubmitterCancelled, Goto
<1>16. ASSUME NEW p \in Parents, LoopContinues(p) PROVE EndedOK'
  <2>1. RunnerMoves(p) /\ pc'[Submitter(p)] = pc[Submitter(p)]
    BY <1>16, LoopMoves DEF LoopContinues, TypeOK
  <2>. QED
    BY <1>16, <2>1, ActorFacts, KidFacts
    DEF LoopContinues, RunnerMoves, RunnersOK, KidLive
<1>17. ASSUME NEW p \in Parents, Gathered(p) PROVE EndedOK'
  BY <1>17, ActorFacts, KidFacts, SweepFacts DEF Gathered, Goto
<1>18. ASSUME NEW p \in Parents, RunnerCancelled(p) PROVE EndedOK'
  BY <1>18, ActorFacts, KidFacts, SweepFacts DEF RunnerCancelled, Unwind, Goto
<1>19. ASSUME NEW p \in Parents, RunnerSweeps(p) PROVE EndedOK'
  BY <1>19, ActorFacts, KidFacts, SweepFacts DEF RunnerSweeps, SweepOne
<1>20. ASSUME NEW p \in Parents, RunnerEnds(p) PROVE EndedOK'
  BY <1>20, ActorFacts, KidFacts, SweepFacts DEF RunnerEnds, Goto
<1>21. ASSUME NEW k \in Children, ChildStarted(k) PROVE EndedOK'
  BY <1>21, ActorFacts, KidFacts, SweepFacts DEF ChildStarted, Goto
<1>22. ASSUME NEW k \in Children, ChildProcessed(k) PROVE EndedOK'
  BY <1>22, ActorFacts, KidFacts, SweepFacts DEF ChildProcessed, Deliver, Goto
<1>23. ASSUME NEW k \in Children, PredecessorClosed(k) PROVE EndedOK'
  BY <1>23, ActorFacts, KidFacts, SweepFacts
  DEF PredecessorClosed, Deliver, Goto
<1>24. ASSUME NEW k \in Children, OutputReturns(k) PROVE EndedOK'
  BY <1>24, ActorFacts, KidFacts, SweepFacts DEF OutputReturns, Goto
<1>25. ASSUME NEW k \in Children, ChildInterrupted(k) PROVE EndedOK'
  BY <1>25, ActorFacts, KidFacts, SweepFacts
  DEF ChildInterrupted, Goto, KidRunning
<1>26. ASSUME NEW k \in Children, ChildEnds(k) PROVE EndedOK'
  BY <1>26, ActorFacts, KidFacts, SweepFacts DEF ChildEnds, Goto
<1>27. ASSUME NEW x \in Controllers, NEW op \in {"cancel", "closeIngress"},
               NEW c \in Channels, CancelQueued(x, op, c) PROVE EndedOK'
  BY <1>27, ActorFacts, KidFacts, SweepFacts
  DEF CancelQueued, BeginsCancel, Called, Goto
<1>28. ASSUME NEW x \in Controllers, NEW op \in {"cancel", "closeIngress"},
               NEW c \in Channels, CancelStarts(x, op, c) PROVE EndedOK'
  BY <1>28, ActorFacts, KidFacts, SweepFacts
  DEF CancelStarts, BeginsCancel, Called, CancelSelected, Goto
<1>29. ASSUME NEW x \in Controllers, Select(x) PROVE EndedOK'
  BY <1>29, ActorFacts, KidFacts, SweepFacts DEF Select, CancelSelected, Goto
<1>30. ASSUME NEW x \in Controllers, CancelReturns(x) PROVE EndedOK'
  BY <1>30, ActorFacts, KidFacts, SweepFacts DEF CancelReturns, Goto
<1>31. ASSUME NEW x \in Controllers, TasksEnded(x) PROVE EndedOK'
  BY <1>31, ActorFacts, KidFacts, SweepFacts DEF TasksEnded, Goto
<1>32. ASSUME NEW x \in Controllers, ControlSweeps(x) PROVE EndedOK'
  BY <1>32, ActorFacts, KidFacts, SweepFacts DEF ControlSweeps, SweepOne
<1>33. ASSUME NEW x \in Controllers, BeginClose(x) PROVE EndedOK'
  BY <1>33, ActorFacts, KidFacts, SweepFacts DEF BeginClose, Goto
<1>34. ASSUME NEW x \in Controllers, NEW c \in Channels, DrainLock(x, c)
       PROVE  EndedOK'
  BY <1>34, ActorFacts, KidFacts, SweepFacts DEF DrainLock, Goto
<1>35. ASSUME NEW x \in Controllers, LockDrained(x) PROVE EndedOK'
  BY <1>35, ActorFacts, KidFacts, SweepFacts DEF LockDrained, Goto
<1>36. ASSUME NEW x \in Controllers, CloseScope(x) PROVE EndedOK'
  BY <1>36, ActorFacts, KidFacts, SweepFacts DEF CloseScope, Goto
<1>37. ASSUME NEW x \in Controllers, ScopeClosed(x) PROVE EndedOK'
  BY <1>37, ActorFacts, KidFacts, SweepFacts DEF ScopeClosed, Goto
<1>38. ASSUME NEW x \in Controllers, CloseReturns(x) PROVE EndedOK'
  BY <1>38, ActorFacts, KidFacts, SweepFacts DEF CloseReturns, Goto
<1>39. ASSUME NEW a \in Actors, TerminalReturns(a) PROVE EndedOK'
  BY <1>39, ActorFacts, KidFacts, SweepFacts
  DEF TerminalReturns, TerminalsOK, CloseParent
<1>. QED
  BY <1>1, <1>2, <1>3, <1>4, <1>5, <1>6, <1>7, <1>8, <1>9, <1>10, <1>11, <1>12,
     <1>13, <1>14, <1>15, <1>16, <1>17, <1>18, <1>19, <1>20, <1>21, <1>22,
     <1>23, <1>24, <1>25, <1>26, <1>27, <1>28, <1>29, <1>30, <1>31, <1>32,
     <1>33, <1>34, <1>35, <1>36, <1>37, <1>38, <1>39
  DEF Next, Environment, AdapterReturns, SubmitStep, RunStep, ChildStep,
     ControlStep

\* No child is completed and no parent closed under a child that executes.
LEMMA LateStep ==
    ASSUME TypeOK, ClosedExactlyWhenComplete, RolesOK, SubmittersOK, TerminalsOK,
           RunnersOK, LateChildrenAreInterrupted, SelectionsOK, [Next]_vars
    PROVE  LateChildrenAreInterrupted'
<1>. USE DEF LateChildrenAreInterrupted, Executing, KidRunning, KidLive,
   Interrupted, registry, admission, progress, tasks, control
<1>. pc \in [Actors -> PcValues]
  BY DEF TypeOK
<1>. terminal \in [Actors -> Children \cup {None}]
  BY DEF TypeOK
<1>1. CASE UNCHANGED vars
  BY <1>1 DEF vars
<1>2. ASSUME NEW p \in Parents,
               \/ Withdraw(p) \/ RunnerSweeps(p)
     PROVE  LateChildrenAreInterrupted'
  <2>1. UNCHANGED <<pc, kill, dropped, parents, completed>>
    BY <1>2 DEF Withdraw, RunnerSweeps, SweepOne
  <2>. QED
    BY <2>1
<1>3. ASSUME NEW x \in Controllers, NEW op \in {"cancel", "closeIngress"},
               NEW c \in Channels,
               CancelFindsNothing(x, op, c)
     PROVE  LateChildrenAreInterrupted'
  <2>1. UNCHANGED <<pc, kill, dropped, parents, completed>>
    BY <1>3 DEF CancelFindsNothing, BeginsCancel
  <2>. QED
    BY <2>1
<1>4. ASSUME NEW x \in Controllers, NEW c \in Channels,
               OpenIngress(x, c)
     PROVE  LateChildrenAreInterrupted'
  <2>1. UNCHANGED <<pc, kill, dropped, parents, completed>>
    BY <1>4 DEF OpenIngress
  <2>. QED
    BY <2>1
<1>5. ASSUME NEW x \in Controllers,
               ControlSweeps(x)
     PROVE  LateChildrenAreInterrupted'
  <2>1. UNCHANGED <<pc, kill, dropped, parents, completed>>
    BY <1>5 DEF ControlSweeps, SweepOne
  <2>. QED
    BY <2>1
<1>6. ASSUME NEW a \in Actors,
               ClosedReturns(a)
     PROVE  LateChildrenAreInterrupted'
  <2>1. UNCHANGED <<pc, kill, dropped, parents, completed>>
    BY <1>6 DEF ClosedReturns
  <2>. QED
    BY <2>1
<1>7. ASSUME NEW p \in Parents, Reject(p) PROVE LateChildrenAreInterrupted'
  BY <1>7, ActorFacts, KidFacts DEF Reject, Goto
<1>8. ASSUME NEW p \in Parents, Register(p) PROVE LateChildrenAreInterrupted'
  BY <1>8, ActorFacts, KidFacts DEF Register, Goto
<1>9. ASSUME NEW p \in Parents, LockAcquired(p)
      PROVE  LateChildrenAreInterrupted'
  BY <1>9, ActorFacts, KidFacts DEF LockAcquired, Goto
<1>10. ASSUME NEW p \in Parents, Admitted(p) PROVE LateChildrenAreInterrupted'
  BY <1>10, ActorFacts, KidFacts DEF Admitted, Goto
<1>11. ASSUME NEW p \in Parents, NotAdmitted(p)
       PROVE  LateChildrenAreInterrupted'
  BY <1>11, ActorFacts, KidFacts DEF NotAdmitted, Goto
<1>12. ASSUME NEW p \in Parents, Withdrawn(p) PROVE LateChildrenAreInterrupted'
  BY <1>12, ActorFacts, KidFacts DEF Withdrawn, Goto
<1>13. ASSUME NEW p \in Parents, ChildCreated(p)
       PROVE  LateChildrenAreInterrupted'
  <2>1. CASE /\ p \notin parents
             /\ Goto(Submitter(p), "return")
             /\ UNCHANGED <<creating, terminal>>
    BY <1>13, <2>1, ActorFacts, KidFacts DEF ChildCreated, Goto
  <2>2. CASE /\ p \in parents /\ MoreChildren(p)
             /\ creating' = [creating EXCEPT ![p] = @ + 1]
             /\ Goto(Submitter(p), "create")
             /\ UNCHANGED terminal
    BY <1>13, <2>2, ActorFacts, KidFacts DEF ChildCreated, Goto
  <2>3. CASE /\ p \in parents /\ CancellationRequested(p)
             /\ Goto(Submitter(p), "sweep")
             /\ StartSweep(Submitter(p), {p})
             /\ UNCHANGED creating
    BY <1>13, <2>3, ActorFacts, KidFacts DEF ChildCreated, Goto
  <2>4. CASE /\ p \in parents /\ ~ CancellationRequested(p)
             /\ StartRunner(p)
             /\ UNCHANGED creating
    <3>1. RunnerMoves(p) /\ pc'[Submitter(p)] = "return"
      BY <2>4, StartMoves
    <3>. QED
      BY <1>13, <2>4, <3>1, ActorFacts, KidFacts DEF ChildCreated, RunnerMoves
  <2>. QED
    BY <1>13, <2>1, <2>2, <2>3, <2>4 DEF ChildCreated, CreateNext
<1>14. ASSUME NEW p \in Parents, ChildCreationFails(p)
       PROVE  LateChildrenAreInterrupted'
  BY <1>14, ActorFacts, KidFacts DEF ChildCreationFails, Goto
<1>15. ASSUME NEW p \in Parents, SubmitterCancelled(p)
       PROVE  LateChildrenAreInterrupted'
  BY <1>15, ActorFacts, KidFacts DEF SubmitterCancelled, Goto
<1>16. ASSUME NEW p \in Parents, LoopContinues(p)
       PROVE  LateChildrenAreInterrupted'
  <2>1. RunnerMoves(p) /\ pc'[Submitter(p)] = pc[Submitter(p)]
    BY <1>16, LoopMoves DEF LoopContinues, TypeOK
  <2>. QED
    BY <1>16, <2>1, ActorFacts, KidFacts
    DEF LoopContinues, RunnerMoves, RunnersOK, ClosedExactlyWhenComplete,
        Registered
<1>17. ASSUME NEW p \in Parents, Gathered(p) PROVE LateChildrenAreInterrupted'
  BY <1>17, ActorFacts, KidFacts DEF Gathered, Goto
<1>18. ASSUME NEW p \in Parents, RunnerCancelled(p)
       PROVE  LateChildrenAreInterrupted'
  BY <1>18, ActorFacts, KidFacts DEF RunnerCancelled, Unwind, Goto
<1>19. ASSUME NEW p \in Parents, RunnerEnds(p) PROVE LateChildrenAreInterrupted'
  BY <1>19, ActorFacts, KidFacts DEF RunnerEnds, Goto
<1>20. ASSUME NEW k \in Children, ChildStarted(k)
       PROVE  LateChildrenAreInterrupted'
  BY <1>20, ActorFacts, KidFacts DEF ChildStarted, Goto
<1>21. ASSUME NEW k \in Children, ChildProcessed(k)
       PROVE  LateChildrenAreInterrupted'
  BY <1>21, ActorFacts, KidFacts DEF ChildProcessed, Deliver, Goto
<1>22. ASSUME NEW k \in Children, PredecessorClosed(k)
       PROVE  LateChildrenAreInterrupted'
  BY <1>22, ActorFacts, KidFacts DEF PredecessorClosed, Deliver, Goto
<1>23. ASSUME NEW k \in Children, OutputReturns(k)
       PROVE  LateChildrenAreInterrupted'
  BY <1>23, ActorFacts, KidFacts DEF OutputReturns, Goto
<1>24. ASSUME NEW k \in Children, ChildInterrupted(k)
       PROVE  LateChildrenAreInterrupted'
  BY <1>24, ActorFacts, KidFacts DEF ChildInterrupted, Goto
<1>25. ASSUME NEW k \in Children, ChildEnds(k) PROVE LateChildrenAreInterrupted'
  BY <1>25, ActorFacts, KidFacts DEF ChildEnds, Goto
<1>26. ASSUME NEW k \in Children, ChildDropped(k)
       PROVE  LateChildrenAreInterrupted'
  BY <1>26, ActorFacts, KidFacts DEF ChildDropped
<1>27. ASSUME NEW x \in Controllers, NEW op \in {"cancel", "closeIngress"},
               NEW c \in Channels, CancelQueued(x, op, c)
     PROVE  LateChildrenAreInterrupted'
  BY <1>27, ActorFacts, KidFacts DEF CancelQueued, BeginsCancel, Called, Goto
<1>28. ASSUME NEW x \in Controllers, NEW op \in {"cancel", "closeIngress"},
               NEW c \in Channels, CancelStarts(x, op, c)
     PROVE  LateChildrenAreInterrupted'
  BY <1>28, ActorFacts, KidFacts
  DEF CancelStarts, BeginsCancel, Called, CancelSelected, Goto
<1>29. ASSUME NEW x \in Controllers, Select(x) PROVE LateChildrenAreInterrupted'
  BY <1>29, ActorFacts, KidFacts DEF Select, CancelSelected, Goto
<1>30. ASSUME NEW x \in Controllers, CancelReturns(x)
       PROVE  LateChildrenAreInterrupted'
  BY <1>30, ActorFacts, KidFacts DEF CancelReturns, Goto
<1>31. ASSUME NEW x \in Controllers, TasksEnded(x)
       PROVE  LateChildrenAreInterrupted'
  BY <1>31, ActorFacts, KidFacts DEF TasksEnded, Goto
<1>32. ASSUME NEW x \in Controllers, BeginClose(x)
       PROVE  LateChildrenAreInterrupted'
  BY <1>32, ActorFacts, KidFacts DEF BeginClose, Goto, Called
<1>33. ASSUME NEW x \in Controllers, NEW c \in Channels, DrainLock(x, c)
       PROVE  LateChildrenAreInterrupted'
  BY <1>33, ActorFacts, KidFacts DEF DrainLock, Goto
<1>34. ASSUME NEW x \in Controllers, LockDrained(x)
       PROVE  LateChildrenAreInterrupted'
  BY <1>34, ActorFacts, KidFacts DEF LockDrained, Goto
<1>35. ASSUME NEW x \in Controllers, CloseScope(x)
       PROVE  LateChildrenAreInterrupted'
  BY <1>35, ActorFacts, KidFacts DEF CloseScope, Goto
<1>36. ASSUME NEW x \in Controllers, ScopeClosed(x)
       PROVE  LateChildrenAreInterrupted'
  BY <1>36, ActorFacts, KidFacts DEF ScopeClosed, Goto
<1>37. ASSUME NEW x \in Controllers, CloseReturns(x)
       PROVE  LateChildrenAreInterrupted'
  BY <1>37, ActorFacts, KidFacts DEF CloseReturns, Goto
<1>38. ASSUME NEW a \in Actors, TerminalReturns(a)
       PROVE  LateChildrenAreInterrupted'
  <2>. DEFINE j == terminal[a]
  <2>1. j \in Children /\ completed' = completed \cup {j}
    BY <1>38 DEF TerminalReturns
  <2>2. ~ Executing(j)
    <3>1. ASSUME NEW p \in Parents, a = Submitter(p) PROVE ~ Executing(j)
      BY <1>38, <3>1, KidFacts
      DEF TerminalReturns, TerminalsOK, SubmittersOK, RunnersOK
    <3>2. ASSUME NEW p \in Parents, a = Runner(p) PROVE ~ Executing(j)
      BY <1>38, <3>2, KidFacts DEF TerminalReturns, TerminalsOK, RunnersOK
    <3>3. ASSUME NEW k \in Children, a = Kid(k) PROVE ~ Executing(j)
      BY <1>38, <3>3 DEF TerminalReturns, TerminalsOK
    <3>4. ASSUME NEW x \in Controllers, a = Control(x) PROVE ~ Executing(j)
      BY <1>38, <2>1, <3>4, KidFacts
      DEF TerminalReturns, TerminalsOK, SelectionsOK
    <3>. QED
      BY <3>1, <3>2, <3>3, <3>4 DEF Actors
  <2>3. UNCHANGED <<pc, kill, dropped>>
    BY <1>38 DEF TerminalReturns, tasks
  <2>4. CASE UNCHANGED parents
    BY <2>1, <2>2, <2>3, <2>4
  <2>5. CASE parents' = parents \ {j[1]} /\ KidsOf(j[1]) \subseteq completed'
    BY <2>1, <2>2, <2>3, <2>5, KidFacts
  <2>. QED
    BY <1>38, <2>4, <2>5 DEF TerminalReturns, CloseParent, LastChild, registry
<1>. QED
  BY <1>1, <1>2, <1>3, <1>4, <1>5, <1>6, <1>7, <1>8, <1>9, <1>10, <1>11, <1>12,
     <1>13, <1>14, <1>15, <1>16, <1>17, <1>18, <1>19, <1>20, <1>21, <1>22,
     <1>23, <1>24, <1>25, <1>26, <1>27, <1>28, <1>29, <1>30, <1>31, <1>32,
     <1>33, <1>34, <1>35, <1>36, <1>37, <1>38
  DEF Next, Environment, AdapterReturns, SubmitStep, RunStep, ChildStep,
     ControlStep

\* A parent that an operation waits for starts nothing new.
LEMMA SelectionsStep ==
    ASSUME TypeOK, ClosedExactlyWhenComplete, RolesOK, RunnersOK, SelectionsOK, [Next]_vars
    PROVE  SelectionsOK'
<1>. USE DEF SelectionsOK, Registered, ExecutingMoves, CancellationRequested,
   registry, admission, progress, tasks, control
<1>. pc \in [Actors -> PcValues]
  BY DEF TypeOK
<1>. call \in [Controllers -> Calls]
  BY DEF TypeOK
<1>. \A p \in Parents : \A k \in KidsOf(p) : k \in Children /\ k[1] = p
  BY KidFacts
<1>. parents \subseteq Parents
  BY DEF TypeOK
<1>. \A x \in Controllers : call[x].selected \subseteq Parents
  BY CallType
<1>. ExecutingMoves
  BY ExecutingStep
<1>. \A p \in Parents : ~ RunnerLive(p) => \A k \in KidsOf(p) : ~ Executing(k)
  BY KidFacts DEF RunnersOK, RolesOK, RunnerLive, Executing, KidRunning
<1>1. CASE UNCHANGED vars
  BY <1>1 DEF vars
<1>2. ASSUME NEW p \in Parents, Reject(p) PROVE SelectionsOK'
  BY <1>2, ActorFacts DEF Reject, Goto
<1>3. ASSUME NEW p \in Parents, Register(p) PROVE SelectionsOK'
  BY <1>3, ActorFacts DEF Register, Goto
<1>4. ASSUME NEW p \in Parents, LockAcquired(p) PROVE SelectionsOK'
  BY <1>4, ActorFacts DEF LockAcquired, Goto
<1>5. ASSUME NEW p \in Parents, Admitted(p) PROVE SelectionsOK'
  BY <1>5, ActorFacts DEF Admitted, Goto
<1>6. ASSUME NEW p \in Parents, NotAdmitted(p) PROVE SelectionsOK'
  BY <1>6, ActorFacts DEF NotAdmitted, Goto
<1>7. ASSUME NEW p \in Parents, Withdraw(p) PROVE SelectionsOK'
  BY <1>7, ActorFacts DEF Withdraw, SweepOne
<1>8. ASSUME NEW p \in Parents, Withdrawn(p) PROVE SelectionsOK'
  BY <1>8, ActorFacts DEF Withdrawn, Goto
<1>9. ASSUME NEW p \in Parents, ChildCreated(p) PROVE SelectionsOK'
  <2>1. CASE /\ p \notin parents
             /\ Goto(Submitter(p), "return")
             /\ UNCHANGED <<creating, terminal>>
    BY <1>9, <2>1, ActorFacts DEF ChildCreated, Goto
  <2>2. CASE /\ p \in parents /\ MoreChildren(p)
             /\ creating' = [creating EXCEPT ![p] = @ + 1]
             /\ Goto(Submitter(p), "create")
             /\ UNCHANGED terminal
    BY <1>9, <2>2, ActorFacts DEF ChildCreated, Goto
  <2>3. CASE /\ p \in parents /\ CancellationRequested(p)
             /\ Goto(Submitter(p), "sweep")
             /\ StartSweep(Submitter(p), {p})
             /\ UNCHANGED creating
    BY <1>9, <2>3, ActorFacts DEF ChildCreated, Goto
  <2>4. CASE /\ p \in parents /\ ~ CancellationRequested(p)
             /\ StartRunner(p)
             /\ UNCHANGED creating
    <3>1. RunnerMoves(p) /\ pc'[Submitter(p)] = "return"
      BY <2>4, StartMoves
    <3>. QED
      BY <1>9, <2>4, <3>1, ActorFacts DEF ChildCreated, RunnerMoves
  <2>. QED
    BY <1>9, <2>1, <2>2, <2>3, <2>4 DEF ChildCreated, CreateNext
<1>10. ASSUME NEW p \in Parents, ChildCreationFails(p) PROVE SelectionsOK'
  BY <1>10, ActorFacts DEF ChildCreationFails, Goto
<1>11. ASSUME NEW p \in Parents, SubmitterCancelled(p) PROVE SelectionsOK'
  BY <1>11, ActorFacts DEF SubmitterCancelled, Goto
<1>12. ASSUME NEW p \in Parents, LoopContinues(p) PROVE SelectionsOK'
  <2>1. RunnerMoves(p) /\ pc'[Submitter(p)] = pc[Submitter(p)]
    BY <1>12, LoopMoves DEF LoopContinues, TypeOK
  <2>. QED
    BY <1>12, <2>1, ActorFacts DEF LoopContinues, RunnerMoves
<1>13. ASSUME NEW p \in Parents, Gathered(p) PROVE SelectionsOK'
  BY <1>13, ActorFacts DEF Gathered, Goto
<1>14. ASSUME NEW p \in Parents, RunnerCancelled(p) PROVE SelectionsOK'
  BY <1>14, ActorFacts DEF RunnerCancelled, Unwind, Goto
<1>15. ASSUME NEW p \in Parents, RunnerSweeps(p) PROVE SelectionsOK'
  BY <1>15, ActorFacts DEF RunnerSweeps, SweepOne
<1>16. ASSUME NEW p \in Parents, RunnerEnds(p) PROVE SelectionsOK'
  BY <1>16, ActorFacts DEF RunnerEnds, Goto
<1>17. ASSUME NEW k \in Children, ChildStarted(k) PROVE SelectionsOK'
  BY <1>17, ActorFacts DEF ChildStarted, Goto
<1>18. ASSUME NEW k \in Children, ChildProcessed(k) PROVE SelectionsOK'
  BY <1>18, ActorFacts DEF ChildProcessed, Deliver, Goto
<1>19. ASSUME NEW k \in Children, PredecessorClosed(k) PROVE SelectionsOK'
  BY <1>19, ActorFacts DEF PredecessorClosed, Deliver, Goto
<1>20. ASSUME NEW k \in Children, OutputReturns(k) PROVE SelectionsOK'
  BY <1>20, ActorFacts DEF OutputReturns, Goto
<1>21. ASSUME NEW k \in Children, ChildInterrupted(k) PROVE SelectionsOK'
  BY <1>21, ActorFacts DEF ChildInterrupted, Goto
<1>22. ASSUME NEW k \in Children, ChildEnds(k) PROVE SelectionsOK'
  BY <1>22, ActorFacts DEF ChildEnds, Goto
<1>23. ASSUME NEW k \in Children, ChildDropped(k) PROVE SelectionsOK'
  BY <1>23, ActorFacts DEF ChildDropped
<1>24. ASSUME NEW x \in Controllers, NEW op \in {"cancel", "closeIngress"},
               NEW c \in Channels, CancelQueued(x, op, c) PROVE SelectionsOK'
  BY <1>24, ActorFacts DEF CancelQueued, BeginsCancel, Called, Goto, Call
<1>25. ASSUME NEW x \in Controllers, NEW op \in {"cancel", "closeIngress"},
               NEW c \in Channels, CancelStarts(x, op, c) PROVE SelectionsOK'
  <2>. DEFINE S == Selected(c)
  <2>1. /\ \A y \in Controllers \ {x} : call'[y] = call[y]
        /\ call'[x].selected = S
        /\ call'[x].channel = c
    BY <1>25 DEF CancelStarts, CancelSelected, Call
  <2>2. S \subseteq parents /\ c \in Channels
    BY <1>25 DEF CancelStarts, Selected
  <2>3. /\ cancelling' = cancelling \cup S
        /\ UNCHANGED <<parents, closedParents, closed>>
    BY <1>25 DEF CancelStarts, BeginsCancel, CancelSelected
  <2>4. /\ \A y \in Controllers \ {x} : pc'[Control(y)] = pc[Control(y)]
        /\ pc'[Control(x)] \in {"gather", "sweep"} /\ pc[Control(x)] \in {"idle", "lock"}
        /\ pc'[Control(x)] = "sweep" => \A p \in S : ~ RunnerLive(p)
    BY <1>25, ActorFacts
    DEF CancelStarts, BeginsCancel, Called, CancelSelected, Goto
  <2>. HIDE DEF S
  <2>5. \A y \in Controllers : \A p \in call'[y].selected :
            /\ p \in Registered'
            /\ p \in cancelling' \/ p \notin parents' \/ closed'
    BY <2>1, <2>2, <2>3
  <2>6. \A y \in Controllers :
            /\ pc'[Control(y)] \in {"drain", "drainLock", "scope", "closeSweep"} => closed'
            /\ pc'[Control(y)] \in {"lock", "gather", "sweep", "drainLock"} =>
                 call'[y].channel \in Channels
    BY <2>1, <2>2, <2>3, <2>4
  <2>7. ASSUME NEW y \in Controllers, NEW p \in call'[y].selected,
               pc'[Control(y)] \in {"sweep", "closeSweep"}, NEW k \in KidsOf(p)
        PROVE  ~ Executing(k)'
    <3>1. /\ p \in Parents /\ k[1] = p /\ k \in Children
          /\ ~ (p \in parents /\ ~ CancellationRequested(p)) \/ y = x
      BY <2>1, <2>2, <2>7
    <3>2. ~ Executing(k)
      BY <2>1, <2>4, <2>7, <3>1
    <3>. QED
      BY <2>1, <2>2, <2>3, <2>4, <2>7, <3>1, <3>2
  <2>. QED
    BY <2>5, <2>6, <2>7
<1>26. ASSUME NEW x \in Controllers, NEW op \in {"cancel", "closeIngress"},
               NEW c \in Channels, CancelFindsNothing(x, op, c)
     PROVE  SelectionsOK'
  BY <1>26, ActorFacts DEF CancelFindsNothing, BeginsCancel, Called
<1>27. ASSUME NEW x \in Controllers, NEW c \in Channels, OpenIngress(x, c)
       PROVE  SelectionsOK'
  BY <1>27, ActorFacts DEF OpenIngress
<1>28. ASSUME NEW x \in Controllers, Select(x) PROVE SelectionsOK'
  <2>. DEFINE S == Selected(call[x].channel)
  <2>1. /\ \A y \in Controllers \ {x} : call'[y] = call[y]
        /\ call'[x].selected = S
        /\ call'[x].channel = call[x].channel
    BY <1>28 DEF Select, CancelSelected, Call
  <2>2. S \subseteq parents /\ call[x].channel \in Channels
    BY <1>28 DEF Select, Selected
  <2>3. /\ cancelling' = cancelling \cup S
        /\ UNCHANGED <<parents, closedParents, closed>>
    BY <1>28 DEF Select, CancelSelected
  <2>4. /\ \A y \in Controllers \ {x} : pc'[Control(y)] = pc[Control(y)]
        /\ pc'[Control(x)] \in {"gather", "sweep"} /\ pc[Control(x)] \in {"idle", "lock"}
        /\ pc'[Control(x)] = "sweep" => \A p \in S : ~ RunnerLive(p)
    BY <1>28, ActorFacts DEF Select, CancelSelected, Goto
  <2>. HIDE DEF S
  <2>5. \A y \in Controllers : \A p \in call'[y].selected :
            /\ p \in Registered'
            /\ p \in cancelling' \/ p \notin parents' \/ closed'
    BY <2>1, <2>2, <2>3
  <2>6. \A y \in Controllers :
            /\ pc'[Control(y)] \in {"drain", "drainLock", "scope", "closeSweep"} => closed'
            /\ pc'[Control(y)] \in {"lock", "gather", "sweep", "drainLock"} =>
                 call'[y].channel \in Channels
    BY <2>1, <2>2, <2>3, <2>4
  <2>7. ASSUME NEW y \in Controllers, NEW p \in call'[y].selected,
               pc'[Control(y)] \in {"sweep", "closeSweep"}, NEW k \in KidsOf(p)
        PROVE  ~ Executing(k)'
    <3>1. /\ p \in Parents /\ k[1] = p /\ k \in Children
          /\ ~ (p \in parents /\ ~ CancellationRequested(p)) \/ y = x
      BY <2>1, <2>2, <2>7
    <3>2. ~ Executing(k)
      BY <2>1, <2>4, <2>7, <3>1
    <3>. QED
      BY <2>1, <2>2, <2>3, <2>4, <2>7, <3>1, <3>2
  <2>. QED
    BY <2>5, <2>6, <2>7
<1>29. ASSUME NEW x \in Controllers, CancelReturns(x) PROVE SelectionsOK'
  BY <1>29, ActorFacts DEF CancelReturns, Goto, NoCall, Call
<1>30. ASSUME NEW x \in Controllers, TasksEnded(x) PROVE SelectionsOK'
  BY <1>30, ActorFacts DEF TasksEnded, Goto
<1>31. ASSUME NEW x \in Controllers, ControlSweeps(x) PROVE SelectionsOK'
  BY <1>31, ActorFacts DEF ControlSweeps, SweepOne
<1>32. ASSUME NEW x \in Controllers, BeginClose(x) PROVE SelectionsOK'
  BY <1>32, ActorFacts DEF BeginClose, Goto, Called, Call
<1>33. ASSUME NEW x \in Controllers, NEW c \in Channels, DrainLock(x, c)
       PROVE  SelectionsOK'
  <2>1. \A y \in Controllers \ {x} : call'[y] = call[y]
    BY <1>33, CallFacts
  <2>2. /\ call'[x].selected = call[x].selected
        /\ lockQueue[c] # <<>> => call'[x].channel = c
    BY <1>33, CallFacts
  <2>. QED
    BY <1>33, <2>1, <2>2, ActorFacts
    DEF registry, control, progress, DrainLock, Goto
<1>34. ASSUME NEW x \in Controllers, LockDrained(x) PROVE SelectionsOK'
  <2>1. \A y \in Controllers \ {x} : call'[y] = call[y]
    BY <1>34, CallFacts
  <2>2. call'[x].selected = call[x].selected
    BY <1>34, CallFacts
  <2>. QED
    BY <1>34, <2>1, <2>2, ActorFacts DEF LockDrained, Goto
<1>35. ASSUME NEW x \in Controllers, CloseScope(x) PROVE SelectionsOK'
  BY <1>35, ActorFacts DEF CloseScope, Goto
<1>36. ASSUME NEW x \in Controllers, ScopeClosed(x) PROVE SelectionsOK'
  <2>1. \A y \in Controllers \ {x} : call'[y] = call[y]
    BY <1>36, CallFacts
  <2>2. call'[x].selected = parents
    BY <1>36, CallFacts
  <2>3. closed /\ \A p \in Parents : ~ RunnerLive(p)
    BY <1>36 DEF ScopeClosed, ScopeTasksEnded
  <2>4. UNCHANGED <<parents, closedParents, cancelling, closed>>
    BY <1>36 DEF ScopeClosed, registry
  <2>. QED
    BY <1>36, <2>1, <2>2, <2>3, <2>4, ActorFacts DEF ScopeClosed, Goto
<1>37. ASSUME NEW x \in Controllers, CloseReturns(x) PROVE SelectionsOK'
  BY <1>37, ActorFacts DEF CloseReturns, Goto, NoCall, Call
<1>38. ASSUME NEW a \in Actors, TerminalReturns(a) PROVE SelectionsOK'
  BY <1>38, ActorFacts DEF TerminalReturns, CloseParent
<1>39. ASSUME NEW a \in Actors, ClosedReturns(a) PROVE SelectionsOK'
  BY <1>39, ActorFacts DEF ClosedReturns
<1>. QED
  BY <1>1, <1>2, <1>3, <1>4, <1>5, <1>6, <1>7, <1>8, <1>9, <1>10, <1>11, <1>12,
     <1>13, <1>14, <1>15, <1>16, <1>17, <1>18, <1>19, <1>20, <1>21, <1>22,
     <1>23, <1>24, <1>25, <1>26, <1>27, <1>28, <1>29, <1>30, <1>31, <1>32,
     <1>33, <1>34, <1>35, <1>36, <1>37, <1>38, <1>39
  DEF Next, Environment, AdapterReturns, SubmitStep, RunStep, ChildStep,
     ControlStep

\* close() interrupts every child that executes, and none starts after it.
LEMMA ShutStep ==
    ASSUME TypeOK, RolesOK, RunnersOK, LateChildrenAreInterrupted, ClosedOK, [Next]_vars
    PROVE  ClosedOK'
<1>. USE DEF ClosedOK, Executing, KidRunning, KidLive, Interrupted, registry,
   admission, progress, tasks, control
<1>. pc \in [Actors -> PcValues]
  BY DEF TypeOK
<1>1. CASE UNCHANGED vars
  BY <1>1 DEF vars
<1>2. ASSUME NEW p \in Parents,
               \/ Withdraw(p) \/ RunnerSweeps(p)
     PROVE  ClosedOK'
  <2>1. UNCHANGED <<pc, kill, dropped, closed>>
    BY <1>2 DEF Withdraw, RunnerSweeps, SweepOne
  <2>. QED
    BY <2>1
<1>3. ASSUME NEW x \in Controllers, NEW op \in {"cancel", "closeIngress"},
               NEW c \in Channels,
               CancelFindsNothing(x, op, c)
     PROVE  ClosedOK'
  <2>1. UNCHANGED <<pc, kill, dropped, closed>>
    BY <1>3 DEF CancelFindsNothing, BeginsCancel
  <2>. QED
    BY <2>1
<1>4. ASSUME NEW x \in Controllers, NEW c \in Channels,
               OpenIngress(x, c)
     PROVE  ClosedOK'
  <2>1. UNCHANGED <<pc, kill, dropped, closed>>
    BY <1>4 DEF OpenIngress
  <2>. QED
    BY <2>1
<1>5. ASSUME NEW x \in Controllers,
               ControlSweeps(x)
     PROVE  ClosedOK'
  <2>1. UNCHANGED <<pc, kill, dropped, closed>>
    BY <1>5 DEF ControlSweeps, SweepOne
  <2>. QED
    BY <2>1
<1>6. ASSUME NEW a \in Actors,
               \/ TerminalReturns(a) \/ ClosedReturns(a)
     PROVE  ClosedOK'
  <2>1. UNCHANGED <<pc, kill, dropped, closed>>
    BY <1>6 DEF TerminalReturns, ClosedReturns
  <2>. QED
    BY <2>1
<1>7. ASSUME NEW p \in Parents, Reject(p) PROVE ClosedOK'
  BY <1>7, ActorFacts, KidFacts DEF Reject, Goto
<1>8. ASSUME NEW p \in Parents, Register(p) PROVE ClosedOK'
  BY <1>8, ActorFacts, KidFacts DEF Register, Goto
<1>9. ASSUME NEW p \in Parents, LockAcquired(p) PROVE ClosedOK'
  BY <1>9, ActorFacts, KidFacts DEF LockAcquired, Goto
<1>10. ASSUME NEW p \in Parents, Admitted(p) PROVE ClosedOK'
  BY <1>10, ActorFacts, KidFacts DEF Admitted, Goto
<1>11. ASSUME NEW p \in Parents, NotAdmitted(p) PROVE ClosedOK'
  BY <1>11, ActorFacts, KidFacts DEF NotAdmitted, Goto
<1>12. ASSUME NEW p \in Parents, Withdrawn(p) PROVE ClosedOK'
  BY <1>12, ActorFacts, KidFacts DEF Withdrawn, Goto
<1>13. ASSUME NEW p \in Parents, ChildCreated(p) PROVE ClosedOK'
  <2>1. CASE /\ p \notin parents
             /\ Goto(Submitter(p), "return")
             /\ UNCHANGED <<creating, terminal>>
    BY <1>13, <2>1, ActorFacts, KidFacts DEF ChildCreated, Goto
  <2>2. CASE /\ p \in parents /\ MoreChildren(p)
             /\ creating' = [creating EXCEPT ![p] = @ + 1]
             /\ Goto(Submitter(p), "create")
             /\ UNCHANGED terminal
    BY <1>13, <2>2, ActorFacts, KidFacts DEF ChildCreated, Goto
  <2>3. CASE /\ p \in parents /\ CancellationRequested(p)
             /\ Goto(Submitter(p), "sweep")
             /\ StartSweep(Submitter(p), {p})
             /\ UNCHANGED creating
    BY <1>13, <2>3, ActorFacts, KidFacts DEF ChildCreated, Goto
  <2>4. CASE /\ p \in parents /\ ~ CancellationRequested(p)
             /\ StartRunner(p)
             /\ UNCHANGED creating
    <3>1. RunnerMoves(p) /\ pc'[Submitter(p)] = "return"
      BY <2>4, StartMoves
    <3>. QED
      BY <1>13, <2>4, <3>1, ActorFacts, KidFacts
      DEF ChildCreated, RunnerMoves, CancellationRequested
  <2>. QED
    BY <1>13, <2>1, <2>2, <2>3, <2>4 DEF ChildCreated, CreateNext
<1>14. ASSUME NEW p \in Parents, ChildCreationFails(p) PROVE ClosedOK'
  BY <1>14, ActorFacts, KidFacts DEF ChildCreationFails, Goto
<1>15. ASSUME NEW p \in Parents, SubmitterCancelled(p) PROVE ClosedOK'
  BY <1>15, ActorFacts, KidFacts DEF SubmitterCancelled, Goto
<1>16. ASSUME NEW p \in Parents, LoopContinues(p) PROVE ClosedOK'
  <2>1. RunnerMoves(p) /\ pc'[Submitter(p)] = pc[Submitter(p)]
    BY <1>16, LoopMoves DEF LoopContinues, TypeOK
  <2>. QED
    BY <1>16, <2>1, ActorFacts, KidFacts
    DEF LoopContinues, RunnerMoves, CancellationRequested
<1>17. ASSUME NEW p \in Parents, Gathered(p) PROVE ClosedOK'
  BY <1>17, ActorFacts, KidFacts DEF Gathered, Goto
<1>18. ASSUME NEW p \in Parents, RunnerCancelled(p) PROVE ClosedOK'
  BY <1>18, ActorFacts, KidFacts DEF RunnerCancelled, Unwind, Goto
<1>19. ASSUME NEW p \in Parents, RunnerEnds(p) PROVE ClosedOK'
  BY <1>19, ActorFacts, KidFacts DEF RunnerEnds, Goto
<1>20. ASSUME NEW k \in Children, ChildStarted(k) PROVE ClosedOK'
  BY <1>20, ActorFacts, KidFacts DEF ChildStarted, Goto
<1>21. ASSUME NEW k \in Children, ChildProcessed(k) PROVE ClosedOK'
  BY <1>21, ActorFacts, KidFacts DEF ChildProcessed, Deliver, Goto
<1>22. ASSUME NEW k \in Children, PredecessorClosed(k) PROVE ClosedOK'
  BY <1>22, ActorFacts, KidFacts DEF PredecessorClosed, Deliver, Goto
<1>23. ASSUME NEW k \in Children, OutputReturns(k) PROVE ClosedOK'
  BY <1>23, ActorFacts, KidFacts DEF OutputReturns, Goto
<1>24. ASSUME NEW k \in Children, ChildInterrupted(k) PROVE ClosedOK'
  BY <1>24, ActorFacts, KidFacts DEF ChildInterrupted, Goto
<1>25. ASSUME NEW k \in Children, ChildEnds(k) PROVE ClosedOK'
  BY <1>25, ActorFacts, KidFacts DEF ChildEnds, Goto
<1>26. ASSUME NEW k \in Children, ChildDropped(k) PROVE ClosedOK'
  BY <1>26, ActorFacts, KidFacts DEF ChildDropped
<1>27. ASSUME NEW x \in Controllers, NEW op \in {"cancel", "closeIngress"},
               NEW c \in Channels, CancelQueued(x, op, c) PROVE ClosedOK'
  BY <1>27, ActorFacts, KidFacts DEF CancelQueued, BeginsCancel, Called, Goto
<1>28. ASSUME NEW x \in Controllers, NEW op \in {"cancel", "closeIngress"},
               NEW c \in Channels, CancelStarts(x, op, c) PROVE ClosedOK'
  BY <1>28, ActorFacts, KidFacts
  DEF CancelStarts, BeginsCancel, Called, CancelSelected, Goto
<1>29. ASSUME NEW x \in Controllers, Select(x) PROVE ClosedOK'
  BY <1>29, ActorFacts, KidFacts DEF Select, CancelSelected, Goto
<1>30. ASSUME NEW x \in Controllers, CancelReturns(x) PROVE ClosedOK'
  BY <1>30, ActorFacts, KidFacts DEF CancelReturns, Goto
<1>31. ASSUME NEW x \in Controllers, TasksEnded(x) PROVE ClosedOK'
  BY <1>31, ActorFacts, KidFacts DEF TasksEnded, Goto
<1>32. ASSUME NEW x \in Controllers, BeginClose(x) PROVE ClosedOK'
  <2>1. ASSUME NEW k \in Children, Executing(k)
        PROVE  Kid(k) \in KilledWith(parents)
    <3>1. k[1] \in parents
      BY <2>1 DEF LateChildrenAreInterrupted, Executing
    <3>2. RunnerLive(k[1])
      BY <2>1, KidFacts DEF RunnersOK, RolesOK, RunnerLive
    <3>. QED
      BY <2>1, <3>1, <3>2, KidFacts, KilledFacts DEF TypeOK
  <2>2. /\ kill' = kill \cup KilledWith(parents) /\ UNCHANGED dropped
        /\ \A k \in Children : pc'[Kid(k)] = pc[Kid(k)]
    BY <1>32, ActorFacts DEF BeginClose, Goto
  <2>. QED
    BY <2>1, <2>2
<1>33. ASSUME NEW x \in Controllers, NEW c \in Channels, DrainLock(x, c)
       PROVE  ClosedOK'
  BY <1>33, ActorFacts, KidFacts DEF DrainLock, Goto
<1>34. ASSUME NEW x \in Controllers, LockDrained(x) PROVE ClosedOK'
  BY <1>34, ActorFacts, KidFacts DEF LockDrained, Goto
<1>35. ASSUME NEW x \in Controllers, CloseScope(x) PROVE ClosedOK'
  BY <1>35, ActorFacts, KidFacts DEF CloseScope, Goto
<1>36. ASSUME NEW x \in Controllers, ScopeClosed(x) PROVE ClosedOK'
  BY <1>36, ActorFacts, KidFacts DEF ScopeClosed, Goto
<1>37. ASSUME NEW x \in Controllers, CloseReturns(x) PROVE ClosedOK'
  BY <1>37, ActorFacts, KidFacts DEF CloseReturns, Goto
<1>. QED
  BY <1>1, <1>2, <1>3, <1>4, <1>5, <1>6, <1>7, <1>8, <1>9, <1>10, <1>11, <1>12,
     <1>13, <1>14, <1>15, <1>16, <1>17, <1>18, <1>19, <1>20, <1>21, <1>22,
     <1>23, <1>24, <1>25, <1>26, <1>27, <1>28, <1>29, <1>30, <1>31, <1>32,
     <1>33, <1>34, <1>35, <1>36, <1>37
  DEF Next, Environment, AdapterReturns, SubmitStep, RunStep, ChildStep,
     ControlStep

\* A child that published never executes again.
LEMMA OutputsStep ==
    ASSUME TypeOK, RolesOK, SubmittersOK, RunnersOK, EndedOK, OutputsOK, [Next]_vars
    PROVE  OutputsOK'
<1>. USE DEF OutputsOK, registry, admission, progress, tasks, control
<1>. pc \in [Actors -> PcValues]
  BY DEF TypeOK
<1>. outputs \in Seq(Children)
  BY DEF TypeOK
<1>. \A i \in 1 .. Len(outputs) : outputs[i] \in Children
  BY DEF TypeOK
<1>1. CASE UNCHANGED vars
  BY <1>1 DEF vars
<1>2. ASSUME NEW p \in Parents,
               \/ Withdraw(p) \/ RunnerSweeps(p)
     PROVE  OutputsOK'
  <2>1. UNCHANGED <<pc, outputs>>
    BY <1>2 DEF Withdraw, RunnerSweeps, SweepOne
  <2>. QED
    BY <2>1
<1>3. ASSUME NEW k \in Children,
               ChildDropped(k)
     PROVE  OutputsOK'
  <2>1. UNCHANGED <<pc, outputs>>
    BY <1>3 DEF ChildDropped
  <2>. QED
    BY <2>1
<1>4. ASSUME NEW x \in Controllers, NEW op \in {"cancel", "closeIngress"},
               NEW c \in Channels,
               CancelFindsNothing(x, op, c)
     PROVE  OutputsOK'
  <2>1. UNCHANGED <<pc, outputs>>
    BY <1>4 DEF CancelFindsNothing, BeginsCancel
  <2>. QED
    BY <2>1
<1>5. ASSUME NEW x \in Controllers, NEW c \in Channels,
               OpenIngress(x, c)
     PROVE  OutputsOK'
  <2>1. UNCHANGED <<pc, outputs>>
    BY <1>5 DEF OpenIngress
  <2>. QED
    BY <2>1
<1>6. ASSUME NEW x \in Controllers,
               ControlSweeps(x)
     PROVE  OutputsOK'
  <2>1. UNCHANGED <<pc, outputs>>
    BY <1>6 DEF ControlSweeps, SweepOne
  <2>. QED
    BY <2>1
<1>7. ASSUME NEW a \in Actors,
               \/ TerminalReturns(a) \/ ClosedReturns(a)
     PROVE  OutputsOK'
  <2>1. UNCHANGED <<pc, outputs>>
    BY <1>7 DEF TerminalReturns, ClosedReturns
  <2>. QED
    BY <2>1
<1>8. ASSUME NEW p \in Parents, Reject(p) PROVE OutputsOK'
  BY <1>8, ActorFacts, KidFacts DEF Reject, Goto
<1>9. ASSUME NEW p \in Parents, Register(p) PROVE OutputsOK'
  BY <1>9, ActorFacts, KidFacts DEF Register, Goto
<1>10. ASSUME NEW p \in Parents, LockAcquired(p) PROVE OutputsOK'
  BY <1>10, ActorFacts, KidFacts DEF LockAcquired, Goto
<1>11. ASSUME NEW p \in Parents, Admitted(p) PROVE OutputsOK'
  BY <1>11, ActorFacts, KidFacts DEF Admitted, Goto
<1>12. ASSUME NEW p \in Parents, NotAdmitted(p) PROVE OutputsOK'
  BY <1>12, ActorFacts, KidFacts DEF NotAdmitted, Goto
<1>13. ASSUME NEW p \in Parents, Withdrawn(p) PROVE OutputsOK'
  BY <1>13, ActorFacts, KidFacts DEF Withdrawn, Goto
<1>14. ASSUME NEW p \in Parents, ChildCreated(p) PROVE OutputsOK'
  <2>1. CASE /\ p \notin parents
             /\ Goto(Submitter(p), "return")
             /\ UNCHANGED <<creating, terminal>>
    BY <1>14, <2>1, ActorFacts, KidFacts DEF ChildCreated, Goto
  <2>2. CASE /\ p \in parents /\ MoreChildren(p)
             /\ creating' = [creating EXCEPT ![p] = @ + 1]
             /\ Goto(Submitter(p), "create")
             /\ UNCHANGED terminal
    BY <1>14, <2>2, ActorFacts, KidFacts DEF ChildCreated, Goto
  <2>3. CASE /\ p \in parents /\ CancellationRequested(p)
             /\ Goto(Submitter(p), "sweep")
             /\ StartSweep(Submitter(p), {p})
             /\ UNCHANGED creating
    BY <1>14, <2>3, ActorFacts, KidFacts DEF ChildCreated, Goto
  <2>4. CASE /\ p \in parents /\ ~ CancellationRequested(p)
             /\ StartRunner(p)
             /\ UNCHANGED creating
    <3>1. RunnerMoves(p) /\ pc'[Submitter(p)] = "return"
      BY <2>4, StartMoves
    <3>. QED
      BY <1>14, <2>4, <3>1, ActorFacts, KidFacts
      DEF ChildCreated, RunnerMoves, SubmittersOK, RunnersOK
  <2>. QED
    BY <1>14, <2>1, <2>2, <2>3, <2>4 DEF ChildCreated, CreateNext
<1>15. ASSUME NEW p \in Parents, ChildCreationFails(p) PROVE OutputsOK'
  BY <1>15, ActorFacts, KidFacts DEF ChildCreationFails, Goto
<1>16. ASSUME NEW p \in Parents, SubmitterCancelled(p) PROVE OutputsOK'
  BY <1>16, ActorFacts, KidFacts DEF SubmitterCancelled, Goto
<1>17. ASSUME NEW p \in Parents, LoopContinues(p) PROVE OutputsOK'
  <2>1. RunnerMoves(p) /\ pc'[Submitter(p)] = pc[Submitter(p)]
    BY <1>17, LoopMoves DEF LoopContinues, TypeOK
  <2>. QED
    BY <1>17, <2>1, ActorFacts, KidFacts
    DEF LoopContinues, RunnerMoves, RunnersOK, EndedOK, KidLive, KidRunning
<1>18. ASSUME NEW p \in Parents, Gathered(p) PROVE OutputsOK'
  BY <1>18, ActorFacts, KidFacts DEF Gathered, Goto
<1>19. ASSUME NEW p \in Parents, RunnerCancelled(p) PROVE OutputsOK'
  BY <1>19, ActorFacts, KidFacts DEF RunnerCancelled, Unwind, Goto
<1>20. ASSUME NEW p \in Parents, RunnerEnds(p) PROVE OutputsOK'
  BY <1>20, ActorFacts, KidFacts DEF RunnerEnds, Goto
<1>21. ASSUME NEW k \in Children, ChildStarted(k) PROVE OutputsOK'
  BY <1>21, ActorFacts, KidFacts DEF ChildStarted, Goto
<1>22. ASSUME NEW k \in Children, ChildProcessed(k) PROVE OutputsOK'
  <2>1. CASE outputs' = Append(outputs, k) /\ Goto(Kid(k), "output")
    BY <2>1, ActorFacts DEF Goto
  <2>2. CASE UNCHANGED outputs
    BY <1>22, <2>2, ActorFacts DEF ChildProcessed, Deliver, Goto
  <2>. QED
    BY <1>22, <2>1, <2>2 DEF ChildProcessed, Deliver
<1>23. ASSUME NEW k \in Children, PredecessorClosed(k) PROVE OutputsOK'
  <2>1. CASE outputs' = Append(outputs, k) /\ Goto(Kid(k), "output")
    BY <2>1, ActorFacts DEF Goto
  <2>2. CASE UNCHANGED outputs
    BY <1>23, <2>2, ActorFacts DEF PredecessorClosed, Deliver, Goto
  <2>. QED
    BY <1>23, <2>1, <2>2 DEF PredecessorClosed, Deliver
<1>24. ASSUME NEW k \in Children, OutputReturns(k) PROVE OutputsOK'
  BY <1>24, ActorFacts, KidFacts DEF OutputReturns, Goto
<1>25. ASSUME NEW k \in Children, ChildInterrupted(k) PROVE OutputsOK'
  BY <1>25, ActorFacts, KidFacts DEF ChildInterrupted, Goto, KidRunning
<1>26. ASSUME NEW k \in Children, ChildEnds(k) PROVE OutputsOK'
  BY <1>26, ActorFacts, KidFacts DEF ChildEnds, Goto
<1>27. ASSUME NEW x \in Controllers, NEW op \in {"cancel", "closeIngress"},
               NEW c \in Channels, CancelQueued(x, op, c) PROVE OutputsOK'
  BY <1>27, ActorFacts, KidFacts DEF CancelQueued, BeginsCancel, Called, Goto
<1>28. ASSUME NEW x \in Controllers, NEW op \in {"cancel", "closeIngress"},
               NEW c \in Channels, CancelStarts(x, op, c) PROVE OutputsOK'
  BY <1>28, ActorFacts, KidFacts
  DEF CancelStarts, BeginsCancel, Called, CancelSelected, Goto
<1>29. ASSUME NEW x \in Controllers, Select(x) PROVE OutputsOK'
  BY <1>29, ActorFacts, KidFacts DEF Select, CancelSelected, Goto
<1>30. ASSUME NEW x \in Controllers, CancelReturns(x) PROVE OutputsOK'
  BY <1>30, ActorFacts, KidFacts DEF CancelReturns, Goto
<1>31. ASSUME NEW x \in Controllers, TasksEnded(x) PROVE OutputsOK'
  BY <1>31, ActorFacts, KidFacts DEF TasksEnded, Goto
<1>32. ASSUME NEW x \in Controllers, BeginClose(x) PROVE OutputsOK'
  BY <1>32, ActorFacts, KidFacts DEF BeginClose, Goto, Called
<1>33. ASSUME NEW x \in Controllers, NEW c \in Channels, DrainLock(x, c)
       PROVE  OutputsOK'
  BY <1>33, ActorFacts, KidFacts DEF DrainLock, Goto
<1>34. ASSUME NEW x \in Controllers, LockDrained(x) PROVE OutputsOK'
  BY <1>34, ActorFacts, KidFacts DEF LockDrained, Goto
<1>35. ASSUME NEW x \in Controllers, CloseScope(x) PROVE OutputsOK'
  BY <1>35, ActorFacts, KidFacts DEF CloseScope, Goto
<1>36. ASSUME NEW x \in Controllers, ScopeClosed(x) PROVE OutputsOK'
  BY <1>36, ActorFacts, KidFacts DEF ScopeClosed, Goto
<1>37. ASSUME NEW x \in Controllers, CloseReturns(x) PROVE OutputsOK'
  BY <1>37, ActorFacts, KidFacts DEF CloseReturns, Goto
<1>. QED
  BY <1>1, <1>2, <1>3, <1>4, <1>5, <1>6, <1>7, <1>8, <1>9, <1>10, <1>11, <1>12,
     <1>13, <1>14, <1>15, <1>16, <1>17, <1>18, <1>19, <1>20, <1>21, <1>22,
     <1>23, <1>24, <1>25, <1>26, <1>27, <1>28, <1>29, <1>30, <1>31, <1>32,
     <1>33, <1>34, <1>35, <1>36, <1>37
  DEF Next, Environment, AdapterReturns, SubmitStep, RunStep, ChildStep,
     ControlStep

-----------------------------------------------------------------------------
(* What the operations rely on. *)

\* A task of a parent or a child is started only while the owner is open, and a
\* child is where it submits an output only after the output.
LiveMoves ==
    /\ \A p \in Parents : RunnerLive(p)' => RunnerLive(p) \/ ~ closed
    /\ \A k \in Children :
        /\ KidLive(k)' => KidLive(k) \/ ~ closed
        /\ pc'[Kid(k)] = "output" => pc[Kid(k)] = "output" \/ outputs' # outputs

\* After close() began, tasks only end.
LEMMA LiveStep ==
    ASSUME TypeOK, [Next]_vars
    PROVE  LiveMoves
<1>. USE DEF LiveMoves, RunnerLive, KidLive, KidRunning, CancellationRequested,
   registry, admission, progress, tasks, control
<1>. pc \in [Actors -> PcValues]
  BY DEF TypeOK
<1>0. \A k \in Children : Append(outputs, k) # outputs
  BY DEF TypeOK
<1>1. CASE UNCHANGED vars
  BY <1>1 DEF vars
<1>2. ASSUME NEW p \in Parents,
               \/ Reject(p) \/ Register(p) \/ SubmitterCancelled(p)
               \/ LockAcquired(p) \/ Admitted(p) \/ NotAdmitted(p)
               \/ Withdraw(p) \/ Withdrawn(p) \/ ChildCreationFails(p)
      PROVE  LiveMoves
  BY <1>2, ActorFacts
  DEF Reject, Register, SubmitterCancelled, LockAcquired, Admitted, NotAdmitted,
      Withdraw, Withdrawn, ChildCreationFails, SweepOne, Goto
<1>3. ASSUME NEW p \in Parents, ChildCreated(p) PROVE LiveMoves
  <2>1. CASE /\ p \in parents /\ ~ CancellationRequested(p)
             /\ StartRunner(p)
             /\ UNCHANGED creating
    <3>1. RunnerMoves(p) /\ pc'[Submitter(p)] = "return"
      BY <2>1, StartMoves
    <3>. QED
      BY <2>1, <3>1, ActorFacts, KidFacts DEF RunnerMoves
  <2>2. CASE \E l \in PcValues : Goto(Submitter(p), l)
    BY <2>2, ActorFacts DEF Goto
  <2>. QED
    BY <1>3, <2>1, <2>2 DEF ChildCreated, CreateNext, PcValues
<1>4. ASSUME NEW p \in Parents, LoopContinues(p) PROVE LiveMoves
  <2>1. RunnerMoves(p) /\ pc'[Submitter(p)] = pc[Submitter(p)]
    BY <1>4, LoopMoves DEF LoopContinues
  <2>2. RunnerLive(p)
    BY <1>4 DEF LoopContinues
  <2>. QED
    BY <2>1, <2>2, ActorFacts, KidFacts DEF RunnerMoves
<1>5. ASSUME NEW p \in Parents,
               \/ Gathered(p) \/ RunnerCancelled(p) \/ RunnerSweeps(p)
               \/ RunnerEnds(p)
      PROVE  LiveMoves
  BY <1>5, ActorFacts
  DEF Gathered, RunnerCancelled, RunnerSweeps, RunnerEnds, SweepOne, Unwind, Goto
<1>6. ASSUME NEW k \in Children, ChildStep(k) \/ ChildDropped(k) PROVE LiveMoves
  BY <1>0, <1>6, ActorFacts
  DEF ChildStep, ChildStarted, ChildProcessed, PredecessorClosed, OutputReturns,
      ChildInterrupted, ChildEnds, ChildDropped, Deliver, Goto
<1>7. ASSUME NEW x \in Controllers, NEW op, NEW c \in Channels,
               \/ CancelQueued(x, op, c) \/ CancelStarts(x, op, c)
               \/ CancelFindsNothing(x, op, c) \/ OpenIngress(x, c)
      PROVE  LiveMoves
  BY <1>7, ActorFacts
  DEF CancelQueued, CancelStarts, CancelFindsNothing, OpenIngress, BeginsCancel,
      CancelSelected, Goto
<1>8. ASSUME NEW x \in Controllers, ControlStep(x) \/ BeginClose(x) PROVE LiveMoves
  BY <1>8, ActorFacts
  DEF ControlStep, Select, TasksEnded, ControlSweeps, CancelReturns, DrainLock,
      LockDrained, CloseScope, ScopeClosed, CloseReturns, BeginClose,
      CancelSelected, SweepOne, Goto
<1>9. ASSUME NEW a \in Actors, AdapterReturns(a) PROVE LiveMoves
  BY <1>9 DEF AdapterReturns, TerminalReturns, ClosedReturns
<1>. QED
  BY <1>1, <1>2, <1>3, <1>4, <1>5, <1>6, <1>7, <1>8, <1>9
  DEF Next, Environment, SubmitStep, RunStep

\* Nothing that belongs to an operation changes.
ControlStill ==
    /\ UNCHANGED <<generation, blocked, closed, call>>
    /\ \A x \in Controllers : pc'[Control(x)] = pc[Control(x)]

\* An operation begins or goes on.
ControlMoves(x) ==
    \/ BeginClose(x) \/ Select(x) \/ TasksEnded(x) \/ CancelReturns(x)
    \/ LockDrained(x) \/ CloseScope(x) \/ ScopeClosed(x) \/ CloseReturns(x)
    \/ \E c \in Channels :
         \/ DrainLock(x, c) \/ OpenIngress(x, c)
         \/ \E op \in {"cancel", "closeIngress"} :
              \/ CancelQueued(x, op, c) \/ CancelStarts(x, op, c)
              \/ CancelFindsNothing(x, op, c)

\* Only the operations themselves change what belongs to them.
LEMMA ControlFrame ==
    ASSUME TypeOK, [Next]_vars
    PROVE  ControlStill \/ \E x \in Controllers : ControlMoves(x)
<1>. USE DEF ControlStill, registry, admission, progress, tasks, control
<1>. pc \in [Actors -> PcValues]
  BY DEF TypeOK
<1>1. CASE UNCHANGED vars
  BY <1>1 DEF vars
<1>2. ASSUME NEW p \in Parents,
               \/ Reject(p) \/ Register(p) \/ SubmitterCancelled(p)
               \/ LockAcquired(p) \/ Admitted(p) \/ NotAdmitted(p)
               \/ Withdraw(p) \/ Withdrawn(p) \/ ChildCreationFails(p)
      PROVE  ControlStill
  BY <1>2, ActorFacts
  DEF Reject, Register, SubmitterCancelled, LockAcquired, Admitted, NotAdmitted,
      Withdraw, Withdrawn, ChildCreationFails, SweepOne, Goto
<1>3. ASSUME NEW p \in Parents, ChildCreated(p) PROVE ControlStill
  <2>1. CASE /\ p \in parents /\ ~ CancellationRequested(p)
             /\ StartRunner(p)
             /\ UNCHANGED creating
    <3>1. RunnerMoves(p)
      BY <2>1, StartMoves
    <3>. QED
      BY <1>3, <3>1 DEF RunnerMoves, ChildCreated
  <2>2. CASE \E l \in PcValues : Goto(Submitter(p), l)
    BY <1>3, <2>2, ActorFacts DEF Goto, ChildCreated
  <2>. QED
    BY <1>3, <2>1, <2>2 DEF ChildCreated, CreateNext, PcValues
<1>4. ASSUME NEW p \in Parents, LoopContinues(p) PROVE ControlStill
  <2>1. RunnerMoves(p)
    BY <1>4, LoopMoves DEF LoopContinues
  <2>. QED
    BY <1>4, <2>1 DEF RunnerMoves, LoopContinues
<1>5. ASSUME NEW p \in Parents,
               \/ Gathered(p) \/ RunnerCancelled(p) \/ RunnerSweeps(p)
               \/ RunnerEnds(p)
      PROVE  ControlStill
  BY <1>5, ActorFacts
  DEF Gathered, RunnerCancelled, RunnerSweeps, RunnerEnds, SweepOne, Unwind, Goto
<1>6. ASSUME NEW k \in Children, ChildStep(k) \/ ChildDropped(k)
      PROVE  ControlStill
  BY <1>6, ActorFacts
  DEF ChildStep, ChildStarted, ChildProcessed, PredecessorClosed, OutputReturns,
      ChildInterrupted, ChildEnds, ChildDropped, Deliver, Goto
<1>7. ASSUME NEW x \in Controllers, ControlSweeps(x) PROVE ControlStill
  BY <1>7 DEF ControlSweeps, SweepOne
<1>8. ASSUME NEW a \in Actors, AdapterReturns(a) PROVE ControlStill
  BY <1>8 DEF AdapterReturns, TerminalReturns, ClosedReturns
<1>. QED
  BY <1>1, <1>2, <1>3, <1>4, <1>5, <1>6, <1>7, <1>8
  DEF Next, Environment, SubmitStep, RunStep, ControlStep, ControlMoves

\* A turn gets its number when it is submitted; an operation takes new generations.
LEMMA AdmissionFrame ==
    ASSUME TypeOK, [Next]_vars
    PROVE  \/ UNCHANGED <<turn, nextOrder>> /\ ControlStill
           \/ \E p \in Parents : Register(p)
           \/ /\ UNCHANGED <<turn, parents, closedParents>>
              /\ \E x \in Controllers : ControlMoves(x)
<1>. USE DEF registry, admission, progress, tasks, control
<1>1. CASE UNCHANGED vars
  BY <1>1, ControlFrame DEF vars, ControlStill
<1>2. ASSUME NEW p \in Parents,
               \/ Reject(p) \/ SubmitterCancelled(p) \/ SubmitStep(p) \/ RunStep(p)
      PROVE  UNCHANGED <<turn, nextOrder>>
  BY <1>2
  DEF Reject, SubmitterCancelled, SubmitStep, LockAcquired, Admitted, NotAdmitted,
      Withdraw, Withdrawn, ChildCreated, ChildCreationFails, RunStep,
      LoopContinues, Gathered, RunnerCancelled, RunnerSweeps, RunnerEnds, SweepOne
<1>3. ASSUME NEW k \in Children, ChildStep(k) \/ ChildDropped(k)
      PROVE  UNCHANGED <<turn, nextOrder>>
  BY <1>3
  DEF ChildStep, ChildStarted, ChildProcessed, PredecessorClosed, OutputReturns,
      ChildInterrupted, ChildEnds, ChildDropped, Deliver
<1>4. ASSUME NEW x \in Controllers, ControlSweeps(x)
      PROVE  UNCHANGED <<turn, nextOrder>>
  BY <1>4 DEF ControlSweeps, SweepOne
<1>5. ASSUME NEW a \in Actors, AdapterReturns(a) PROVE UNCHANGED <<turn, nextOrder>>
  BY <1>5 DEF AdapterReturns, TerminalReturns, ClosedReturns
<1>6. ASSUME NEW x \in Controllers, ControlMoves(x)
      PROVE  UNCHANGED <<turn, parents, closedParents>>
  BY <1>6
  DEF ControlMoves, CancelQueued, CancelStarts, CancelFindsNothing, OpenIngress,
      BeginsCancel, CancelSelected, Select, TasksEnded, CancelReturns, DrainLock,
      LockDrained, CloseScope, ScopeClosed, CloseReturns, BeginClose
<1>. QED
  BY <1>1, <1>2, <1>3, <1>4, <1>5, <1>6, ControlFrame
  DEF Next, Environment, ControlStep, ControlMoves

\* An operation leaves the others where they are.
LEMMA OthersStay ==
    ASSUME TypeOK, NEW x \in Controllers, ControlMoves(x)
    PROVE  \A y \in Controllers \ {x} :
             call'[y] = call[y] /\ pc'[Control(y)] = pc[Control(y)]
<1>. pc \in [Actors -> PcValues] /\ call \in [Controllers -> Calls]
  BY DEF TypeOK
<1>1. pc' = pc \/ \E l : Goto(Control(x), l)
  BY DEF ControlMoves, CancelQueued, CancelStarts, CancelFindsNothing, OpenIngress,
     BeginsCancel, CancelSelected, Select, TasksEnded, CancelReturns, DrainLock,
     LockDrained, CloseScope, ScopeClosed, CloseReturns, BeginClose
<1>2. \A y \in Controllers \ {x} : pc'[Control(y)] = pc[Control(y)]
  BY <1>1, ActorFacts DEF Goto
<1>3. CASE LockDrained(x) \/ ScopeClosed(x) \/ \E c \in Channels : DrainLock(x, c)
  BY <1>2, <1>3, CallFacts
<1>4. CASE \/ BeginClose(x) \/ Select(x) \/ TasksEnded(x) \/ CancelReturns(x)
           \/ CloseScope(x) \/ CloseReturns(x)
  <2>1. call' = call \/ \E r : call' = [call EXCEPT ![x] = r]
    BY <1>4 DEF BeginClose, Select, CancelSelected, TasksEnded, CancelReturns,
       CloseScope, CloseReturns, control
  <2>. QED
    BY <1>2, <2>1
<1>5. ASSUME NEW op \in {"cancel", "closeIngress"}, NEW c \in Channels,
             \/ CancelQueued(x, op, c) \/ CancelStarts(x, op, c)
             \/ CancelFindsNothing(x, op, c) \/ OpenIngress(x, c)
      PROVE  \A y \in Controllers \ {x} : call'[y] = call[y]
  <2>1. call' = call \/ \E r : call' = [call EXCEPT ![x] = r]
    BY <1>5 DEF CancelQueued, CancelStarts, CancelFindsNothing, OpenIngress,
       CancelSelected
  <2>. QED
    BY <2>1
<1>. QED
  BY <1>2, <1>3, <1>4, <1>5 DEF ControlMoves

\* A generation is only ever advanced, and every operation stays what it is until
\* it returns.
LEMMA OperationsStep ==
    ASSUME TypeOK, RolesOK, SelectionsOK, OperationsOK, [Next]_vars
    PROVE  OperationsOK'
<1>. USE DEF OperationsOK, CancelLabels, CloseLabels
<1>. pc \in [Actors -> PcValues] /\ call \in [Controllers -> Calls]
     /\ generation \in [Channels -> Nat]
  BY DEF TypeOK
<1>. \A x \in Controllers : Control(x) \in Actors
  BY ActorFacts
<1>1. CASE ControlStill
  BY <1>1 DEF ControlStill
<1>2. ASSUME NEW x \in Controllers, ControlMoves(x) PROVE OperationsOK'
  <2>1. \A y \in Controllers \ {x} :
          /\ call'[y] = call[y] /\ pc'[Control(y)] = pc[Control(y)]
    BY <1>2, OthersStay
  <2>2. \A c \in Channels : generation'[c] \in Nat /\ generation[c] <= generation'[c]
    <3>1. generation' = generation \/ \E C : Advanced(C)
      BY <1>2
      DEF ControlMoves, CancelQueued, CancelStarts, CancelFindsNothing, OpenIngress,
          BeginsCancel, Select, TasksEnded, CancelReturns, DrainLock, LockDrained,
          CloseScope, ScopeClosed, CloseReturns, BeginClose, control
    <3>. QED
      BY <3>1 DEF Advanced
  <2>3. \A y \in Controllers : pc[Control(y)] \in CancelLabels =>
          call[y].channel \in Channels /\ call[y].generation \in Nat
    BY CallType DEF SelectionsOK
  <2>. DEFINE Right(y) ==
          /\ call[y].op \in {"cancel", "closeIngress"} <=> pc[Control(y)] \in CancelLabels
          /\ call[y].op = "close" <=> pc[Control(y)] \in CloseLabels
          /\ pc[Control(y)] \in CancelLabels =>
               /\ call[y].generation <= generation[call[y].channel]
               /\ \A p \in call[y].selected : ChannelOf[p] = call[y].channel
  <2>4. \A y \in Controllers \ {x} : Right(y)'
    BY <2>1, <2>2, <2>3
  <2>5. Right(x)'
    <3>1. ASSUME NEW op \in {"cancel", "closeIngress"}, NEW c \in Channels,
                 CancelQueued(x, op, c) \/ CancelStarts(x, op, c)
          PROVE  Right(x)'
      <4>1. /\ pc'[Control(x)] \in CancelLabels
            /\ \E S \in {{}, Selected(c)} :
                 call'[x] = Call(op, c, S, {}, generation[c] + 1)
            /\ generation'[c] = generation[c] + 1
        BY <3>1, ActorFacts
        DEF CancelQueued, CancelStarts, BeginsCancel, CancelSelected, Advanced, Goto
      <4>. QED
        BY <4>1 DEF Call, Selected
    <3>2. ASSUME NEW op \in {"cancel", "closeIngress"}, NEW c \in Channels,
                 CancelFindsNothing(x, op, c) \/ OpenIngress(x, c)
          PROVE  Right(x)'
      <4>1. /\ pc[Control(x)] = "idle" /\ pc'[Control(x)] = "idle"
            /\ call'[x] = call[x]
        BY <3>2 DEF CancelFindsNothing, OpenIngress, BeginsCancel, Called
      <4>. QED
        BY <4>1
    <3>3. CASE BeginClose(x)
      <4>1. /\ pc'[Control(x)] = "drain" /\ call'[x].op = "close"
        BY <3>3 DEF BeginClose, Goto, Call
      <4>. QED
        BY <4>1
    <3>4. CASE Select(x)
      <4>1. /\ pc[Control(x)] = "lock" /\ pc'[Control(x)] \in CancelLabels
            /\ call'[x] = Call(call[x].op, call[x].channel,
                   Selected(call[x].channel), {}, call[x].generation)
            /\ generation' = generation
        BY <3>4 DEF Select, CancelSelected, Goto
      <4>. QED
        BY <4>1 DEF Call, Selected
    <3>5. CASE TasksEnded(x)
      <4>1. /\ pc[Control(x)] = "gather" /\ pc'[Control(x)] = "sweep"
            /\ UNCHANGED <<call, generation>>
        BY <3>5 DEF TasksEnded, Goto, control
      <4>. QED
        BY <4>1
    <3>6. CASE CancelReturns(x) \/ CloseReturns(x)
      <4>1. pc'[Control(x)] = "idle" /\ call'[x].op = "none"
        BY <3>6 DEF CancelReturns, CloseReturns, Goto, NoCall, Call
      <4>. QED
        BY <4>1
    <3>7. ASSUME NEW c \in Channels, DrainLock(x, c) PROVE Right(x)'
      <4>1. pc[Control(x)] = "drain" /\ pc'[Control(x)] \in {"drain", "drainLock"}
        BY <3>7 DEF DrainLock, Goto
      <4>2. call'[x].op = call[x].op
        BY <3>7, CallFacts
      <4>. QED
        BY <4>1, <4>2
    <3>8. CASE LockDrained(x) \/ CloseScope(x) \/ ScopeClosed(x)
      <4>1. /\ pc[Control(x)] \in CloseLabels /\ pc'[Control(x)] \in CloseLabels
        BY <3>8 DEF LockDrained, CloseScope, ScopeClosed, Goto
      <4>2. call'[x].op = call[x].op
        BY <3>8, CallFacts DEF CloseScope, control
      <4>. QED
        BY <4>1, <4>2
    <3>. QED
      BY <1>2, <3>1, <3>2, <3>3, <3>4, <3>5, <3>6, <3>7, <3>8 DEF ControlMoves
  <2>. QED
    BY <2>4, <2>5
<1>. QED
  BY <1>1, <1>2, ControlFrame

\* A turn that is live after a step was live before it, or has just been submitted
\* to an owner that is open, in the current generation.
LEMMA LiveTurns ==
    ASSUME TypeOK, [Next]_vars
    PROVE  \A p \in parents' :
             \/ p \in parents /\ turn'[p] = turn[p]
             \/ /\ p \in Parents /\ ~ closed
                /\ turn'[p][1] = generation[ChannelOf[p]]
                /\ ControlStill
<1>1. ASSUME NEW p \in Parents, Register(p)
      PROVE  /\ parents' \subseteq parents \cup {p} /\ p \notin parents
             /\ \A q \in parents : turn'[q] = turn[q]
             /\ turn'[p] = <<generation[ChannelOf[p]], nextOrder[ChannelOf[p]]>>
             /\ ~ closed
             /\ ControlStill
  BY <1>1, ActorFacts
  DEF Register, TypeOK, Registered, ControlStill, control, Goto
<1>2. ASSUME NEW a \in Actors, TerminalReturns(a)
      PROVE  parents' \subseteq parents /\ turn' = turn
  BY <1>2 DEF TerminalReturns, CloseParent, admission, registry
<1>. QED
  BY <1>1, <1>2, RegistryFrame, AdmissionFrame

\* What a cancellation or close() has not selected has begun after it.
LEMMA DrainStep ==
    ASSUME TypeOK, SelectionsOK, OperationsOK, DrainOK, [Next]_vars
    PROVE  DrainOK'
<1>. USE DEF DrainOK
<1>. pc \in [Actors -> PcValues] /\ call \in [Controllers -> Calls]
     /\ generation \in [Channels -> Nat] /\ parents \subseteq Parents
     /\ turn \in [Parents -> Nat \X Nat]
  BY DEF TypeOK
<1>. \A x \in Controllers : Control(x) \in Actors
  BY ActorFacts
<1>0. closed /\ ScopeTasksEnded => ScopeTasksEnded'
  BY LiveStep DEF LiveMoves, ScopeTasksEnded
<1>1. CASE ControlStill
  <2>. SUFFICES ASSUME NEW x \in Controllers
                PROVE  /\ pc'[Control(x)] \in {"gather", "sweep"} =>
                            \A p \in parents' :
                              /\ ChannelOf[p] = call'[x].channel
                              /\ turn'[p][1] < call'[x].generation
                              => p \in call'[x].selected
                       /\ pc'[Control(x)] = "closeSweep" =>
                            parents' \subseteq call'[x].selected /\ ScopeTasksEnded'
    OBVIOUS
  <2>1. call'[x] = call[x] /\ pc'[Control(x)] = pc[Control(x)]
    BY <1>1 DEF ControlStill
  <2>2. ASSUME pc[Control(x)] \in {"gather", "sweep"}, NEW p \in parents',
               ChannelOf[p] = call[x].channel, turn'[p][1] < call[x].generation
        PROVE  p \in call[x].selected
    <3>1. /\ call[x].generation <= generation[call[x].channel]
          /\ call[x].channel \in Channels /\ call[x].generation \in Nat
      BY <2>2, CallType DEF OperationsOK, CancelLabels, SelectionsOK
    <3>2. p \in parents /\ turn'[p] = turn[p]
      BY <2>2, <3>1, LiveTurns
    <3>. QED
      BY <2>2, <3>2
  <2>3. CASE pc[Control(x)] = "closeSweep"
    <3>1. closed
      BY <2>3 DEF SelectionsOK
    <3>. QED
      BY <1>0, <2>1, <2>3, <3>1, LiveTurns
  <2>. QED
    BY <2>1, <2>2, <2>3
<1>2. ASSUME NEW x \in Controllers, ControlMoves(x) PROVE DrainOK'
  <2>1. \A y \in Controllers \ {x} :
          /\ call'[y] = call[y] /\ pc'[Control(y)] = pc[Control(y)]
    BY <1>2, OthersStay
  <2>2. UNCHANGED <<turn, parents>>
    BY <1>2
    DEF ControlMoves, CancelQueued, CancelStarts, CancelFindsNothing, OpenIngress,
        BeginsCancel, CancelSelected, Select, TasksEnded, CancelReturns, DrainLock,
        LockDrained, CloseScope, ScopeClosed, CloseReturns, BeginClose, admission,
        registry
  <2>. DEFINE Drained(y) ==
          /\ pc[Control(y)] \in {"gather", "sweep"} =>
               \A p \in parents :
                   ChannelOf[p] = call[y].channel /\ turn[p][1] < call[y].generation
                     => p \in call[y].selected
          /\ pc[Control(y)] = "closeSweep" =>
               parents \subseteq call[y].selected /\ ScopeTasksEnded
  <2>3. ASSUME NEW y \in Controllers \ {x} PROVE Drained(y)'
    <3>1. pc[Control(y)] = "closeSweep" => ScopeTasksEnded'
      BY <1>0 DEF SelectionsOK
    <3>. QED
      BY <2>1, <2>2, <3>1
  <2>4. Drained(x)'
    <3>1. ASSUME NEW op \in {"cancel", "closeIngress"}, NEW c \in Channels,
                 CancelQueued(x, op, c) \/ CancelFindsNothing(x, op, c)
                   \/ OpenIngress(x, c) \/ DrainLock(x, c)
          PROVE  Drained(x)'
      <4>1. pc'[Control(x)] \notin {"gather", "sweep", "closeSweep"}
        BY <3>1
        DEF CancelQueued, CancelFindsNothing, OpenIngress, DrainLock, BeginsCancel,
            Called, Goto
      <4>. QED
        BY <4>1
    <3>2. CASE \/ BeginClose(x) \/ LockDrained(x) \/ CloseScope(x)
               \/ CancelReturns(x) \/ CloseReturns(x)
      <4>1. pc'[Control(x)] \notin {"gather", "sweep", "closeSweep"}
        BY <3>2
        DEF BeginClose, LockDrained, CloseScope, CancelReturns, CloseReturns, Goto
      <4>. QED
        BY <4>1
    <3>3. ASSUME NEW op, NEW c, NEW g, CancelSelected(x, op, c, g)
          PROVE  Drained(x)'
      <4>1. /\ pc'[Control(x)] # "closeSweep"
            /\ call'[x].channel = c /\ call'[x].selected = Selected(c)
        BY <3>3 DEF CancelSelected, Goto, Call
      <4>. QED
        BY <2>2, <4>1 DEF Selected
    <3>4. CASE TasksEnded(x)
      <4>1. /\ pc[Control(x)] = "gather" /\ pc'[Control(x)] = "sweep"
            /\ UNCHANGED call
        BY <3>4 DEF TasksEnded, Goto, control
      <4>. QED
        BY <2>2, <4>1
    <3>5. CASE ScopeClosed(x)
      <4>1. /\ pc'[Control(x)] = "closeSweep" /\ ScopeTasksEnded
            /\ call'[x].selected = parents /\ closed
        BY <3>5, CallFacts DEF ScopeClosed, Goto, SelectionsOK
      <4>. QED
        BY <1>0, <2>2, <4>1
    <3>. QED
      BY <1>2, <3>1, <3>2, <3>3, <3>4, <3>5 DEF ControlMoves, CancelStarts, Select
  <2>. QED
    BY <2>3, <2>4
<1>. QED
  BY <1>1, <1>2, ControlFrame
=============================================================================
