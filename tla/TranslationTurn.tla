--------------------------- MODULE TranslationTurn ---------------------------
(***************************************************************************)
(* The TranslationTurnLifecycleOwner of                                    *)
(* core/orchestrator/translation_turn.py.                                  *)
(*                                                                         *)
(* A final transcript is submitted as a parent turn and split into         *)
(* children, one per language run and target language.  The owner admits   *)
(* the parents of a channel one at a time under the channel's admission    *)
(* lock, runs each parent in a task, each child in a task of its own, and  *)
(* reports every child and every parent as terminal through adapters.      *)
(* Channel cancellation, ingress closing and owner shutdown run            *)
(* concurrently with all of it.                                            *)
(*                                                                         *)
(* The program is a single asyncio event loop: code between two awaits is  *)
(* atomic, every await of an adapter, an event, a lock or a task is a      *)
(* place where any other task may run.  One action is one such atomic      *)
(* stretch.  An actor is a task of the program: the caller of submit, the  *)
(* task of a parent, the task of a child (with the runner that awaits it), *)
(* or a caller of one of the cancelling operations.                        *)
(***************************************************************************)
EXTENDS Naturals, Sequences, FiniteSets

CONSTANTS
    Parents,        \* parent utterance ids
    Channels,       \* "self" and "peer"
    ChannelOf,      \* the channel each parent belongs to
    ChildCount,     \* the number of children _build_children makes of a parent
    Dual,           \* parents of channel self with more than one target language
    Controllers,    \* tasks that call the cancelling operations
    Operations,     \* the operations the controllers may call
    MaxOperations,  \* bound on the calls of these operations in a behaviour
    Faults,         \* adapters that may raise: "admitted", "created"
    Aborts,         \* cancellations from outside: "submitter", "child"
    None            \* no child, no parent

OperationNames == {"cancel", "closeIngress", "openIngress", "close"}

ASSUME TurnAssumption ==
    /\ ChannelOf \in [Parents -> Channels]
    /\ ChildCount \in [Parents -> Nat]
    /\ Dual \subseteq Parents
    /\ Operations \subseteq OperationNames
    /\ MaxOperations \in Nat
    /\ Faults \subseteq {"admitted", "created"}
    /\ Aborts \subseteq {"submitter", "child"}
    /\ None \notin Parents \cup (Parents \X Nat)

KidsOf(p) == {p} \X (1 .. ChildCount[p])
Children == UNION {KidsOf(p) : p \in Parents}

Submitter(p) == <<"submit", p>>
Runner(p) == <<"parent", p>>
Kid(k) == <<"child", k>>
Control(x) == <<"control", x>>

Actors == {Submitter(p) : p \in Parents} \cup {Runner(p) : p \in Parents}
            \cup {Kid(k) : k \in Children} \cup {Control(x) : x \in Controllers}

VARIABLES
    parents,        \* _parents: accepted and not closed
    closedParents,  \* _closed_parent_ids
    cancelling,     \* _cancelling_parent_ids
    tails,          \* _channel_tails: the last admitted live parent of a channel
    predecessor,    \* the predecessor a parent was admitted behind
    turn,           \* (turn_generation, turn_order) of a parent
    generation,     \* _channel_turn_generations
    nextOrder,      \* _channel_next_turn_orders
    blocked,        \* _blocked_channels
    closed,         \* _closed; _accepting is its negation (see README)
    completed,      \* completed_child_ids of all parents
    semantic,       \* semantic_completed_child_ids of all parents
    closedEvents,   \* parents whose closed_event is set
    lockQueue,      \* _channel_admission_locks: holder first, then the waiters
    pc,             \* the await each actor is suspended in
    creating,       \* the child whose on_child_created a submitter awaits
    terminal,       \* the child whose on_child_terminal an actor awaits
    closing,        \* the parent whose on_parent_closed an actor awaits
    kill,           \* tasks with a cancellation request of the owner pending
    dropped,        \* child tasks cancelled from outside the owner
    outputs,        \* children in the order their output was submitted
    call,           \* the operation each controller executes
    operations      \* operations started so far

\* the groups of variables that whole families of actions leave alone
registry == <<parents, closedParents, tails, cancelling, closing>>
admission == <<predecessor, turn, nextOrder>>
progress == <<completed, semantic, closedEvents>>
tasks == <<kill, dropped>>
control == <<generation, blocked, closed, call, operations>>
vars == <<parents, closedParents, cancelling, tails, predecessor, turn,
          generation, nextOrder, blocked, closed, completed, semantic,
          closedEvents, lockQueue, pc, creating, terminal, closing, kill,
          dropped, outputs, call, operations>>

\* What a call of a cancelling operation keeps in its local variables.
Call(op, c, S, L, g) ==
    [op |-> op, channel |-> c, selected |-> S, locks |-> L, generation |-> g]

NoCall == Call("none", None, {}, {}, 0)

Init ==
    /\ parents = {}
    /\ closedParents = {}
    /\ cancelling = {}
    /\ tails = [c \in Channels |-> None]
    /\ predecessor = [p \in Parents |-> None]
    /\ turn = [p \in Parents |-> <<0, 0>>]
    /\ generation = [c \in Channels |-> 0]
    /\ nextOrder = [c \in Channels |-> 0]
    /\ blocked = {}
    /\ closed = FALSE
    /\ completed = {}
    /\ semantic = {}
    /\ closedEvents = {}
    /\ lockQueue = [c \in Channels |-> <<>>]
    /\ pc = [a \in Actors |-> "idle"]
    /\ creating = [p \in Parents |-> 0]
    /\ terminal = [a \in Actors |-> None]
    /\ closing = [a \in Actors |-> None]
    /\ kill = {}
    /\ dropped = {}
    /\ outputs = <<>>
    /\ call = [x \in Controllers |-> NoCall]
    /\ operations = 0

-----------------------------------------------------------------------------
(* Observations the code makes of its own state. *)

Registered == parents \cup closedParents

\* mutant: the per-channel and per-parent conditions are forgotten
CancellationOnlyOnClose(p) == closed

\* is_child_cancellation_requested, and for a live parent
\* _parent_cancellation_requested
CancellationRequested(p) ==
    \/ closed
    \/ ChannelOf[p] \in blocked
    \/ p \in cancelling

SemanticDone(p) == KidsOf(p) \subseteq semantic

\* mutant: a parent is closed once its children are semantically done
LastSemanticChild(p, done) == KidsOf(p) \subseteq semantic \cup done

\* mutant: a cancelled parent is not closed
LastChildUnlessCancelled(p, done) == KidsOf(p) \subseteq done /\ p \notin cancelling

\* The comparison that decides whether _terminalize_child closes the parent.
LastChild(p, done) == KidsOf(p) \subseteq done

RunnerLive(p) == pc[Runner(p)] \in {"wait", "await", "gather", "skip", "unwind"}
KidRunning(k) == pc[Kid(k)] \in {"started", "process", "queued", "output"}
KidLive(k) == KidRunning(k) \/ pc[Kid(k)] = "ending"

\* A task is resumed with CancelledError when a cancellation is pending on it.
Interrupted(k) == Kid(k) \in kill \/ k \in dropped

Holds(a, c) == lockQueue[c] # <<>> /\ Head(lockQueue[c]) = a
Release(a, c) ==
    /\ Holds(a, c)
    /\ lockQueue' = [lockQueue EXCEPT ![c] = Tail(@)]
Enqueue(a, c) == lockQueue' = [lockQueue EXCEPT ![c] = Append(@, a)]

\* An actor inside _terminalize_child does nothing else until it returns.
Free(a) == terminal[a] = None /\ closing[a] = None

Goto(a, label) == pc' = [pc EXCEPT ![a] = label]

\* Children of one parent run in sequence, parents in the order of their turns.
Before(j, k) ==
    IF j[1] = k[1]
      THEN j[2] < k[2]
      ELSE \/ turn[j[1]][1] < turn[k[1]][1]
           \/ turn[j[1]][1] = turn[k[1]][1] /\ turn[j[1]][2] < turn[k[1]][2]

FirstOf(S) == {k \in S : ~ \E j \in S : Before(j, k)}

Unfinished(S) == {k \in Children : k[1] \in S /\ k \notin completed}

-----------------------------------------------------------------------------
(* Terminal bookkeeping, entered by every kind of task. *)

\* The synchronous prefix of _terminalize_child: a closed parent and a
\* completed child are left alone, otherwise on_child_terminal is awaited.
Terminalize(a, k) ==
    terminal' = [terminal EXCEPT
        ![a] = IF k[1] \in parents /\ k \notin completed THEN k ELSE None]

\* _close_parent up to the await of on_parent_closed.
CloseParent(a, p) ==
    /\ parents' = parents \ {p}
    /\ closedParents' = closedParents \cup {p}
    /\ tails' = [c \in Channels |-> IF tails[c] = p THEN None ELSE tails[c]]
    /\ cancelling' = cancelling \ {p}
    /\ closing' = [closing EXCEPT ![a] = p]

\* on_child_terminal returns, raises or is cancelled: the finally block of
\* _terminalize_child runs in each case.
TerminalReturns(a) ==
    /\ terminal[a] # None
    /\ terminal' = [terminal EXCEPT ![a] = None]
    /\ completed' = completed \cup {terminal[a]}
    /\ semantic' = semantic \cup {terminal[a]}
    /\ LET p == terminal[a][1] IN
         IF p \in parents /\ LastChild(p, completed')
           THEN CloseParent(a, p)
           ELSE UNCHANGED registry
    /\ UNCHANGED <<admission, closedEvents, lockQueue, pc, creating, tasks,
                   outputs, control>>

\* on_parent_closed returns or raises: both events of the parent are set.
ClosedReturns(a) ==
    /\ closing[a] # None
    /\ closing' = [closing EXCEPT ![a] = None]
    /\ closedEvents' = closedEvents \cup {closing[a]}
    /\ UNCHANGED <<parents, closedParents, tails, cancelling, admission,
                   completed, semantic, lockQueue, pc, creating, terminal,
                   tasks, outputs, control>>

\* _terminalize_parent_remaining and _terminalize_selected_unfinished over the
\* parents in S, up to the await of the first on_child_terminal.
StartSweep(a, S) ==
    IF Unfinished(S) = {}
      THEN UNCHANGED terminal
      ELSE \E k \in FirstOf(Unfinished(S)) : Terminalize(a, k)

\* The next round of the same loop.
SweepOne(a, S) ==
    /\ Free(a)
    /\ Unfinished(S) # {}
    /\ StartSweep(a, S)
    /\ UNCHANGED <<registry, admission, progress, lockQueue, pc, creating,
                   tasks, outputs, control>>

-----------------------------------------------------------------------------
(* The body of _run_parent's loop and of its unwinding. *)

\* The loop moves on to the first child not completed: it ends, terminalizes
\* that child as cancelled, or starts its task.  f is pc before the move.
Loop(p, f) ==
    LET todo == FirstOf(KidsOf(p) \ completed) IN
    \/ /\ todo = {}
       /\ pc' = [f EXCEPT ![Runner(p)] = "done"]
       /\ UNCHANGED terminal
    \/ /\ CancellationRequested(p)
       /\ \E k \in todo : Terminalize(Runner(p), k)
       /\ pc' = [f EXCEPT ![Runner(p)] = "skip"]
    \/ /\ ~ CancellationRequested(p)
       /\ \E k \in todo :
            pc' = [f EXCEPT ![Runner(p)] = "await", ![Kid(k)] = "started"]
       /\ UNCHANGED terminal

\* CancelledError reached _run_parent: the request is consumed, the children
\* that are left are terminalized as cancelled.
Unwind(p) ==
    /\ Goto(Runner(p), "unwind")
    /\ StartSweep(Runner(p), {p})
    /\ kill' = kill \ {Runner(p)}

-----------------------------------------------------------------------------
(* submit *)

Reject(p) ==
    /\ pc[Submitter(p)] = "idle"
    /\ closed \/ ChannelOf[p] \in blocked
    /\ Goto(Submitter(p), "rejected")
    /\ UNCHANGED <<registry, admission, progress, lockQueue, creating, terminal,
                   tasks, outputs, control>>

\* The turn order is taken and the parent is registered before the lock; a free
\* lock is taken without suspending.
Register(p) ==
    LET c == ChannelOf[p] IN
    /\ pc[Submitter(p)] = "idle"
    /\ ~ closed /\ c \notin blocked
    /\ p \notin Registered
    /\ turn' = [turn EXCEPT ![p] = <<generation[c], nextOrder[c]>>]
    /\ nextOrder' = [nextOrder EXCEPT ![c] = @ + 1]
    /\ IF ChildCount[p] = 0
         THEN /\ closedParents' = closedParents \cup {p}
              /\ closing' = [closing EXCEPT ![Submitter(p)] = p]
              /\ Goto(Submitter(p), "return")
              /\ UNCHANGED <<parents, lockQueue>>
         ELSE /\ parents' = parents \cup {p}
              /\ Enqueue(Submitter(p), c)
              /\ Goto(Submitter(p), IF lockQueue[c] = <<>> THEN "admitting" ELSE "lock")
              /\ UNCHANGED <<closedParents, closing>>
    /\ UNCHANGED <<tails, cancelling, predecessor, progress, creating, terminal,
                   tasks, outputs, control>>

LockAcquired(p) ==
    /\ pc[Submitter(p)] = "lock"
    /\ Holds(Submitter(p), ChannelOf[p])
    /\ IF p \notin parents \/ CancellationRequested(p)
         THEN Goto(Submitter(p), "withdraw") /\ StartSweep(Submitter(p), {p})
         ELSE Goto(Submitter(p), "admitting") /\ UNCHANGED terminal
    /\ UNCHANGED <<registry, admission, progress, lockQueue, creating, tasks,
                   outputs, control>>

\* on_parent_admitted returned: the parent becomes the tail of its channel,
\* unless a cancellation was requested meanwhile.
Admitted(p) ==
    LET c == ChannelOf[p] IN
    /\ pc[Submitter(p)] = "admitting"
    /\ p \in parents /\ ~ CancellationRequested(p)
    /\ predecessor' = [predecessor EXCEPT ![p] = tails[c]]
    /\ tails' = [tails EXCEPT ![c] = p]
    /\ Release(Submitter(p), c)
    /\ creating' = [creating EXCEPT ![p] = 1]
    /\ Goto(Submitter(p), "create")
    /\ UNCHANGED <<parents, closedParents, cancelling, closing, turn, nextOrder,
                   progress, terminal, tasks, outputs, control>>

\* on_parent_admitted returned too late, or raised.
NotAdmitted(p) ==
    /\ pc[Submitter(p)] = "admitting"
    /\ p \notin parents \/ CancellationRequested(p) \/ "admitted" \in Faults
    /\ Goto(Submitter(p), "withdraw")
    /\ StartSweep(Submitter(p), {p})
    /\ UNCHANGED <<registry, admission, progress, lockQueue, creating, tasks,
                   outputs, control>>

\* The end of submit for a parent terminalized under the lock or after it.
Withdrawn(p) ==
    /\ pc[Submitter(p)] \in {"withdraw", "sweep"}
    /\ Free(Submitter(p))
    /\ Unfinished({p}) = {}
    /\ Goto(Submitter(p), "return")
    /\ IF pc[Submitter(p)] = "withdraw"
         THEN Release(Submitter(p), ChannelOf[p])
         ELSE UNCHANGED lockQueue
    /\ UNCHANGED <<registry, admission, progress, creating, terminal, tasks,
                   outputs, control>>

Withdraw(p) ==
    /\ pc[Submitter(p)] \in {"withdraw", "sweep"}
    /\ SweepOne(Submitter(p), {p})

\* mutant: the predecessor is not awaited
NeverWaits(p) == FALSE

\* semantic_done_event.wait() of the predecessor suspends.
WaitsForPredecessor(p) ==
    predecessor[p] # None /\ ~ SemanticDone(predecessor[p])

\* All children are created: the parent's task is started, eagerly, so that it
\* runs up to its first await in the same step.
StartRunner(p) ==
    LET f == [pc EXCEPT ![Submitter(p)] = "return"]
        todo == KidsOf(p) \ completed
    IN
    IF p \in Dual
      THEN /\ pc' = [a \in Actors |->
                        IF a \in {Kid(k) : k \in todo} THEN "started"
                        ELSE IF a = Runner(p) THEN "gather" ELSE f[a]]
           /\ UNCHANGED terminal
      ELSE IF WaitsForPredecessor(p)
      THEN /\ pc' = [f EXCEPT ![Runner(p)] = "wait"]
           /\ UNCHANGED terminal
      ELSE Loop(p, f)

\* mutant: the loop over the children runs one child too far
OneMoreChild(p) == creating[p] <= ChildCount[p]

MoreChildren(p) == creating[p] < ChildCount[p]

\* The loop of on_child_created calls moves on, or is over.
CreateNext(p) ==
    \/ /\ p \notin parents
       /\ Goto(Submitter(p), "return")
       /\ UNCHANGED <<creating, terminal>>
    \/ /\ p \in parents
       /\ MoreChildren(p)
       /\ creating' = [creating EXCEPT ![p] = @ + 1]
       /\ Goto(Submitter(p), "create")
       /\ UNCHANGED terminal
    \/ /\ p \in parents
       /\ ~ MoreChildren(p)
       /\ UNCHANGED creating
       /\ IF CancellationRequested(p)
            THEN Goto(Submitter(p), "sweep") /\ StartSweep(Submitter(p), {p})
            ELSE StartRunner(p)

ChildCreated(p) ==
    /\ \/ pc[Submitter(p)] = "create"
       \/ pc[Submitter(p)] = "createFailed" /\ Free(Submitter(p))
    /\ CreateNext(p)
    /\ UNCHANGED <<registry, admission, progress, lockQueue, tasks, outputs,
                   control>>

ChildCreationFails(p) ==
    /\ "created" \in Faults
    /\ pc[Submitter(p)] = "create"
    /\ Terminalize(Submitter(p), <<p, creating[p]>>)
    /\ Goto(Submitter(p), "createFailed")
    /\ UNCHANGED <<registry, admission, progress, lockQueue, creating, tasks,
                   outputs, control>>

\* The task that called submit is cancelled: the parent stays registered.
SubmitterCancelled(p) ==
    LET c == ChannelOf[p] IN
    /\ "submitter" \in Aborts
    /\ pc[Submitter(p)] \in {"lock", "admitting", "withdraw", "create",
                             "createFailed", "sweep"}
    /\ Free(Submitter(p))
    /\ Goto(Submitter(p), "aborted")
    /\ \/ /\ \A i \in DOMAIN lockQueue[c] : lockQueue[c][i] # Submitter(p)
          /\ UNCHANGED lockQueue
       \/ \E i \in DOMAIN lockQueue[c] :
            /\ lockQueue[c][i] = Submitter(p)
            /\ lockQueue' = [lockQueue EXCEPT
                   ![c] = SubSeq(@, 1, i - 1) \o SubSeq(@, i + 1, Len(@))]
    /\ UNCHANGED <<registry, admission, progress, creating, terminal, tasks,
                   outputs, control>>

-----------------------------------------------------------------------------
(* _run_parent *)

\* The next iteration of the sequential loop: after the predecessor's
\* semantic_done_event, after the current child's task, or after a child
\* skipped as cancelled.
LoopContinues(p) ==
    /\ Runner(p) \notin kill
    /\ \/ pc[Runner(p)] = "wait" /\ SemanticDone(predecessor[p])
       \/ pc[Runner(p)] = "await" /\ \A k \in KidsOf(p) : ~ KidLive(k)
       \/ pc[Runner(p)] = "skip" /\ Free(Runner(p))
    /\ Loop(p, pc)
    /\ UNCHANGED <<registry, admission, progress, lockQueue, creating, tasks,
                   outputs, control>>

\* gather of the dual-target runners: it returns when all returned, and raises
\* as soon as one of them was cancelled.
Gathered(p) ==
    /\ pc[Runner(p)] = "gather"
    /\ Runner(p) \notin kill
    /\ \A k \in KidsOf(p) : ~ KidLive(k) /\ pc[Kid(k)] # "raised"
    /\ Goto(Runner(p), "done")
    /\ UNCHANGED <<registry, admission, progress, lockQueue, creating, terminal,
                   tasks, outputs, control>>

RunnerCancelled(p) ==
    LET kidsDone == \A k \in KidsOf(p) : ~ KidLive(k) IN
    /\ \/ pc[Runner(p)] = "gather" /\ \E k \in KidsOf(p) : pc[Kid(k)] = "raised"
       \/ /\ Runner(p) \in kill
          /\ \/ pc[Runner(p)] = "wait"
             \/ pc[Runner(p)] = "skip" /\ Free(Runner(p))
             \/ pc[Runner(p)] \in {"await", "gather"} /\ kidsDone
    /\ Unwind(p)
    /\ UNCHANGED <<registry, admission, progress, lockQueue, creating, dropped,
                   outputs, control>>

\* A second cancellation interrupts the unwinding.
RunnerSweeps(p) ==
    /\ pc[Runner(p)] = "unwind"
    /\ Runner(p) \notin kill
    /\ SweepOne(Runner(p), {p})

RunnerEnds(p) ==
    /\ pc[Runner(p)] = "unwind"
    /\ Free(Runner(p))
    /\ Unfinished({p}) = {} \/ Runner(p) \in kill
    /\ Goto(Runner(p), "done")
    /\ UNCHANGED <<registry, admission, progress, lockQueue, creating, terminal,
                   tasks, outputs, control>>

-----------------------------------------------------------------------------
(* _run_child and _execute_child *)

\* mutant: an output waits for the semantic event of the predecessor
OutputReadySemantically(p) ==
    p \in Dual \/ predecessor[p] = None \/ SemanticDone(predecessor[p])

\* The predecessor whose closed_event an output waits for.
OutputReady(p) ==
    p \in Dual \/ predecessor[p] = None \/ predecessor[p] \in closedEvents

\* The result carries an output, which is submitted, or none.
Deliver(k) ==
    \/ /\ outputs' = Append(outputs, k)
       /\ Goto(Kid(k), "output")
       /\ UNCHANGED terminal
    \/ /\ Terminalize(Kid(k), k)
       /\ Goto(Kid(k), "ending")
       /\ UNCHANGED outputs

ChildStarted(k) ==
    /\ pc[Kid(k)] = "started"
    /\ ~ Interrupted(k)
    /\ Goto(Kid(k), "process")
    /\ UNCHANGED <<registry, admission, progress, lockQueue, creating, terminal,
                   tasks, outputs, control>>

\* process_child returned: the result of a cancelled child is discarded, the
\* result of another child is semantically done and waits for its turn.
ChildProcessed(k) ==
    LET p == k[1] IN
    /\ pc[Kid(k)] = "process"
    /\ ~ Interrupted(k)
    /\ IF CancellationRequested(p)
         THEN /\ Terminalize(Kid(k), k)
              /\ Goto(Kid(k), "ending")
              /\ UNCHANGED <<semantic, outputs>>
         ELSE /\ semantic' = semantic \cup {k}
              /\ IF OutputReady(p)
                   THEN Deliver(k)
                   ELSE Goto(Kid(k), "queued") /\ UNCHANGED <<terminal, outputs>>
    /\ UNCHANGED <<registry, admission, completed, closedEvents, lockQueue,
                   creating, tasks, control>>

PredecessorClosed(k) ==
    /\ pc[Kid(k)] = "queued"
    /\ ~ Interrupted(k)
    /\ OutputReady(k[1])
    /\ Deliver(k)
    /\ UNCHANGED <<registry, admission, progress, lockQueue, creating, tasks,
                   control>>

\* submit_translation_output returned or raised.
OutputReturns(k) ==
    /\ pc[Kid(k)] = "output"
    /\ ~ Interrupted(k)
    /\ Terminalize(Kid(k), k)
    /\ Goto(Kid(k), "ending")
    /\ UNCHANGED <<registry, admission, progress, lockQueue, creating, tasks,
                   outputs, control>>

\* CancelledError is thrown at the child's await; its runner terminalizes it.
ChildInterrupted(k) ==
    /\ KidRunning(k)
    /\ Interrupted(k)
    /\ Terminalize(Kid(k), k)
    /\ Goto(Kid(k), "ending")
    /\ UNCHANGED <<registry, admission, progress, lockQueue, creating, tasks,
                   outputs, control>>

\* The runner of the child returns, or raises if the parent was cancelled.
ChildEnds(k) ==
    /\ pc[Kid(k)] = "ending"
    /\ Free(Kid(k))
    /\ Goto(Kid(k), IF Kid(k) \in kill THEN "raised" ELSE "done")
    /\ UNCHANGED <<registry, admission, progress, lockQueue, creating, terminal,
                   tasks, outputs, control>>

\* clear_live_translation_state cancels the tasks it was given.
ChildDropped(k) ==
    /\ "child" \in Aborts
    /\ KidRunning(k) /\ k \notin dropped
    /\ dropped' = dropped \cup {k}
    /\ UNCHANGED <<registry, admission, progress, lockQueue, pc, creating,
                   terminal, kill, outputs, control>>

-----------------------------------------------------------------------------
(* cancel_pending, close_channel_ingress, open_channel_ingress, close *)

\* mutant: the child tasks are not reached
KilledAlone(S) == {Runner(p) : p \in {q \in S : RunnerLive(q)}}

\* Cancelling a parent task cancels the child tasks it awaits.
KilledWith(S) ==
    {Runner(p) : p \in {q \in S : RunnerLive(q)}}
      \cup {Kid(k) : k \in {j \in Children :
                j[1] \in S /\ KidLive(j) /\ RunnerLive(j[1])}}

\* _advance_turn_generation
Advanced(C) ==
    /\ generation' = [c \in Channels |->
                        IF c \in C THEN generation[c] + 1 ELSE generation[c]]
    /\ nextOrder' = [c \in Channels |-> IF c \in C THEN 0 ELSE nextOrder[c]]

Called(x, op) ==
    /\ op \in Operations
    /\ pc[Control(x)] = "idle"
    /\ operations < MaxOperations
    /\ operations' = operations + 1

\* mutant: only the parents whose task runs are selected
SelectedRunning(c) == {p \in parents : ChannelOf[p] = c /\ RunnerLive(p)}

Selected(c) == {p \in parents : ChannelOf[p] = c}

\* mutant: the channel keeps accepting turns while the lock is awaited
BlockLater(c) == UNCHANGED blocked

Block(c) == blocked' = blocked \cup {c}

\* The critical section of _cancel_channel up to its first await: the tasks of
\* the selected parents are cancelled; if none runs, the sweep starts at once.
CancelSelected(x, op, c, g) ==
    /\ cancelling' = cancelling \cup Selected(c)
    /\ kill' = kill \cup KilledWith(Selected(c))
    /\ Block(c)
    /\ call' = [call EXCEPT ![x] = Call(op, c, Selected(c), {}, g)]
    /\ IF \E p \in Selected(c) : RunnerLive(p)
         THEN Goto(Control(x), "gather") /\ UNCHANGED terminal
         ELSE Goto(Control(x), "sweep") /\ StartSweep(Control(x), Selected(c))

\* The finally block of _cancel_channel and the rest of its caller.
Unblock(op, c) ==
    blocked' = IF op = "closeIngress" THEN blocked \cup {c} ELSE blocked \ {c}

\* cancel_pending(channel=c) and close_channel_ingress(c): the generation is
\* retired and the channel blocked before the lock is asked for.
BeginsCancel(x, op, c) ==
    /\ op \in {"cancel", "closeIngress"}
    /\ Called(x, op)
    /\ op = "cancel" => ~ closed
    /\ Advanced({c})
    /\ UNCHANGED <<parents, closedParents, tails, closing, predecessor, turn,
                   progress, creating, dropped, outputs, closed>>

CancelQueued(x, op, c) ==
    /\ BeginsCancel(x, op, c)
    /\ lockQueue[c] # <<>>
    /\ Enqueue(Control(x), c)
    /\ Block(c)
    /\ Goto(Control(x), "lock")
    /\ call' = [call EXCEPT ![x] = Call(op, c, {}, {}, generation[c] + 1)]
    /\ UNCHANGED <<cancelling, kill, terminal>>

CancelStarts(x, op, c) ==
    /\ BeginsCancel(x, op, c)
    /\ lockQueue[c] = <<>>
    /\ Selected(c) # {}
    /\ Enqueue(Control(x), c)
    /\ CancelSelected(x, op, c, generation[c] + 1)

CancelFindsNothing(x, op, c) ==
    /\ BeginsCancel(x, op, c)
    /\ lockQueue[c] = <<>>
    /\ Selected(c) = {}
    /\ Unblock(op, c)
    /\ UNCHANGED <<cancelling, kill, terminal, lockQueue, pc, call>>

OpenIngress(x, c) ==
    /\ Called(x, "openIngress")
    /\ ~ closed
    /\ blocked' = blocked \ {c}
    /\ UNCHANGED <<registry, admission, progress, lockQueue, pc, creating,
                   terminal, tasks, outputs, generation, closed, call>>

\* The lock is handed over to a waiting cancellation.
Select(x) ==
    /\ pc[Control(x)] = "lock"
    /\ Holds(Control(x), call[x].channel)
    /\ Selected(call[x].channel) # {}
    /\ CancelSelected(x, call[x].op, call[x].channel, call[x].generation)
    /\ UNCHANGED <<parents, closedParents, tails, closing, admission, progress,
                   lockQueue, creating, dropped, outputs, generation, closed,
                   operations>>

\* Every selected parent has its closed_event set, or none was selected.
CancelReturns(x) ==
    LET c == call[x].channel IN
    /\ \/ /\ pc[Control(x)] = "lock"
          /\ Selected(c) = {}
       \/ /\ pc[Control(x)] = "sweep"
          /\ Free(Control(x))
          /\ Unfinished(call[x].selected) = {}
          /\ call[x].selected \subseteq closedEvents
    /\ Release(Control(x), c)
    /\ Unblock(call[x].op, c)
    /\ Goto(Control(x), "idle")
    /\ call' = [call EXCEPT ![x] = NoCall]
    /\ UNCHANGED <<registry, admission, progress, creating, terminal, tasks,
                   outputs, generation, closed, operations>>

TasksEnded(x) ==
    /\ pc[Control(x)] = "gather"
    /\ \A p \in call[x].selected : ~ RunnerLive(p)
    /\ Goto(Control(x), "sweep")
    /\ StartSweep(Control(x), call[x].selected)
    /\ UNCHANGED <<registry, admission, progress, lockQueue, creating, tasks,
                   outputs, control>>

ControlSweeps(x) ==
    /\ pc[Control(x)] \in {"sweep", "closeSweep"}
    /\ SweepOne(Control(x), call[x].selected)

BeginClose(x) ==
    /\ Called(x, "close")
    /\ ~ closed
    /\ Advanced(Channels)
    /\ closed' = TRUE
    /\ cancelling' = cancelling \cup parents
    /\ kill' = kill \cup KilledWith(parents)
    /\ Goto(Control(x), "drain")
    /\ call' = [call EXCEPT ![x] = Call("close", None, {}, Channels, 0)]
    /\ UNCHANGED <<parents, closedParents, tails, closing, predecessor, turn,
                   progress, lockQueue, creating, terminal, dropped, outputs,
                   blocked>>

\* _drain_admission_locks takes and leaves the locks one after the other.
DrainLock(x, c) ==
    /\ pc[Control(x)] = "drain"
    /\ c \in call[x].locks
    /\ IF lockQueue[c] = <<>>
         THEN /\ call' = [call EXCEPT ![x].locks = @ \ {c}]
              /\ UNCHANGED <<lockQueue, pc>>
         ELSE /\ Enqueue(Control(x), c)
              /\ Goto(Control(x), "drainLock")
              /\ call' = [call EXCEPT ![x].channel = c]
    /\ UNCHANGED <<registry, admission, progress, creating, terminal, tasks,
                   outputs, generation, blocked, closed, operations>>

LockDrained(x) ==
    LET c == call[x].channel IN
    /\ pc[Control(x)] = "drainLock"
    /\ Release(Control(x), c)
    /\ call' = [call EXCEPT ![x].locks = @ \ {c}]
    /\ Goto(Control(x), "drain")
    /\ UNCHANGED <<registry, admission, progress, creating, terminal, tasks,
                   outputs, generation, blocked, closed, operations>>

\* LifecycleScope.close cancels every task of the scope directly.
CloseScope(x) ==
    /\ pc[Control(x)] = "drain"
    /\ call[x].locks = {}
    /\ kill' = kill \cup {Runner(p) : p \in {q \in Parents : RunnerLive(q)}}
                    \cup {Kid(k) : k \in {j \in Children : KidLive(j)}}
    /\ Goto(Control(x), "scope")
    /\ UNCHANGED <<registry, admission, progress, lockQueue, creating, terminal,
                   dropped, outputs, control>>

\* mutant: the scope waits for the parent tasks only
ParentTasksEnded == \A p \in Parents : ~ RunnerLive(p)

ScopeTasksEnded ==
    /\ \A p \in Parents : ~ RunnerLive(p)
    /\ \A k \in Children : ~ KidLive(k)

ScopeClosed(x) ==
    /\ pc[Control(x)] = "scope"
    /\ ScopeTasksEnded
    /\ Goto(Control(x), "closeSweep")
    /\ StartSweep(Control(x), parents)
    /\ call' = [call EXCEPT ![x].selected = parents]
    /\ UNCHANGED <<registry, admission, progress, lockQueue, creating, tasks,
                   outputs, generation, blocked, closed, operations>>

CloseReturns(x) ==
    /\ pc[Control(x)] = "closeSweep"
    /\ Free(Control(x))
    /\ Unfinished(call[x].selected) = {}
    /\ tails' = [c \in Channels |-> None]
    /\ Goto(Control(x), "idle")
    /\ call' = [call EXCEPT ![x] = NoCall]
    /\ UNCHANGED <<parents, closedParents, cancelling, closing, admission,
                   progress, lockQueue, creating, terminal, tasks, outputs,
                   generation, blocked, closed, operations>>

-----------------------------------------------------------------------------
(* The specification *)

SubmitStep(p) ==
    \/ LockAcquired(p) \/ Admitted(p) \/ NotAdmitted(p)
    \/ Withdraw(p) \/ Withdrawn(p)
    \/ ChildCreated(p) \/ ChildCreationFails(p)

RunStep(p) ==
    \/ LoopContinues(p) \/ Gathered(p) \/ RunnerCancelled(p)
    \/ RunnerSweeps(p) \/ RunnerEnds(p)

ChildStep(k) ==
    \/ ChildStarted(k) \/ ChildProcessed(k) \/ PredecessorClosed(k)
    \/ OutputReturns(k) \/ ChildInterrupted(k) \/ ChildEnds(k)

ControlStep(x) ==
    \/ Select(x) \/ TasksEnded(x) \/ ControlSweeps(x) \/ CancelReturns(x)
    \/ (\E c \in Channels : DrainLock(x, c)) \/ LockDrained(x)
    \/ CloseScope(x) \/ ScopeClosed(x) \/ CloseReturns(x)

AdapterReturns(a) == TerminalReturns(a) \/ ClosedReturns(a)

\* Calls that come from outside, in any order and number.
Environment ==
    \/ \E p \in Parents : Reject(p) \/ Register(p) \/ SubmitterCancelled(p)
    \/ \E k \in Children : ChildDropped(k)
    \/ \E x \in Controllers :
         \/ BeginClose(x)
         \/ \E c \in Channels :
              \/ OpenIngress(x, c)
              \/ \E op \in {"cancel", "closeIngress"} :
                   \/ CancelQueued(x, op, c) \/ CancelStarts(x, op, c)
                   \/ CancelFindsNothing(x, op, c)

Next ==
    \/ Environment
    \/ \E a \in Actors : AdapterReturns(a)
    \/ \E p \in Parents : SubmitStep(p) \/ RunStep(p)
    \/ \E k \in Children : ChildStep(k)
    \/ \E x \in Controllers : ControlStep(x)

Spec == Init /\ [][Next]_vars

\* The event loop resumes every task that can go on: adapters and provider
\* calls return, and a lock is handed over in the order of its queue.
Fairness ==
    /\ \A p \in Parents :
         /\ WF_vars(AdapterReturns(Submitter(p)) \/ SubmitStep(p))
         /\ WF_vars(AdapterReturns(Runner(p)) \/ RunStep(p))
    /\ \A k \in Children : WF_vars(AdapterReturns(Kid(k)) \/ ChildStep(k))
    /\ \A x \in Controllers :
         WF_vars(AdapterReturns(Control(x)) \/ ControlStep(x))

FairSpec == Spec /\ Fairness

-----------------------------------------------------------------------------
(* Properties *)

PcValues ==
    {"idle", "rejected", "lock", "admitting", "withdraw", "create",
     "createFailed", "sweep", "return", "aborted", "wait", "await", "gather",
     "skip", "unwind", "started", "process", "queued", "output", "ending",
     "raised", "done", "drain", "drainLock", "scope", "closeSweep"}

Calls == [op : OperationNames \cup {"none"}, channel : Channels \cup {None},
          selected : SUBSET Parents, locks : SUBSET Channels, generation : Nat]

\* Every variable stays in the set of values the code can give it.
TypeOK ==
    /\ parents \subseteq Parents /\ closedParents \subseteq Parents
    /\ cancelling \subseteq Parents /\ closedEvents \subseteq Parents
    /\ tails \in [Channels -> Parents \cup {None}]
    /\ predecessor \in [Parents -> Parents \cup {None}]
    /\ turn \in [Parents -> Nat \X Nat]
    /\ generation \in [Channels -> Nat] /\ nextOrder \in [Channels -> Nat]
    /\ blocked \subseteq Channels /\ closed \in BOOLEAN
    /\ completed \subseteq Children /\ semantic \subseteq Children
    /\ lockQueue \in [Channels -> Seq(Actors)]
    /\ pc \in [Actors -> PcValues]
    /\ creating \in [Parents -> Nat]
    /\ terminal \in [Actors -> Children \cup {None}]
    /\ closing \in [Actors -> Parents \cup {None}]
    /\ kill \subseteq Actors /\ dropped \subseteq Children
    /\ outputs \in Seq(Children)
    /\ call \in [Controllers -> Calls]
    /\ operations \in Nat

\* A parent leaves the live set in the step that completes its last child,
\* whichever task completes it, and never before: _close_parent is called from
\* five places, under and outside the lock.
ClosedExactlyWhenComplete ==
    /\ parents \cap closedParents = {}
    /\ \A p \in parents : ~ (KidsOf(p) \subseteq completed)
    /\ \A p \in closedParents : KidsOf(p) \subseteq completed

\* Only a child that is not terminal yet, of a parent that is still live, can
\* go on executing: a task left running by a cancellation, a failed creation
\* or a shutdown has a cancellation pending.
LateChildrenAreInterrupted ==
    \A k \in Children :
        KidRunning(k) /\ ~ Interrupted(k) =>
            k[1] \in parents /\ k \notin completed

\* "closed parents reject child completion and output submission": an output
\* is submitted only for an unfinished child of a live parent, and never once
\* close() has begun, although _execute_child checks neither before submitting.
LateCallbackRule ==
    [][outputs' # outputs =>
        LET k == outputs'[Len(outputs')] IN
        k[1] \in parents /\ k \notin completed /\ ~ closed]_vars

\* The outputs of a channel follow the order its turns were submitted in, and
\* the order of the children within a turn; the submission of one has returned
\* before the next is made, so that the receiver may await without reordering.
OutputsInTurnOrder ==
    \A i, j \in 1 .. Len(outputs) :
        i < j /\ ChannelOf[outputs[i][1]] = ChannelOf[outputs[j][1]] =>
            /\ Before(outputs[i], outputs[j])
            /\ pc[Kid(outputs[i])] # "output"

\* "peer LLM admission waits on predecessor semantic completion": a child is
\* processed only when every live earlier turn of its channel is semantically
\* done, not the immediate predecessor alone.
SemanticGate ==
    \A k \in Children : pc[Kid(k)] = "process" /\ ~ Interrupted(k) =>
        \A p \in parents :
            ChannelOf[p] = ChannelOf[k[1]] /\ Before(<<p, 1>>, k) /\ p # k[1] =>
                SemanticDone(p)

\* cancel_pending and close_channel_ingress return only when every turn of an
\* earlier generation of the channel is closed, also those whose submitter waits
\* for the lock, creates children or is gone: the caller resets the channel next.
CancelDrainsGeneration ==
    [][\A x \in Controllers :
        call[x].op \in {"cancel", "closeIngress"} /\ call'[x].op = "none" =>
            \A p \in Registered :
                /\ ChannelOf[p] = call[x].channel
                /\ turn[p][1] < call[x].generation
                => p \in closedParents]_vars

\* A cancellation selects only turns submitted before it began: the channel
\* stays blocked while the lock is awaited (and while no other caller unblocks it).
CancelSparesLaterTurns ==
    \A x \in Controllers :
        call[x].op \in {"cancel", "closeIngress"} =>
            \A p \in call[x].selected : turn[p][1] < call[x].generation

\* "Retired work must not ... publish user-visible output" (ARCHITECTURE.md): a
\* turn whose generation was retired submits no output.
RetiredTurnsPublishNothing ==
    [][outputs' # outputs =>
        LET p == outputs'[Len(outputs')][1] IN
        turn[p][1] = generation[ChannelOf[p]]]_vars

\* The ingress of c is closed and no cancellation of c is under way.
IngressShut(c) == c \in blocked /\ \A x \in Controllers : call[x].channel # c

\* A channel whose ingress was closed accepts turns again only after
\* open_channel_ingress: cancelling work comes after stopping ingress in the
\* shutdown order of ARCHITECTURE.md.
ClosedIngressStaysClosed ==
    [][\A c \in Channels : IngressShut(c) /\ c \notin blocked' =>
        \E x \in Controllers : OpenIngress(x, c)]_vars

\* When close() returns no turn is left live and no task of the owner runs.
CloseLeavesNothing ==
    [][\A x \in Controllers :
        call[x].op = "close" /\ call'[x].op = "none" =>
            /\ parents = {}
            /\ \A p \in Parents : ~ RunnerLive(p)
            /\ \A k \in Children : ~ KidLive(k)]_vars

\* Every turn that was accepted is closed in the end.
EveryTurnCloses ==
    \A p \in Parents : (p \in parents) ~> (p \in closedEvents)

\* Every cancelling operation returns: no lock, event or task it waits for
\* waits for it.
EveryOperationReturns ==
    \A x \in Controllers : (call[x].op # "none") ~> (call[x].op = "none")

\* The owner implements the ledger of turns.
Ledger == INSTANCE TurnLedger WITH
    Turns <- Parents,
    Parts <- [p \in Parents |-> KidsOf(p)],
    open <- parents,
    closed <- closedParents,
    finished <- completed,
    published <- {outputs[i] : i \in 1 .. Len(outputs)}

ImplementsLedger == Ledger!Spec
=============================================================================
