------------------------- MODULE TranslationTurnInv -------------------------
(***************************************************************************)
(* The inductive invariant behind the safety properties of                 *)
(* TranslationTurn: which task may be where while another one terminalizes *)
(* a child, and who has been cancelled by then.  A run checks it on a      *)
(* small instance, TranslationTurnProofs proves it.                        *)
(***************************************************************************)
EXTENDS TranslationTurn

Executing(k) == KidRunning(k) /\ ~ Interrupted(k)

\* The labels each kind of task can be at.
RolesOK ==
    /\ \A p \in Parents :
        /\ pc[Submitter(p)] \in {"idle", "rejected", "lock", "admitting",
              "withdraw", "create", "createFailed", "sweep", "return", "aborted"}
        /\ pc[Runner(p)] \in {"idle", "wait", "await", "gather", "skip",
                              "unwind", "done"}
    /\ \A k \in Children :
        pc[Kid(k)] \in {"idle", "started", "process", "queued", "output",
                        "ending", "raised", "done"}

\* A submitter works on a registered parent whose task is not started yet.
SubmittersOK ==
    \A p \in Parents :
        /\ pc[Submitter(p)] \notin {"idle", "rejected"} => p \in Registered
        /\ pc[Submitter(p)] \in {"lock", "admitting"} => ChildCount[p] > 0
        /\ pc[Submitter(p)] = "create" => creating[p] \in 1 .. ChildCount[p]
        /\ pc[Submitter(p)] \in {"idle", "rejected", "lock", "admitting",
                "withdraw", "create", "createFailed", "sweep"} =>
             pc[Runner(p)] = "idle"
        /\ pc[Submitter(p)] = "createFailed" => creating[p] \in 1 .. ChildCount[p]
        /\ p \notin Registered => \A k \in KidsOf(p) : k \notin completed

\* Each task terminalizes the children it is responsible for, and only there.
TerminalsOK ==
    /\ \A a \in Actors : terminal[a] # None =>
         terminal[a] \in Children /\ terminal[a][1] \in Registered
    /\ \A a \in Actors : closing[a] # None => closing[a] \in closedParents
    /\ \A p \in Parents :
        /\ terminal[Submitter(p)] # None =>
             /\ terminal[Submitter(p)] \in KidsOf(p)
             /\ pc[Submitter(p)] \in {"withdraw", "createFailed", "sweep"}
        /\ terminal[Runner(p)] # None =>
             /\ terminal[Runner(p)] \in KidsOf(p)
             /\ pc[Runner(p)] \in {"skip", "unwind"}
    /\ \A k \in Children : terminal[Kid(k)] # None =>
         terminal[Kid(k)] = k /\ pc[Kid(k)] = "ending"
    /\ \A x \in Controllers : terminal[Control(x)] # None =>
         /\ terminal[Control(x)][1] \in call[x].selected
         /\ pc[Control(x)] \in {"sweep", "closeSweep"}

\* A child's task runs only while its parent's task waits for it, or has been
\* cancelled together with it.
RunnersOK ==
    \A p \in Parents :
        /\ pc[Runner(p)] # "idle" => p \in Registered
        /\ pc[Runner(p)] = "idle" => \A k \in KidsOf(p) : pc[Kid(k)] = "idle"
        /\ pc[Runner(p)] \in {"wait", "skip"} => \A k \in KidsOf(p) : ~ KidLive(k)
        /\ pc[Runner(p)] \in {"unwind", "done"} =>
             \A k \in KidsOf(p) : ~ Executing(k)

\* A cancellation reaches every running child of a parent, and the parent.
KillsOK ==
    /\ \A p \in Parents : Runner(p) \in kill => pc[Runner(p)] # "idle"
    /\ \A k \in Children : Kid(k) \in kill => pc[Kid(k)] # "idle"
    /\ \A j, k \in Children :
        Kid(j) \in kill /\ j[1] = k[1] /\ KidRunning(k) => Kid(k) \in kill
    /\ \A k \in Children :
        /\ Kid(k) \in kill =>
             Runner(k[1]) \in kill \/ pc[Runner(k[1])] \in {"unwind", "done"}
        /\ pc[Kid(k)] = "raised" => Kid(k) \in kill

\* A child whose task ended is completed.
EndedOK ==
    \A k \in Children :
        /\ pc[Kid(k)] \in {"raised", "done"} => k \in completed
        /\ pc[Kid(k)] = "ending" /\ terminal[Kid(k)] = None => k \in completed

\* A parent selected by a cancellation starts no task any more, and none of its
\* children executes once the sweep over it has begun.
SelectionsOK ==
    \A x \in Controllers :
      /\ pc[Control(x)] \in {"drain", "drainLock", "scope", "closeSweep"} => closed
      /\ pc[Control(x)] \in {"lock", "gather", "sweep", "drainLock"} =>
           call[x].channel \in Channels
      /\ \A p \in call[x].selected :
          /\ p \in Registered
          /\ p \in cancelling \/ p \notin parents \/ closed
          /\ pc[Control(x)] \in {"sweep", "closeSweep"} =>
               \A k \in KidsOf(p) : ~ Executing(k)

ClosedOK == closed => \A k \in Children : ~ Executing(k)

OutputsOK ==
    \A i \in 1 .. Len(outputs) :
        pc[Kid(outputs[i])] \in {"output", "ending", "raised", "done"}

\* The labels of the operations that cancel a channel, and of close().
CancelLabels == {"lock", "gather", "sweep"}
CloseLabels == {"drain", "drainLock", "scope", "closeSweep"}

\* An operation is where its kind of operation can be; the turns of the channel it
\* cancels are of generations that have been advanced.
OperationsOK ==
    \A x \in Controllers :
        /\ call[x].op \in {"cancel", "closeIngress"} <=> pc[Control(x)] \in CancelLabels
        /\ call[x].op = "close" <=> pc[Control(x)] \in CloseLabels
        /\ pc[Control(x)] \in CancelLabels =>
             /\ call[x].generation <= generation[call[x].channel]
             /\ \A p \in call[x].selected : ChannelOf[p] = call[x].channel

\* A cancellation has selected every live turn of the generations it retires, and
\* close() every live turn, after the last task of the owner ended.
DrainOK ==
    \A x \in Controllers :
        /\ pc[Control(x)] \in {"gather", "sweep"} =>
             \A p \in parents :
                 ChannelOf[p] = call[x].channel /\ turn[p][1] < call[x].generation
                   => p \in call[x].selected
        /\ pc[Control(x)] = "closeSweep" =>
             parents \subseteq call[x].selected /\ ScopeTasksEnded

IInv ==
    /\ TypeOK
    /\ ClosedExactlyWhenComplete
    /\ RolesOK
    /\ SubmittersOK
    /\ TerminalsOK
    /\ RunnersOK
    /\ KillsOK
    /\ EndedOK
    /\ LateChildrenAreInterrupted
    /\ SelectionsOK
    /\ ClosedOK
    /\ OutputsOK
    /\ OperationsOK
    /\ DrainOK
=============================================================================
