------------------------- MODULE TranslationTurnOrder -------------------------
(***************************************************************************)
(* The inductive invariants behind the order of the turns of a channel:    *)
(* which turns a cancellation selects, whom a child may be processed ahead *)
(* of, and the order of the outputs.  Runs check them on small instances,  *)
(* TranslationTurnProofs proves them.                                      *)
(***************************************************************************)
EXTENDS TranslationTurnInv

\* What the order of the turns rests on.  Two operations at a time may unblock a
\* channel for each other, a child that cannot be created and a submitter that is
\* cancelled leave the chain of their channel, and the two children of a dual turn
\* run side by side.
OneController == \A x, y \in Controllers : x = y

Sequential ==
    /\ OneController
    /\ Dual = {} /\ "created" \notin Faults /\ "submitter" \notin Aborts

\* p was submitted before q, to the same channel.
Earlier(p, q) ==
    /\ ChannelOf[p] = ChannelOf[q]
    /\ \/ turn[p][1] < turn[q][1]
       \/ turn[p][1] = turn[q][1] /\ turn[p][2] < turn[q][2]

\* The submitter of p has, or waits for, the lock of its channel.
Queued(p) == pc[Submitter(p)] \in {"lock", "admitting", "withdraw"}

Calm(p) == ChannelOf[p] \notin blocked

\* Turns are numbered in the order they are submitted.
TurnsOK ==
    \A p \in Registered :
        /\ pc[Submitter(p)] \notin {"idle", "rejected"}
        /\ turn[p][1] <= generation[ChannelOf[p]]
        /\ turn[p][1] = generation[ChannelOf[p]] => turn[p][2] < nextOrder[ChannelOf[p]]
        /\ \A q \in Registered :
             ChannelOf[p] = ChannelOf[q] /\ p # q => Earlier(p, q) \/ Earlier(q, p)

\* While a channel is cancelled it is blocked, and its turns are of the generations
\* the operation retired.
SparesOK ==
    \A x \in Controllers : pc[Control(x)] \in CancelLabels =>
        /\ call[x].channel \in blocked
        /\ \A p \in Registered :
             ChannelOf[p] = call[x].channel => turn[p][1] < call[x].generation

SpareInv == IInv /\ TurnsOK /\ SparesOK

\* A channel that stays blocked after its cancellation has no live turn.
BlockedOK ==
    \A p \in parents : ChannelOf[p] \in blocked =>
        \E x \in Controllers :
            pc[Control(x)] \in CancelLabels /\ call[x].channel = ChannelOf[p]

\* The admission lock serves the submitters in the order of their turns.
QueuesOK ==
    /\ \A p \in Parents :
        /\ Queued(p) => \E i \in DOMAIN lockQueue[ChannelOf[p]] :
                           lockQueue[ChannelOf[p]][i] = Submitter(p)
        /\ pc[Submitter(p)] \in {"admitting", "withdraw"} =>
             Holds(Submitter(p), ChannelOf[p])
    /\ \A c \in Channels : \A i \in DOMAIN lockQueue[c] : \A p \in Parents :
         lockQueue[c][i] = Submitter(p) =>
             /\ Queued(p) /\ ChannelOf[p] = c
             /\ \A j \in DOMAIN lockQueue[c] : \A q \in Parents :
                  j > i /\ lockQueue[c][j] = Submitter(q) => Earlier(p, q)

\* No submitter is gone, and a child's task runs under the one of its parent.
StagesOK ==
    /\ \A p \in Parents :
        /\ pc[Submitter(p)] \notin {"createFailed", "aborted"}
        /\ pc[Runner(p)] # "gather"
        /\ p \notin Registered => KidsOf(p) \cap semantic = {}
    /\ \A k \in Children : KidLive(k) => pc[Runner(k[1])] = "await"
    /\ completed \subseteq semantic
    /\ cancelling \subseteq parents

\* Whoever is cancelled was selected; turns of a channel that is not blocked are
\* not cancelled.
CalmOK ==
    /\ \A p \in parents :
        Runner(p) \in kill \/ pc[Runner(p)] \in {"unwind", "done"} => p \in cancelling
    /\ \A k \in Children : Kid(k) \in kill /\ k[1] \in parents => k[1] \in cancelling
    /\ \A p \in parents : Calm(p) =>
        /\ p \notin cancelling
        /\ pc[Submitter(p)] # "sweep" /\ pc[Runner(p)] # "skip"

\* The tail of a channel is its last admitted live turn.  Without a tail the turns
\* that are still live have nothing left to process.
TailsOK ==
    \A c \in Channels :
        /\ tails[c] # None =>
             /\ tails[c] \in parents /\ ChannelOf[tails[c]] = c /\ ~ Queued(tails[c])
             /\ \A q \in parents : ChannelOf[q] = c /\ ~ Queued(q) =>
                    q = tails[c] \/ Earlier(q, tails[c])
        /\ tails[c] = None /\ c \notin blocked =>
             \A q \in parents : ChannelOf[q] = c /\ ~ Queued(q) => SemanticDone(q)

\* Turns are admitted in the order they were submitted, each behind the one before
\* it, so that what is done with the predecessor is done with all earlier ones.
ChainOK ==
    \A p \in parents : ~ Queued(p) =>
        /\ predecessor[p] # None =>
             predecessor[p] \in Registered /\ Earlier(predecessor[p], p)
        /\ \A q \in parents : Earlier(q, p) =>
             /\ ~ Queued(q)
             /\ predecessor[p] \in parents =>
                  q = predecessor[p] \/ Earlier(q, predecessor[p])
             /\ Calm(p) /\ ~ WaitsForPredecessor(p) => SemanticDone(q)

\* A turn whose children run has no earlier live turn that is still processed; in a
\* calm channel only its task, or the submitter that withdraws it, reports a child.
GateOK ==
    \A p \in parents :
        /\ pc[Runner(p)] = "await" =>
             \A q \in parents : Earlier(q, p) => SemanticDone(q)
        /\ Calm(p) /\ KidsOf(p) \cap semantic # {} =>
             pc[Runner(p)] = "await" \/ pc[Submitter(p)] = "withdraw"

LineOK ==
    BlockedOK /\ QueuesOK /\ StagesOK /\ CalmOK /\ TailsOK /\ ChainOK /\ GateOK

\* Nothing of it has to hold once close() has begun: no child executes any more.
GateInv == SpareInv /\ (closed \/ LineOK)

\* A child whose result counts is still to be reported; a cancelled child runs only
\* until the cancellation has gathered it.
ReportsOK ==
    /\ dropped = {} /\ closedEvents \subseteq closedParents
    /\ \A k \in semantic \ completed : KidLive(k)
    /\ \A k \in Children : Kid(k) \in kill /\ KidLive(k) =>
         \E x \in Controllers : pc[Control(x)] = "gather" /\ k[1] \in call[x].selected
    /\ \A p \in cancelling : \A k \in KidsOf(p) : ~ Executing(k)
    /\ \A p \in cancelling, q \in parents : ChannelOf[p] = ChannelOf[q] => q \in cancelling

\* A child that delivers, or has delivered, was ready to; the result of a child
\* that executes does not count yet.
Ready(k) ==
    /\ pc[Kid(k)] \in {"started", "process"} /\ Executing(k) => k \notin semantic
    /\ pc[Kid(k)] \in {"queued", "output"} => k \in semantic
    /\ pc[Kid(k)] = "output" => OutputReady(k[1])
    /\ terminal[Kid(k)] # None /\ k[1] \in parents \ cancelling =>
         /\ Calm(k[1]) => k \in semantic
         /\ k \in semantic => OutputReady(k[1])

ReadyOK == \A k \in Children : Ready(k)

\* Nobody earlier is live when the predecessor of a turn is closed.
AheadClosed(p) == predecessor[p] = None \/ predecessor[p] \in closedParents

FrontOK ==
    /\ \A p \in parents : AheadClosed(p) =>
        /\ p \notin cancelling /\ pc[Runner(p)] = "await" =>
             \A q \in parents : ~ Earlier(q, p)
        /\ Calm(p) /\ ~ Queued(p) => \A q \in parents : ~ Earlier(q, p)
    /\ \A p \in parents : Calm(p) /\ tails[ChannelOf[p]] = None => Queued(p)

\* Children run one after the other, and nobody earlier than a turn that published
\* is live.
PublishedOK ==
    /\ \A k \in Children : pc[Kid(k)] # "idle" =>
         \A j \in KidsOf(k[1]) : j[2] < k[2] => j \in completed
    /\ \A i \in DOMAIN outputs : \A p \in parents : ~ Earlier(p, outputs[i][1])

OrderInv ==
    /\ GateInv /\ OutputsInTurnOrder
    /\ closed \/ (ReportsOK /\ ReadyOK /\ FrontOK /\ PublishedOK)
===============================================================================
