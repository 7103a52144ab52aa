---------------------------- MODULE OutputRuntime ----------------------------
(***************************************************************************)
(* The OutputRuntime of core/runtime/output.py, the owner of every         *)
(* destination a translation is published to.                              *)
(*                                                                         *)
(* Overlay events are delivered by a task per publication to the current   *)
(* sink; a lock serializes the start of a delivery with the replacement of *)
(* the sink and with shutdown, both of which cancel the deliveries under   *)
(* way and wait for them.  A publication identity that was delivered, or   *)
(* that is being delivered, is not published again.  Chatbox messages and  *)
(* typing reasons are handed over synchronously.  Shutdown retires, in     *)
(* this order, the flush task, the deliveries, the chatbox state, the UI   *)
(* event bridge task and its adapter; each step may fail, and a shutdown   *)
(* with failures may be repeated.                                          *)
(*                                                                         *)
(* The program is one asyncio event loop.  An actor is a task that calls   *)
(* publish_overlay_event (a publisher) or one that calls                   *)
(* replace_overlay_sink or close (a controller).  Stages of close that do  *)
(* not suspend are steps of their own where the code would run several of  *)
(* them at once: the model has every interleaving of the code, and more.   *)
(***************************************************************************)
EXTENDS Naturals, Sequences, FiniteSets

CONSTANTS
    Publishers,       \* tasks that publish overlay events
    Events,           \* event ids of overlay events
    Sinks,            \* overlay presenters
    Messages,         \* (route, publication id, revision) of chatbox messages
    Controllers,      \* tasks that replace the sink or close the runtime
    MaxPublications,  \* bound on the calls of publish_overlay_event
    MaxCalls,         \* bound on the calls of the controllers
    Faults,           \* what may raise or end by itself
    Aborts,           \* "publisher": publishers may be cancelled
    None              \* no sink, no event

FaultNames == {"sink", "flush", "bridge", "bridgeEnds", "typing", "backlog",
               "adapter"}

ASSUME OutputAssumption ==
    /\ Publishers \cap Controllers = {}
    /\ Events \cap Messages = {}
    /\ MaxPublications \in Nat
    /\ MaxCalls \in Nat
    /\ Faults \subseteq FaultNames
    /\ Aborts \subseteq {"publisher"}
    /\ None \notin Events \cup Sinks \cup Messages

Actors == Publishers \cup Controllers
Owned == {"flush", "bridge"}

VARIABLES
    state,           \* _state
    sink,            \* overlay_sink
    lockQueue,       \* _overlay_delivery_lock: holder first, then the waiters
    delivered,       \* _delivered_publications
    inFlight,        \* _publications_in_flight
    active,          \* _active_delivery_tasks, by the publisher that awaits them
    replaced,        \* _replacement_cancelled_delivery_tasks, likewise
    pc,              \* the await each actor is suspended in
    event,           \* the event each publisher was called with
    target,          \* the sink its delivery task was created for
    emit,            \* the state of its delivery task
    interrupted,     \* publishers cancelled after their delivery task was done
    emitted,         \* how often sink.emit of an event returned
    typing,          \* a typing reason of the chatbox is active
    backlog,         \* messages pending in the chatbox
    typingCleared,   \* _chatbox_typing_reasons_cleared
    backlogDropped,  \* _chatbox_backlog_dropped
    task,            \* _chatbox_flush_task and _ui_event_bridge_task
    adapter,         \* _ui_event_bridge is set
    oldFailure,      \* _completed_task_failures holds one of a replaced task
    call,            \* the call each controller executes
    publications,    \* calls of publish_overlay_event so far
    calls            \* calls of the controllers so far

delivery == <<delivered, inFlight, active, replaced, event, target, emit,
              interrupted, emitted>>
chatbox == <<typing, backlog>>
cleared == <<typingCleared, backlogDropped>>
owned == <<task, adapter, oldFailure>>
counters == <<publications, calls>>
vars == <<state, sink, lockQueue, delivered, inFlight, active, replaced, pc,
          event, target, emit, interrupted, emitted, typing, backlog,
          typingCleared, backlogDropped, task, adapter, oldFailure, call,
          publications, calls>>

\* The local variables of a controller's call.
Call(op, new, expected, tasks, failed) ==
    [op |-> op, new |-> new, expected |-> expected, tasks |-> tasks,
     failed |-> failed]

NoCall == Call("none", None, "any", {}, FALSE)
Closing(tasks, failed) == Call("close", None, "any", tasks, failed)

Init ==
    /\ state = "open"
    /\ sink = None
    /\ lockQueue = <<>>
    /\ delivered = {}
    /\ inFlight = {}
    /\ active = {}
    /\ replaced = {}
    /\ pc = [a \in Actors |-> "idle"]
    /\ event = [p \in Publishers |-> None]
    /\ target = [p \in Publishers |-> None]
    /\ emit = [p \in Publishers |-> "none"]
    /\ interrupted = {}
    /\ emitted = [e \in Events |-> 0]
    /\ typing = FALSE
    /\ backlog = {}
    /\ typingCleared = FALSE
    /\ backlogDropped = FALSE
    /\ task = [t \in Owned |-> "none"]
    /\ adapter = FALSE
    /\ oldFailure = FALSE
    /\ call = [x \in Controllers |-> NoCall]
    /\ publications = 0
    /\ calls = 0

-----------------------------------------------------------------------------
(* Helpers *)

Goto(a, label) == pc' = [pc EXCEPT ![a] = label]
Holds(a) == lockQueue # <<>> /\ Head(lockQueue) = a
Enqueue(a) == lockQueue' = Append(lockQueue, a)
Release(a) == Holds(a) /\ lockQueue' = Tail(lockQueue)

\* mutant: an identity is remembered only when its delivery is over
DuplicateOfDelivered(k) == k \in delivered

\* _duplicate_publication_result
Duplicate(k) == k \in delivered \cup inFlight

HasResources ==
    \/ \E t \in Owned : task[t] # "none"
    \/ adapter \/ oldFailure
    \/ active # {}
    \/ ~ typingCleared \/ ~ backlogDropped

\* mutant: the state is not looked at
AcceptsAnyway == TRUE

\* is_accepting_publications
Accepting == state = "open"

EmitDone(p) == emit[p] \in {"returned", "raised", "cancelled"}

-----------------------------------------------------------------------------
(* publish_overlay_event *)

\* The critical section of publish_overlay_event: the delivery task is created,
\* or the event is skipped.  It never suspends under the lock.
Deliver(p, e) ==
    IF Accepting /\ sink # None /\ ~ Duplicate(e)
      THEN /\ inFlight' = inFlight \cup {e}
           /\ active' = active \cup {p}
           /\ event' = [event EXCEPT ![p] = e]
           /\ target' = [target EXCEPT ![p] = sink]
           /\ emit' = [emit EXCEPT ![p] = "running"]
           /\ Goto(p, "emit")
           /\ UNCHANGED <<delivered, replaced, interrupted, emitted>>
      ELSE /\ event' = [event EXCEPT ![p] = None]
           /\ Goto(p, "idle")
           /\ UNCHANGED <<delivered, inFlight, active, replaced, target, emit,
                          interrupted, emitted>>

Publish(p, e) ==
    /\ pc[p] = "idle"
    /\ publications < MaxPublications
    /\ publications' = publications + 1
    /\ IF lockQueue = <<>>
         THEN Deliver(p, e) /\ UNCHANGED lockQueue
         ELSE /\ Enqueue(p)
              /\ Goto(p, "lock")
              /\ event' = [event EXCEPT ![p] = e]
              /\ UNCHANGED <<delivered, inFlight, active, replaced, target,
                             emit, interrupted, emitted>>
    /\ UNCHANGED <<state, sink, chatbox, cleared, owned, call, calls>>

PublisherAcquires(p) ==
    /\ pc[p] = "lock"
    /\ Release(p)
    /\ Deliver(p, event[p])
    /\ UNCHANGED <<state, sink, chatbox, cleared, owned, call, counters>>

\* The delivery task ends: sink.emit returned, raised, or let the cancellation
\* through.  A cancelled emit may also return or raise.
EmitEnds(p, outcome) ==
    /\ \/ emit[p] = "running" /\ outcome \in {"returned", "raised"}
       \/ emit[p] = "cancelling"
    /\ outcome = "raised" => "sink" \in Faults
    /\ emit' = [emit EXCEPT ![p] = outcome]
    /\ emitted' = IF outcome = "returned"
                    THEN [emitted EXCEPT ![event[p]] = @ + 1] ELSE emitted
    /\ UNCHANGED <<state, sink, lockQueue, delivered, inFlight, active, replaced,
                   pc, event, target, interrupted, chatbox, cleared, owned,
                   call, counters>>

\* mutant: a delivery that failed keeps its identity in flight
LandedIfDelivered(p) ==
    IF emit[p] = "returned" THEN inFlight \ {event[p]} ELSE inFlight

\* What the finally block of publish_overlay_event leaves in flight.
Landed(p) == inFlight \ {event[p]}

\* The publisher resumes after its delivery task: the finally block forgets the
\* task, and an event that was delivered is remembered.
PublisherResumes(p) ==
    /\ pc[p] = "emit"
    /\ EmitDone(p)
    /\ delivered' = IF emit[p] = "returned" /\ p \notin interrupted
                      THEN delivered \cup {event[p]} ELSE delivered
    /\ inFlight' = Landed(p)
    /\ active' = active \ {p}
    /\ replaced' = replaced \ {p}
    /\ interrupted' = interrupted \ {p}
    /\ event' = [event EXCEPT ![p] = None]
    /\ target' = [target EXCEPT ![p] = None]
    /\ emit' = [emit EXCEPT ![p] = "none"]
    /\ Goto(p, "idle")
    /\ UNCHANGED <<state, sink, lockQueue, emitted, chatbox, cleared, owned,
                   call, counters>>

\* The task that publishes is cancelled.  The cancellation goes to what the task
\* awaits: the place in the lock's queue is given up, the delivery task is
\* cancelled, and a task that is done already does not keep it.
PublisherCancelled(p) ==
    /\ "publisher" \in Aborts
    /\ \/ /\ pc[p] = "lock"
          /\ \E i \in DOMAIN lockQueue :
               /\ lockQueue[i] = p
               /\ lockQueue' = SubSeq(lockQueue, 1, i - 1)
                                 \o SubSeq(lockQueue, i + 1, Len(lockQueue))
          /\ event' = [event EXCEPT ![p] = None]
          /\ Goto(p, "idle")
          /\ UNCHANGED <<emit, interrupted>>
       \/ /\ emit[p] = "running"
          /\ emit' = [emit EXCEPT ![p] = "cancelling"]
          /\ UNCHANGED <<lockQueue, event, pc, interrupted>>
       \/ /\ EmitDone(p) /\ p \notin interrupted
          /\ interrupted' = interrupted \cup {p}
          /\ UNCHANGED <<lockQueue, event, pc, emit>>
    /\ UNCHANGED <<state, sink, delivered, inFlight, active, replaced, target,
                   emitted, chatbox, cleared, owned, call, counters>>

-----------------------------------------------------------------------------
(* replace_overlay_sink, and what it shares with close *)

Called(x) ==
    /\ pc[x] = "idle"
    /\ calls < MaxCalls
    /\ calls' = calls + 1

\* mutant: the deliveries under way are not cancelled
CancelNone(S) == emit

\* The part of _cancel_active_delivery_tasks_locked that requests cancellation.
CancelDeliveries(S) ==
    [p \in Publishers |-> IF p \in S /\ emit[p] = "running"
                            THEN "cancelling" ELSE emit[p]]

\* replace_overlay_sink under the lock, up to the wait for the deliveries.
ReplaceLocked(x, new, expected) ==
    LET changes == /\ state = "open"
                   /\ expected \in {"any", sink}
                   /\ sink # new
    IN
    \/ /\ changes /\ active # {}
       /\ replaced' = replaced \cup active
       /\ emit' = CancelDeliveries(active)
       /\ call' = [call EXCEPT ![x] = Call("replace", new, expected, active, FALSE)]
       /\ Goto(x, "gather")
       /\ UNCHANGED sink
    \/ /\ ~ changes \/ active = {}
       /\ sink' = IF changes THEN new ELSE sink
       /\ call' = [call EXCEPT ![x] = NoCall]
       /\ Goto(x, "idle")
       /\ UNCHANGED <<replaced, emit>>

Replace(x, new, expected) ==
    /\ Called(x)
    /\ state = "open"
    /\ IF lockQueue = <<>>
         THEN /\ ReplaceLocked(x, new, expected)
              /\ IF pc'[x] = "gather" THEN Enqueue(x) ELSE UNCHANGED lockQueue
         ELSE /\ Enqueue(x)
              /\ Goto(x, "lock")
              /\ call' = [call EXCEPT ![x] = Call("replace", new, expected, {}, FALSE)]
              /\ UNCHANGED <<sink, replaced, emit>>
    /\ UNCHANGED <<state, delivered, inFlight, active, event, target, interrupted,
                   emitted, chatbox, cleared, owned, publications>>

ReplaceAcquires(x) ==
    /\ pc[x] = "lock"
    /\ call[x].op = "replace"
    /\ Holds(x)
    /\ ReplaceLocked(x, call[x].new, call[x].expected)
    /\ IF pc'[x] = "gather" THEN UNCHANGED lockQueue ELSE Release(x)
    /\ UNCHANGED <<state, delivered, inFlight, active, event, target, interrupted,
                   emitted, chatbox, cleared, owned, counters>>

\* mutant: the arguments of the call are swapped
InstallsExpected(x) == call[x].expected

Installed(x) == call[x].new

\* mutant: the new sink is installed without waiting for the deliveries
NoWait(x) == TRUE

\* gather(*tasks) returned.  Each publisher was waiting for its delivery task
\* before gather was, so it has resumed by then.
DeliveriesGathered(x) == \A p \in call[x].tasks : pc[p] # "emit"

ReplaceFinishes(x) ==
    /\ pc[x] = "gather"
    /\ call[x].op = "replace"
    /\ DeliveriesGathered(x)
    /\ active' = active \ call[x].tasks
    /\ inFlight' = {}
    /\ sink' = Installed(x)
    /\ Release(x)
    /\ call' = [call EXCEPT ![x] = NoCall]
    /\ Goto(x, "idle")
    /\ UNCHANGED <<state, delivered, replaced, event, target, emit, interrupted,
                   emitted, chatbox, cleared, owned, counters>>

-----------------------------------------------------------------------------
(* The chatbox, the flush task and the UI event bridge while open *)

\* publish_chatbox and the two publications of system disclosures: the paginator
\* keeps the message or sends it at once, the first also retires a typing reason.
\* A chatbox that raises leaves everything as it was.
PublishChatbox(m) ==
    /\ Accepting
    /\ ~ Duplicate(m)
    /\ delivered' = delivered \cup {m}
    /\ backlog' \in {backlog, backlog \cup {m}}
    /\ typing' \in {typing, FALSE}
    /\ UNCHANGED <<state, sink, lockQueue, inFlight, active, replaced, pc, event,
                   target, emit, interrupted, emitted, cleared, owned, call,
                   counters>>

\* set_self_chatbox_typing_reason and clear_self_chatbox_typing_reasons
SetTyping(on) ==
    /\ Accepting
    /\ typing' = on
    /\ UNCHANGED <<state, sink, lockQueue, delivery, pc, backlog, cleared, owned,
                   call, counters>>

\* One round of _run_chatbox_flush_loop.
FlushSends(m) ==
    /\ task["flush"] = "running"
    /\ backlog' = backlog \ {m}
    /\ UNCHANGED <<state, sink, lockQueue, delivery, pc, typing, cleared, owned,
                   call, counters>>

\* The failure of a task that is replaced by a new one stays recorded.
Collected(t) == oldFailure' = (oldFailure \/ task[t] = "failed")

\* start(auto_flush_chatbox=True)
Start ==
    /\ Accepting
    /\ task["flush"] # "running"
    /\ Collected("flush")
    /\ task' = [task EXCEPT !["flush"] = "running"]
    /\ UNCHANGED <<state, sink, lockQueue, delivery, pc, chatbox, cleared,
                   adapter, call, counters>>

StartBridge ==
    /\ Accepting
    /\ task["bridge"] # "running"
    /\ Collected("bridge")
    /\ task' = [task EXCEPT !["bridge"] = "running"]
    /\ adapter' = TRUE
    /\ UNCHANGED <<state, sink, lockQueue, delivery, pc, chatbox, cleared, call,
                   counters>>

\* An owned task ends.  The failure of a task that close() waits for goes to
\* the calls that wait, any other one is recorded.
TaskEnds(t) ==
    /\ \/ /\ task[t] = "running" /\ t \in Faults
          /\ task' = [task EXCEPT ![t] = "failed"]
          /\ UNCHANGED call
       \/ /\ \/ task[t] = "cancelling"
             \/ task[t] = "running" /\ t = "bridge" /\ "bridgeEnds" \in Faults
          /\ task' = [task EXCEPT ![t] = "ended"]
          /\ UNCHANGED call
       \/ /\ task[t] = "cancelling" /\ t = "bridge" /\ t \in Faults
          /\ task' = [task EXCEPT ![t] = "ended"]
          /\ call' = [x \in Controllers |->
                        IF pc[x] = t THEN Closing({}, TRUE) ELSE call[x]]
    /\ UNCHANGED <<state, sink, lockQueue, delivery, pc, chatbox, cleared,
                   adapter, oldFailure, counters>>

-----------------------------------------------------------------------------
(* close *)

\* _cancel_owned_task up to its await: a recorded failure is taken over without
\* suspending, a task that is left is cancelled and awaited.  failed tells
\* whether something failed before.
CancelOwned(x, t, failed, next) ==
    \/ /\ task[t] = "none"
       /\ call' = [call EXCEPT ![x] = Closing({}, failed)]
       /\ Goto(x, next)
       /\ UNCHANGED task
    \/ /\ task[t] = "failed"
       /\ call' = [call EXCEPT ![x] = Closing({}, TRUE)]
       /\ Goto(x, next)
       /\ task' = [task EXCEPT ![t] = "none"]
    \/ /\ task[t] \notin {"none", "failed"}
       /\ call' = [call EXCEPT ![x] = Closing({}, failed)]
       /\ Goto(x, t)
       /\ task' = [task EXCEPT ![t] = IF @ = "running" THEN "cancelling" ELSE @]

CloseBegins(x) ==
    /\ Called(x)
    /\ state # "closed" \/ HasResources
    /\ state' = "closing"
    /\ CancelOwned(x, "flush", FALSE, "deliveries")
    /\ UNCHANGED <<sink, lockQueue, delivery, chatbox, cleared, adapter,
                   oldFailure, publications>>

\* The owned task close() waited for is done.
TaskCollected(x, t, next) ==
    /\ pc[x] = t
    /\ task[t] \in {"ended", "none"}
    /\ task' = [task EXCEPT ![t] = "none"]
    /\ Goto(x, next)
    /\ UNCHANGED <<state, sink, lockQueue, delivery, chatbox, cleared, adapter,
                   oldFailure, call, counters>>

\* The lock of the deliveries is asked for, unless x waited for it already.
CloseWaits(x) ==
    /\ pc[x] = "deliveries"
    /\ lockQueue # <<>>
    /\ Enqueue(x)
    /\ Goto(x, "lock")
    /\ UNCHANGED <<state, sink, delivery, chatbox, cleared, owned, call, counters>>

CloseCancels(x) ==
    /\ \/ pc[x] = "deliveries" /\ lockQueue = <<>>
       \/ pc[x] = "lock" /\ call[x].op = "close" /\ Holds(x)
    /\ emit' = CancelDeliveries(active)
    /\ call' = [call EXCEPT ![x] = Closing(active, call[x].failed)]
    /\ Goto(x, "gather")
    /\ lockQueue' = IF lockQueue = <<>> THEN <<x>> ELSE lockQueue
    /\ UNCHANGED <<state, sink, delivered, inFlight, active, replaced, event,
                   target, interrupted, emitted, chatbox, cleared, owned,
                   counters>>

CloseGathered(x) ==
    /\ pc[x] = "gather"
    /\ call[x].op = "close"
    /\ DeliveriesGathered(x)
    /\ active' = active \ call[x].tasks
    /\ inFlight' = IF call[x].tasks = {} THEN inFlight ELSE {}
    /\ Release(x)
    /\ Goto(x, "chatbox")
    /\ UNCHANGED <<state, sink, delivered, replaced, event, target, emit,
                   interrupted, emitted, chatbox, cleared, owned, call, counters>>

\* mutant: the flag is set although the chatbox raised
ForgetsFailure(done, fails) == TRUE

\* A cleanup step of close() that was not done before is done, unless it fails.
Retired(done, fails) == done \/ ~ fails

\* _clear_chatbox_typing_reasons, _drop_chatbox_backlog and the cancellation of
\* the bridge task follow each other without suspending.
CloseClearsChatbox(x) ==
    /\ pc[x] = "chatbox"
    /\ \E fails \in SUBSET (Faults \cap {"typing", "backlog"}) :
         LET bad == \/ ~ typingCleared /\ "typing" \in fails
                    \/ ~ backlogDropped /\ "backlog" \in fails
         IN
         /\ typingCleared' = Retired(typingCleared, "typing" \in fails)
         /\ backlogDropped' = Retired(backlogDropped, "backlog" \in fails)
         /\ typing' = IF "typing" \in fails THEN typing ELSE typing /\ typingCleared
         /\ backlog' = IF "backlog" \in fails \/ backlogDropped THEN backlog ELSE {}
         /\ CancelOwned(x, "bridge", call[x].failed \/ bad, "adapter")
    /\ UNCHANGED <<state, sink, lockQueue, delivery, adapter, oldFailure, counters>>

\* bridge.close() returns or raises, recorded failures are taken over, and
\* close() ends: as "closed" if nothing failed, by raising otherwise.
CloseEnds(x) ==
    /\ pc[x] = "adapter"
    /\ \E fails \in SUBSET (Faults \cap {"adapter"}) :
         LET bad == adapter /\ fails # {} IN
         /\ adapter' = bad
         /\ state' = IF bad \/ call[x].failed \/ oldFailure THEN state ELSE "closed"
    /\ oldFailure' = FALSE
    /\ call' = [call EXCEPT ![x] = NoCall]
    /\ Goto(x, "idle")
    /\ UNCHANGED <<sink, lockQueue, delivery, chatbox, cleared, task, counters>>

-----------------------------------------------------------------------------
(* The specification *)

PublisherStep(p) == PublisherAcquires(p) \/ PublisherResumes(p)

ReplaceStep(x) == ReplaceAcquires(x) \/ ReplaceFinishes(x)

CloseStep(x) ==
    \/ TaskCollected(x, "flush", "deliveries") \/ TaskCollected(x, "bridge", "adapter")
    \/ CloseWaits(x) \/ CloseCancels(x) \/ CloseGathered(x)
    \/ CloseClearsChatbox(x) \/ CloseEnds(x)

\* A delivery task with a cancellation pending ends.
CancelledEmitEnds(p) ==
    /\ emit[p] = "cancelling"
    /\ \E outcome \in {"returned", "raised", "cancelled"} : EmitEnds(p, outcome)

CancelledTaskEnds(t) == task[t] = "cancelling" /\ TaskEnds(t)

Next ==
    \/ \E p \in Publishers :
        \/ \E e \in Events : Publish(p, e)
        \/ \E outcome \in {"returned", "raised", "cancelled"} : EmitEnds(p, outcome)
        \/ PublisherStep(p) \/ PublisherCancelled(p)
    \/ \E x \in Controllers :
        \/ \E new \in Sinks \cup {None}, expected \in Sinks \cup {None, "any"} :
             Replace(x, new, expected)
        \/ ReplaceStep(x) \/ CloseBegins(x) \/ CloseStep(x)
    \/ \E m \in Messages : PublishChatbox(m) \/ FlushSends(m)
    \/ \E on \in BOOLEAN : SetTyping(on)
    \/ \E t \in Owned : TaskEnds(t)
    \/ Start \/ StartBridge

Spec == Init /\ [][Next]_vars

\* The event loop resumes every task that can go on, and a cancelled task ends.
\* A sink may keep a delivery waiting for ever.
Fairness ==
    /\ \A p \in Publishers :
         WF_vars(PublisherStep(p)) /\ WF_vars(CancelledEmitEnds(p))
    /\ \A x \in Controllers : WF_vars(ReplaceStep(x) \/ CloseStep(x))
    /\ \A t \in Owned : WF_vars(CancelledTaskEnds(t))

FairSpec == Spec /\ Fairness

-----------------------------------------------------------------------------
(* Properties *)

EmitValues == {"none", "running", "cancelling", "returned", "raised", "cancelled"}
TaskValues == {"none", "running", "cancelling", "failed", "ended"}
OutputPcValues == {"idle", "lock", "emit", "gather", "deliveries", "chatbox",
                   "adapter"} \cup Owned
OutputCalls ==
    [op : {"none", "replace", "close"}, new : Sinks \cup {None},
     expected : Sinks \cup {None, "any"}, tasks : SUBSET Publishers,
     failed : BOOLEAN]

\* Every variable stays in the set of values the code can give it.
OutputTypeOK ==
    /\ state \in {"open", "closing", "closed"}
    /\ sink \in Sinks \cup {None}
    /\ lockQueue \in Seq(Actors)
    /\ delivered \subseteq Events \cup Messages
    /\ inFlight \subseteq Events
    /\ active \subseteq Publishers /\ replaced \subseteq Publishers
    /\ pc \in [Actors -> OutputPcValues]
    /\ event \in [Publishers -> Events \cup {None}]
    /\ target \in [Publishers -> Sinks \cup {None}]
    /\ emit \in [Publishers -> EmitValues]
    /\ interrupted \subseteq Publishers
    /\ emitted \in [Events -> Nat]
    /\ typing \in BOOLEAN /\ backlog \subseteq Messages
    /\ typingCleared \in BOOLEAN /\ backlogDropped \in BOOLEAN
    /\ task \in [Owned -> TaskValues]
    /\ adapter \in BOOLEAN /\ oldFailure \in BOOLEAN
    /\ call \in [Controllers -> OutputCalls]
    /\ publications \in Nat /\ calls \in Nat

\* No delivery runs for a sink that is not the current one: the sink changes
\* only when every delivery to the old one has ended, and none starts meanwhile.
OneDestination ==
    \A p \in Publishers :
        emit[p] \in {"running", "cancelling"} => target[p] = sink

\* What counts as in flight is what a publisher is waiting for: an identity that
\* stayed behind would be refused for ever, one dropped early published twice.
InFlightExact ==
    /\ active = {p \in Publishers : pc[p] = "emit"}
    /\ inFlight = {event[p] : p \in active}

\* sink.emit returns at most once for a publication identity, over all sinks and
\* all publishers: "retains exactly once identities for owner lifecycle".
DeliveredAtMostOnce == \A e \in Events : emitted[e] <= 1

\* Once close() began nothing new reaches a destination, although publishers
\* wait for the lock meanwhile and shutdown takes several turns of the loop.
QuietOnceClosing ==
    [][state # "open" =>
        /\ \A p \in Publishers : emit'[p] = "running" => emit[p] = "running"
        /\ backlog' \subseteq backlog
        /\ typing' => typing]_vars

\* A runtime that is closed holds no task, adapter, message or typing reason,
\* whichever calls of close() failed on the way and however they overlapped.
ClosedMeansReleased ==
    state = "closed" =>
        /\ active = {} /\ inFlight = {}
        /\ \A t \in Owned : task[t] = "none"
        /\ ~ adapter /\ ~ typing /\ backlog = {}

\* The strengthening that makes OneDestination and InFlightExact inductive: a
\* controller that waits for the deliveries holds the lock and waits for all of
\* them, and no two publishers deliver the same event.
LockOK ==
    /\ \A p \in Publishers : pc[p] \in {"idle", "lock", "emit"}
    /\ \A x \in Controllers :
        /\ pc[x] # "emit"
        /\ pc[x] = "gather" => Holds(x) /\ active \subseteq call[x].tasks

DeliveryOK ==
    /\ \A p \in Publishers :
        /\ emit[p] # "none" <=> pc[p] = "emit"
        /\ pc[p] \in {"lock", "emit"} => event[p] \in Events
        /\ pc[p] = "emit" => target[p] = sink
    /\ InFlightExact
    /\ \A p, q \in active : event[p] = event[q] => p = q

OutputInv == OutputTypeOK /\ LockOK /\ DeliveryOK

\* The strengthening behind DeliveredAtMostOnce, while no publisher is cancelled.
OnceOK ==
    /\ interrupted = {}
    /\ \A p \in active : event[p] \notin delivered
    /\ \A e \in Events :
        /\ emitted[e] <= 1
        /\ emitted[e] = 1 =>
             \/ e \in delivered
             \/ \E p \in active : event[p] = e /\ emit[p] = "returned"

OnceInv == OutputInv /\ OnceOK

\* The strengthening behind ClosedMeansReleased: what a call of close() went past
\* stays retired, or is reported as failed when the call ends.
Retires(x) == pc[x] \in Owned \cup {"deliveries", "chatbox", "adapter"}
                \/ (pc[x] \in {"lock", "gather"} /\ call[x].op = "close")

ReleaseOK ==
    /\ typingCleared => state # "open" /\ ~ typing
    /\ backlogDropped => state # "open" /\ backlog = {}
    /\ state = "closed" => typingCleared /\ backlogDropped
    /\ ClosedMeansReleased
    /\ \A x \in Controllers : Retires(x) =>
        /\ state # "open"
        /\ pc[x] # "flush" => task["flush"] = "none"
        /\ pc[x] \in {"chatbox", "bridge", "adapter"} => active = {}
        /\ pc[x] \in {"bridge", "adapter"} =>
             call[x].failed \/ (typingCleared /\ backlogDropped)
        /\ pc[x] = "adapter" => task["bridge"] = "none"

ReleaseInv == OutputInv /\ ReleaseOK

\* replace_overlay_sink and close() return, also when a sink never does.
ControllersReturn ==
    \A x \in Controllers : (pc[x] # "idle") ~> (pc[x] = "idle")

\* Shutdown releases every publisher: those that deliver and those that wait.
ClosingReleasesPublishers ==
    \A p \in Publishers :
        (state # "open" /\ pc[p] # "idle") ~> (pc[p] = "idle")
=============================================================================
