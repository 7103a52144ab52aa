------------------------- MODULE OutputRuntimeProofs -------------------------
(***************************************************************************)
(* Proofs about the output runtime, for every set of publishers, events,   *)
(* sinks and controllers.  OutputInv is inductive; relative to it          *)
(* ReleaseOK is, and OnceOK while no publisher is cancelled.               *)
(***************************************************************************)
EXTENDS OutputRuntime, TLAPS

\* Facts about the sets of actors and values used throughout.
LEMMA ActorSets ==
    /\ Publishers \subseteq Actors /\ Controllers \subseteq Actors
    /\ \A p \in Publishers : p \notin Controllers
    /\ \A e \in Events : e # None /\ e \notin Messages
    /\ \A t \in Owned : t \in OutputPcValues
    /\ "flush" \in Owned /\ "bridge" \in Owned
BY OutputAssumption DEF OutputAssumption, Actors, Owned, OutputPcValues

\* Dropping one element of a queue keeps its elements among the actors, and its
\* head unless the head was dropped.
LEMMA Dropping ==
    ASSUME NEW q \in Seq(Actors), NEW i \in DOMAIN q
    PROVE  LET r == SubSeq(q, 1, i - 1) \o SubSeq(q, i + 1, Len(q)) IN
           /\ r \in Seq(Actors)
           /\ i # 1 => r # <<>> /\ Head(r) = Head(q)
<1> DEFINE a == SubSeq(q, 1, i - 1)
<1> DEFINE b == SubSeq(q, i + 1, Len(q))
<1>1. i \in 1 .. Len(q) /\ Len(q) \in Nat
  OBVIOUS
<1>2. a \in Seq(Actors) /\ b \in Seq(Actors)
  BY <1>1
<1>3. ASSUME i # 1 PROVE Len(a) = i - 1 /\ a[1] = q[1]
  BY <1>1, <1>3
<1>4. a \o b \in Seq(Actors)
  BY <1>2
<1>5. ASSUME i # 1 PROVE (a \o b) # <<>> /\ Head(a \o b) = Head(q)
  <2>1. Len(a) >= 1 /\ a[1] = q[1]
    BY <1>1, <1>3, <1>5
  <2>2. Len(a \o b) >= 1 /\ (a \o b)[1] = a[1]
    BY <2>1, <1>2
  <2> HIDE DEF a, b
  <2> QED BY <2>1, <2>2, <1>4, <1>1
<1> QED BY <1>4, <1>5

\* The local variables of a call of close() or replace_overlay_sink are typed.
LEMMA CallTypes ==
    /\ NoCall \in OutputCalls
    /\ \A S \in SUBSET Publishers, b \in BOOLEAN : Closing(S, b) \in OutputCalls
    /\ \A S \in SUBSET Publishers, new \in Sinks \cup {None},
          expected \in Sinks \cup {None, "any"} :
            Call("replace", new, expected, S, FALSE) \in OutputCalls
BY DEF NoCall, Closing, Call, OutputCalls

\* The four parts of a step that several actions share keep the types.
LEMMA OutputParts ==
    ASSUME OutputTypeOK
    PROVE  /\ \A a \in Actors : \A l \in OutputPcValues :
                Goto(a, l) => pc' \in [Actors -> OutputPcValues]
           /\ \A a \in Actors : Enqueue(a) => lockQueue' \in Seq(Actors)
           /\ \A a \in Actors : Release(a) => lockQueue' \in Seq(Actors)
           /\ \A S : CancelDeliveries(S) \in [Publishers -> EmitValues]
           /\ \A x \in Controllers, t \in Owned, next \in OutputPcValues,
                 b \in BOOLEAN :
                CancelOwned(x, t, b, next) =>
                  /\ pc' \in [Actors -> OutputPcValues]
                  /\ call' \in [Controllers -> OutputCalls]
                  /\ task' \in [Owned -> TaskValues]
<1>1. \A a \in Actors : \A l \in OutputPcValues :
        Goto(a, l) => pc' \in [Actors -> OutputPcValues]
  BY DEF OutputTypeOK, Goto
<1>2. \A a \in Actors : Enqueue(a) => lockQueue' \in Seq(Actors)
  BY DEF OutputTypeOK, Enqueue
<1>3. \A a \in Actors : Release(a) => lockQueue' \in Seq(Actors)
  BY DEF OutputTypeOK, Release, Holds
<1>4. \A S : CancelDeliveries(S) \in [Publishers -> EmitValues]
  BY DEF OutputTypeOK, CancelDeliveries, EmitValues
<1>5. ASSUME NEW x \in Controllers, NEW t \in Owned, NEW next \in OutputPcValues,
             NEW b \in BOOLEAN, CancelOwned(x, t, b, next)
      PROVE  /\ pc' \in [Actors -> OutputPcValues]
             /\ call' \in [Controllers -> OutputCalls]
             /\ task' \in [Owned -> TaskValues]
  <2>1. x \in Actors /\ t \in OutputPcValues
    BY ActorSets
  <2>2. pc' \in [Actors -> OutputPcValues]
    BY <1>1, <1>5, <2>1 DEF CancelOwned
  <2>3. Closing({}, b) \in OutputCalls /\ Closing({}, TRUE) \in OutputCalls
    BY CallTypes
  <2>4. call' \in [Controllers -> OutputCalls]
    BY <1>5, <2>3 DEF CancelOwned, OutputTypeOK
  <2>5. task' \in [Owned -> TaskValues]
    BY <1>5 DEF CancelOwned, OutputTypeOK, TaskValues
  <2> QED BY <2>2, <2>4, <2>5
<1> QED BY <1>1, <1>2, <1>3, <1>4, <1>5

\* Every step keeps the types.
LEMMA OutputTypeStep ==
    ASSUME OutputInv, [Next]_vars
    PROVE  OutputTypeOK'
<1> USE DEF delivery, chatbox, cleared, owned, counters
<1>0. OutputTypeOK
  BY DEF OutputInv
<1>1. ASSUME NEW p \in Publishers, NEW e \in Events, Deliver(p, e)
      PROVE  /\ UNCHANGED <<delivered, replaced, interrupted, emitted>>
             /\ inFlight' \subseteq Events /\ active' \subseteq Publishers
             /\ pc' \in [Actors -> OutputPcValues]
             /\ event' \in [Publishers -> Events \cup {None}]
             /\ target' \in [Publishers -> Sinks \cup {None}]
             /\ emit' \in [Publishers -> EmitValues]
  <2>1. pc' \in [Actors -> OutputPcValues]
    BY <1>0, <1>1, OutputParts, ActorSets DEF Deliver, OutputPcValues
  <2> QED BY <1>0, <1>1, <2>1 DEF Deliver, OutputTypeOK, EmitValues
<1>2. ASSUME NEW p \in Publishers, NEW e \in Events, Publish(p, e)
      PROVE  OutputTypeOK'
  <2>1. CASE lockQueue = <<>>
    <3>1. Deliver(p, e) /\ UNCHANGED lockQueue
      BY <1>2, <2>1 DEF Publish
    <3> QED BY <1>0, <1>2, <3>1, <1>1 DEF Publish, OutputTypeOK
  <2>2. CASE lockQueue # <<>>
    <3>1. lockQueue' \in Seq(Actors) /\ pc' \in [Actors -> OutputPcValues]
      BY <1>0, <1>2, <2>2, OutputParts, ActorSets DEF Publish, OutputPcValues
    <3>2. event' = [event EXCEPT ![p] = e] /\ publications' = publications + 1
      BY <1>2, <2>2 DEF Publish
    <3>3. UNCHANGED <<state, sink, delivered, inFlight, active, replaced, target,
                      emit, interrupted, emitted, chatbox, cleared, owned, call,
                      calls>>
      BY <1>2, <2>2 DEF Publish
    <3> QED BY <1>0, <3>1, <3>2, <3>3 DEF OutputTypeOK
  <2> QED BY <2>1, <2>2
<1>3. ASSUME NEW p \in Publishers, PublisherAcquires(p)
      PROVE  OutputTypeOK'
  <2>1. lockQueue' \in Seq(Actors)
    BY <1>0, <1>3, OutputParts, ActorSets DEF PublisherAcquires
  <2>2. event[p] \in Events
    BY <1>3 DEF PublisherAcquires, OutputInv, DeliveryOK
  <2>3. Deliver(p, event[p])
    BY <1>3 DEF PublisherAcquires
  <2> QED BY <1>0, <1>1, <1>3, <2>1, <2>2, <2>3 DEF PublisherAcquires, OutputTypeOK
<1>4. ASSUME NEW p \in Publishers, NEW o \in {"returned", "raised", "cancelled"},
             EmitEnds(p, o)
      PROVE  OutputTypeOK'
  <2>1. emit' \in [Publishers -> EmitValues]
    BY <1>0, <1>4 DEF EmitEnds, OutputTypeOK, EmitValues
  <2>2. emitted' \in [Events -> Nat]
    <3>1. event[p] \in Events
      BY <1>0, <1>4 DEF EmitEnds, OutputInv, DeliveryOK
    <3>2. emitted \in [Events -> Nat]
      BY <1>0 DEF OutputTypeOK
    <3>3. emitted' \in {emitted, [emitted EXCEPT ![event[p]] = @ + 1]}
      BY <1>4 DEF EmitEnds
    <3> QED BY <3>1, <3>2, <3>3
  <2> QED BY <1>0, <1>4, <2>1, <2>2 DEF EmitEnds, OutputTypeOK
<1>5. ASSUME NEW p \in Publishers, PublisherResumes(p)
      PROVE  OutputTypeOK'
  <2>1. pc' \in [Actors -> OutputPcValues]
    BY <1>0, <1>5, OutputParts, ActorSets DEF PublisherResumes, OutputPcValues
  <2>2. event[p] \in Events
    BY <1>5 DEF PublisherResumes, OutputInv, DeliveryOK
  <2>3. delivered' \subseteq Events \cup Messages
    BY <1>0, <1>5, <2>2 DEF PublisherResumes, OutputTypeOK
  <2> QED BY <1>0, <1>5, <2>1, <2>3 DEF PublisherResumes, OutputTypeOK, EmitValues, Landed
<1>6. ASSUME NEW p \in Publishers, PublisherCancelled(p)
      PROVE  OutputTypeOK'
  <2>1. lockQueue' \in Seq(Actors) /\ pc' \in [Actors -> OutputPcValues]
    <3>1. CASE pc[p] = "lock" /\ UNCHANGED <<emit, interrupted>>
      <4>1. PICK i \in DOMAIN lockQueue :
              lockQueue' = SubSeq(lockQueue, 1, i - 1)
                             \o SubSeq(lockQueue, i + 1, Len(lockQueue))
        BY <1>6, <3>1 DEF PublisherCancelled, OutputInv, DeliveryOK
      <4>2. lockQueue' \in Seq(Actors)
        BY <1>0, <4>1, Dropping DEF OutputTypeOK
      <4>3. pc' \in [Actors -> OutputPcValues]
        BY <1>0, <1>6, OutputParts, ActorSets
        DEF PublisherCancelled, OutputTypeOK, OutputPcValues
      <4> QED BY <4>2, <4>3
    <3>2. CASE UNCHANGED <<lockQueue, pc>>
      BY <1>0, <3>2 DEF OutputTypeOK
    <3> QED BY <1>6, <3>1, <3>2 DEF PublisherCancelled
  <2>2. /\ emit' \in [Publishers -> EmitValues]
        /\ interrupted' \subseteq Publishers
        /\ event' \in [Publishers -> Events \cup {None}]
    BY <1>0, <1>6 DEF PublisherCancelled, OutputTypeOK, EmitValues
  <2> QED BY <1>0, <1>6, <2>1, <2>2 DEF PublisherCancelled, OutputTypeOK
<1>7. ASSUME NEW x \in Controllers, NEW new \in Sinks \cup {None},
             NEW expected \in Sinks \cup {None, "any"},
             ReplaceLocked(x, new, expected)
      PROVE  /\ sink' \in Sinks \cup {None} /\ replaced' \subseteq Publishers
             /\ pc' \in [Actors -> OutputPcValues]
             /\ emit' \in [Publishers -> EmitValues]
             /\ call' \in [Controllers -> OutputCalls]
  <2>1. pc' \in [Actors -> OutputPcValues]
    BY <1>0, <1>7, OutputParts, ActorSets DEF ReplaceLocked, OutputPcValues
  <2>2. emit' \in [Publishers -> EmitValues]
    BY <1>0, <1>7, OutputParts DEF ReplaceLocked, OutputTypeOK
  <2>3. call' \in [Controllers -> OutputCalls]
    <3>1. active \in SUBSET Publishers /\ call \in [Controllers -> OutputCalls]
      BY <1>0 DEF OutputTypeOK
    <3>2. /\ Call("replace", new, expected, active, FALSE) \in OutputCalls
          /\ NoCall \in OutputCalls
      BY <3>1, CallTypes
    <3> QED BY <1>7, <3>1, <3>2 DEF ReplaceLocked
  <2> QED BY <1>0, <1>7, <2>1, <2>2, <2>3 DEF ReplaceLocked, OutputTypeOK
<1>8. ASSUME NEW x \in Controllers, NEW new \in Sinks \cup {None},
             NEW expected \in Sinks \cup {None, "any"}, Replace(x, new, expected)
      PROVE  OutputTypeOK'
  <2>1. CASE lockQueue = <<>>
    <3>1. ReplaceLocked(x, new, expected) /\ lockQueue' \in Seq(Actors)
      BY <1>0, <1>8, <2>1, OutputParts, ActorSets DEF Replace, OutputTypeOK
    <3> QED BY <1>0, <1>7, <1>8, <3>1 DEF Replace, Called, OutputTypeOK
  <2>2. CASE lockQueue # <<>>
    <3>1. lockQueue' \in Seq(Actors) /\ pc' \in [Actors -> OutputPcValues]
      BY <1>0, <1>8, <2>2, OutputParts, ActorSets DEF Replace, OutputPcValues
    <3>2. call' \in [Controllers -> OutputCalls]
      <4>1. Call("replace", new, expected, {}, FALSE) \in OutputCalls
        BY CallTypes
      <4> QED BY <1>0, <1>8, <2>2, <4>1 DEF Replace, OutputTypeOK
    <3> QED BY <1>0, <1>8, <2>2, <3>1, <3>2 DEF Replace, Called, OutputTypeOK
  <2> QED BY <2>1, <2>2
<1>9. ASSUME NEW x \in Controllers, ReplaceAcquires(x)
      PROVE  OutputTypeOK'
  <2>1. lockQueue' \in Seq(Actors)
    BY <1>0, <1>9, OutputParts, ActorSets DEF ReplaceAcquires, OutputTypeOK
  <2>2. /\ call[x].new \in Sinks \cup {None}
        /\ call[x].expected \in Sinks \cup {None, "any"}
        /\ ReplaceLocked(x, call[x].new, call[x].expected)
    BY <1>0, <1>9 DEF ReplaceAcquires, OutputTypeOK, OutputCalls
  <2> QED BY <1>0, <1>7, <1>9, <2>1, <2>2 DEF ReplaceAcquires, OutputTypeOK
<1>10. ASSUME NEW x \in Controllers, ReplaceFinishes(x)
       PROVE  OutputTypeOK'
  <2>1. lockQueue' \in Seq(Actors) /\ pc' \in [Actors -> OutputPcValues]
    BY <1>0, <1>10, OutputParts, ActorSets DEF ReplaceFinishes, OutputPcValues
  <2>2. sink' \in Sinks \cup {None} /\ call' \in [Controllers -> OutputCalls]
    BY <1>0, <1>10, CallTypes DEF ReplaceFinishes, OutputTypeOK, OutputCalls, Installed
  <2> QED BY <1>0, <1>10, <2>1, <2>2 DEF ReplaceFinishes, OutputTypeOK
<1>11. ASSUME NEW m \in Messages, PublishChatbox(m) \/ FlushSends(m)
       PROVE  OutputTypeOK'
  BY <1>0, <1>11 DEF PublishChatbox, FlushSends, OutputTypeOK
<1>12. ASSUME NEW on \in BOOLEAN, SetTyping(on)
       PROVE  OutputTypeOK'
  BY <1>0, <1>12 DEF SetTyping, OutputTypeOK
<1>13. ASSUME Start \/ StartBridge
       PROVE  OutputTypeOK'
  BY <1>0, <1>13 DEF Start, StartBridge, Collected, OutputTypeOK, TaskValues
<1>14. ASSUME NEW t \in Owned, TaskEnds(t)
       PROVE  OutputTypeOK'
  <2>1. task' \in [Owned -> TaskValues]
    BY <1>0, <1>14 DEF TaskEnds, OutputTypeOK, TaskValues
  <2>2. call' \in [Controllers -> OutputCalls]
    <3>1. Closing({}, TRUE) \in OutputCalls
      BY CallTypes
    <3> QED BY <1>0, <1>14, <3>1 DEF TaskEnds, OutputTypeOK
  <2> QED BY <1>0, <1>14, <2>1, <2>2 DEF TaskEnds, OutputTypeOK
<1>15. ASSUME NEW x \in Controllers, CloseBegins(x)
       PROVE  OutputTypeOK'
  <2>1. CancelOwned(x, "flush", FALSE, "deliveries") /\ "deliveries" \in OutputPcValues
    BY <1>15 DEF CloseBegins, OutputPcValues
  <2>2. /\ pc' \in [Actors -> OutputPcValues]
        /\ call' \in [Controllers -> OutputCalls]
        /\ task' \in [Owned -> TaskValues]
    BY <1>0, <2>1, OutputParts, ActorSets
  <2> QED BY <1>0, <1>15, <2>2 DEF CloseBegins, Called, OutputTypeOK
<1>16. ASSUME NEW x \in Controllers, NEW t \in Owned,
              NEW next \in OutputPcValues, TaskCollected(x, t, next)
       PROVE  OutputTypeOK'
  <2>1. pc' \in [Actors -> OutputPcValues]
    BY <1>0, <1>16, OutputParts, ActorSets DEF TaskCollected
  <2> QED BY <1>0, <1>16, <2>1 DEF TaskCollected, OutputTypeOK, TaskValues
<1>17. ASSUME NEW x \in Controllers, CloseWaits(x) \/ CloseCancels(x) \/ CloseGathered(x)
       PROVE  OutputTypeOK'
  <2>1. pc' \in [Actors -> OutputPcValues]
    BY <1>0, <1>17, OutputParts, ActorSets
    DEF CloseWaits, CloseCancels, CloseGathered, OutputPcValues
  <2>2. lockQueue' \in Seq(Actors)
    <3>1. x \in Actors /\ <<x>> \in Seq(Actors)
      BY ActorSets
    <3>2. CASE CloseCancels(x)
      BY <1>0, <3>1, <3>2 DEF CloseCancels, OutputTypeOK
    <3>3. CASE CloseWaits(x) \/ CloseGathered(x)
      BY <1>0, <3>1, <3>3, OutputParts DEF CloseWaits, CloseGathered
    <3> QED BY <1>17, <3>2, <3>3
  <2>3. call[x].failed \in BOOLEAN
    BY <1>0 DEF OutputTypeOK, OutputCalls
  <2>4. call' \in [Controllers -> OutputCalls]
    BY <1>0, <1>17, <2>3, CallTypes
    DEF CloseWaits, CloseCancels, CloseGathered, OutputTypeOK
  <2>5. emit' \in [Publishers -> EmitValues]
    BY <1>0, <1>17, OutputParts DEF CloseWaits, CloseCancels, CloseGathered, OutputTypeOK
  <2> QED BY <1>0, <1>17, <2>1, <2>2, <2>4, <2>5
          DEF CloseWaits, CloseCancels, CloseGathered, OutputTypeOK
<1>18. ASSUME NEW x \in Controllers, CloseClearsChatbox(x)
       PROVE  OutputTypeOK'
  <2>1. PICK b \in BOOLEAN : CancelOwned(x, "bridge", b, "adapter")
    <3>1. call[x].failed \in BOOLEAN
      BY <1>0 DEF OutputTypeOK, OutputCalls
    <3> QED BY <1>0, <1>18, <3>1 DEF CloseClearsChatbox, OutputTypeOK
  <2>2. /\ pc' \in [Actors -> OutputPcValues]
        /\ call' \in [Controllers -> OutputCalls]
        /\ task' \in [Owned -> TaskValues]
    BY <1>0, <2>1, OutputParts, ActorSets DEF OutputPcValues
  <2>3. /\ typingCleared' \in BOOLEAN /\ backlogDropped' \in BOOLEAN
        /\ typing' \in BOOLEAN /\ backlog' \subseteq Messages
    BY <1>0, <1>18 DEF CloseClearsChatbox, OutputTypeOK, Retired
  <2> QED BY <1>0, <1>18, <2>2, <2>3 DEF CloseClearsChatbox, OutputTypeOK
<1>19. ASSUME NEW x \in Controllers, CloseEnds(x)
       PROVE  OutputTypeOK'
  <2>1. pc' \in [Actors -> OutputPcValues]
    BY <1>0, <1>19, OutputParts, ActorSets DEF CloseEnds, OutputPcValues
  <2>2. call' \in [Controllers -> OutputCalls]
    BY <1>0, <1>19, CallTypes DEF CloseEnds, OutputTypeOK
  <2> QED BY <1>0, <1>19, <2>1, <2>2 DEF CloseEnds, OutputTypeOK
<1>20. CASE UNCHANGED vars
  BY <1>0, <1>20 DEF vars, OutputTypeOK
<1>21. "deliveries" \in OutputPcValues /\ "adapter" \in OutputPcValues
  BY DEF OutputPcValues
<1> QED
  BY <1>2, <1>3, <1>4, <1>5, <1>6, <1>8, <1>9, <1>10, <1>11, <1>12, <1>13, <1>14,
     <1>15, <1>16, <1>17, <1>18, <1>19, <1>20, <1>21, ActorSets
  DEF Next, PublisherStep, ReplaceStep, CloseStep

\* What a move of one task, and joining or leaving the lock's queue, does to
\* the task that holds the lock.
LEMMA OutputMoves ==
    ASSUME OutputInv
    PROVE  /\ \A a \in Actors : \A l : Goto(a, l) =>
                /\ pc'[a] = l
                /\ \A b \in Actors : b # a => pc'[b] = pc[b]
           /\ \A a, b \in Actors : Enqueue(b) /\ Holds(a) => Holds(a)'
           /\ \A b \in Actors : Enqueue(b) /\ lockQueue = <<>> => Holds(b)'
           /\ \A x \in Controllers : pc[x] = "gather" =>
                \A a \in Actors : Holds(a) => a = x
           /\ \A x \in Controllers, a \in Actors :
                pc[x] = "gather" /\ a # x => ~ Release(a)
<1> USE DEF OutputInv
<1>1. \A a \in Actors : \A l : Goto(a, l) =>
        /\ pc'[a] = l
        /\ \A b \in Actors : b # a => pc'[b] = pc[b]
  BY DEF OutputTypeOK, Goto
<1>2. ASSUME NEW a \in Actors, NEW b \in Actors, Enqueue(b), Holds(a)
      PROVE  Holds(a)'
  <2>1. lockQueue \in Seq(Actors) /\ lockQueue # <<>> /\ lockQueue[1] = a
    BY <1>2 DEF OutputTypeOK, Holds
  <2>2. lockQueue' = Append(lockQueue, b)
    BY <1>2 DEF Enqueue
  <2>3. Len(lockQueue') = Len(lockQueue) + 1 /\ lockQueue'[1] = a
    BY <2>1, <2>2
  <2> QED BY <2>1, <2>3 DEF Holds
<1>3. \A b \in Actors : Enqueue(b) /\ lockQueue = <<>> => Holds(b)'
  BY DEF OutputTypeOK, Enqueue, Holds
<1>4. \A x \in Controllers : pc[x] = "gather" => \A a \in Actors : Holds(a) => a = x
  BY DEF LockOK, Holds
<1>5. \A x \in Controllers, a \in Actors : pc[x] = "gather" /\ a # x => ~ Release(a)
  BY <1>4 DEF Release
<1> QED BY <1>1, <1>2, <1>3, <1>4, <1>5

\* Every step keeps LockOK.  Only the task that holds the lock starts a
\* delivery, so none starts while a controller waits for those under way.
LEMMA LockStep ==
    ASSUME OutputInv, [Next]_vars
    PROVE  LockOK'
<1> USE DEF delivery, chatbox, cleared, owned, counters
<1>0. OutputTypeOK /\ LockOK /\ DeliveryOK
  BY DEF OutputInv
\* A step that leaves the lock's holder, the deliveries and the places alone.
<1>1. ASSUME UNCHANGED pc, UNCHANGED lockQueue, active' \subseteq active,
             \A x \in Controllers : pc[x] = "gather" => call'[x] = call[x]
      PROVE  LockOK'
  BY <1>0, <1>1 DEF LockOK, Holds
\* A publisher moves while no controller waits for deliveries, or without
\* touching the lock.
<1>2. ASSUME NEW p \in Publishers, NEW l \in {"idle", "lock", "emit"}, Goto(p, l),
             UNCHANGED call,
             \A x \in Controllers : pc[x] = "gather" =>
                 Holds(x)' /\ active' \subseteq active
      PROVE  LockOK'
  <2>1. \A q \in Publishers : pc'[q] \in {"idle", "lock", "emit"}
    BY <1>0, <1>2, OutputMoves, ActorSets DEF LockOK
  <2>2. \A x \in Controllers : pc'[x] = pc[x]
    BY <1>2, OutputMoves, ActorSets
  <2> QED BY <1>0, <1>2, <2>1, <2>2 DEF LockOK
\* A controller moves.
<1>3. ASSUME NEW x \in Controllers, NEW l, l # "emit", Goto(x, l),
             \A y \in Controllers \ {x} : call'[y] = call[y],
             l = "gather" => Holds(x)' /\ active' \subseteq call'[x].tasks,
             \A y \in Controllers \ {x} : pc[y] = "gather" =>
                 Holds(y)' /\ active' \subseteq active
      PROVE  LockOK'
  <2>1. \A q \in Publishers : pc'[q] = pc[q]
    BY <1>3, OutputMoves, ActorSets
  <2>2. \A y \in Controllers \ {x} : pc'[y] = pc[y]
    BY <1>3, OutputMoves, ActorSets
  <2>3. pc'[x] = l
    BY <1>3, OutputMoves, ActorSets
  <2> QED BY <1>0, <1>3, <2>1, <2>2, <2>3 DEF LockOK
<1>4. ASSUME NEW p \in Publishers, NEW e \in Events, Publish(p, e)
      PROVE  LockOK'
  <2>1. CASE lockQueue = <<>>
    <3>1. \A x \in Controllers : pc[x] # "gather"
      BY <1>0, <2>1 DEF LockOK, Holds
    <3>2. Goto(p, "emit") \/ Goto(p, "idle")
      BY <1>4, <2>1 DEF Publish, Deliver
    <3> QED BY <1>2, <1>4, <3>1, <3>2 DEF Publish
  <2>2. CASE lockQueue # <<>>
    <3>1. Enqueue(p) /\ Goto(p, "lock") /\ UNCHANGED <<active, call>>
      BY <1>4, <2>2 DEF Publish
    <3>2. \A x \in Controllers : pc[x] = "gather" => Holds(x)'
      BY <1>0, <3>1, OutputMoves, ActorSets DEF LockOK
    <3> QED BY <1>2, <3>1, <3>2
  <2> QED BY <2>1, <2>2
<1>5. ASSUME NEW p \in Publishers, PublisherAcquires(p)
      PROVE  LockOK'
  <2>1. \A x \in Controllers : pc[x] # "gather"
    BY <1>5, OutputMoves, ActorSets DEF PublisherAcquires
  <2>2. Goto(p, "emit") \/ Goto(p, "idle")
    BY <1>5 DEF PublisherAcquires, Deliver
  <2> QED BY <1>2, <1>5, <2>1, <2>2 DEF PublisherAcquires
<1>6. ASSUME NEW p \in Publishers, PublisherResumes(p)
      PROVE  LockOK'
  <2>1. \A x \in Controllers : pc[x] = "gather" => Holds(x)'
    BY <1>0, <1>6 DEF LockOK, PublisherResumes, Holds
  <2>2. Goto(p, "idle") /\ UNCHANGED call /\ active' \subseteq active
    BY <1>6 DEF PublisherResumes
  <2> QED BY <1>2, <2>1, <2>2
<1>7. ASSUME NEW p \in Publishers, PublisherCancelled(p)
      PROVE  LockOK'
  <2>1. CASE UNCHANGED <<pc, lockQueue>>
    BY <1>1, <1>7, <2>1 DEF PublisherCancelled
  <2>2. CASE Goto(p, "idle") /\ pc[p] = "lock"
    <3>1. PICK i \in DOMAIN lockQueue :
            /\ lockQueue[i] = p
            /\ lockQueue' = SubSeq(lockQueue, 1, i - 1)
                              \o SubSeq(lockQueue, i + 1, Len(lockQueue))
      <4>1. pc[p] # "emit" /\ emit[p] = "none"
        BY <1>0, <2>2 DEF DeliveryOK
      <4> QED BY <1>7, <4>1 DEF PublisherCancelled, EmitDone
    <3>2. ASSUME NEW x \in Controllers, pc[x] = "gather" PROVE Holds(x)'
      <4>1. Holds(x) /\ x # p /\ lockQueue \in Seq(Actors)
        BY <1>0, <3>2, ActorSets DEF LockOK, OutputTypeOK
      <4>2. i # 1
        BY <3>1, <4>1 DEF Holds
      <4> QED BY <3>1, <4>1, <4>2, Dropping DEF Holds
    <3>3. UNCHANGED <<call, active>>
      BY <1>7 DEF PublisherCancelled
    <3> QED BY <1>2, <2>2, <3>2, <3>3
  <2> QED BY <1>7, <2>1, <2>2 DEF PublisherCancelled
<1>8. ASSUME NEW x \in Controllers, NEW new, NEW expected, Replace(x, new, expected)
      PROVE  LockOK'
  <2>1. UNCHANGED active
    BY <1>8 DEF Replace
  <2>2. CASE lockQueue = <<>>
    <3>1. \A y \in Controllers : pc[y] # "gather"
      BY <1>0, <2>2 DEF LockOK, Holds
    <3>2. ReplaceLocked(x, new, expected)
          /\ (IF pc'[x] = "gather" THEN Enqueue(x) ELSE UNCHANGED lockQueue)
      BY <1>8, <2>2 DEF Replace
    <3>3. \/ /\ Goto(x, "gather")
             /\ call' = [call EXCEPT ![x] = Call("replace", new, expected, active, FALSE)]
          \/ Goto(x, "idle") /\ call' = [call EXCEPT ![x] = NoCall]
      BY <3>2 DEF ReplaceLocked
    <3>4. \A y \in Controllers \ {x} : call'[y] = call[y]
      BY <1>0, <3>3 DEF OutputTypeOK
    <3>5. CASE Goto(x, "gather")
               /\ call' = [call EXCEPT ![x] = Call("replace", new, expected, active, FALSE)]
      <4>1. Holds(x)'
        BY <2>2, <3>2, <3>5, OutputMoves, ActorSets
      <4>2. call'[x].tasks = active
        BY <1>0, <3>5 DEF OutputTypeOK, Call
      <4> QED BY <1>3, <2>1, <3>1, <3>4, <3>5, <4>1, <4>2
    <3>6. CASE Goto(x, "idle")
      BY <1>3, <3>1, <3>4, <3>6
    <3> QED BY <3>3, <3>5, <3>6
  <2>3. CASE lockQueue # <<>>
    <3>1. /\ Enqueue(x) /\ Goto(x, "lock")
          /\ call' = [call EXCEPT ![x] = Call("replace", new, expected, {}, FALSE)]
      BY <1>8, <2>3 DEF Replace
    <3>2. \A y \in Controllers : pc[y] = "gather" => Holds(y)'
      BY <1>0, <3>1, OutputMoves, ActorSets DEF LockOK
    <3>3. \A y \in Controllers \ {x} : call'[y] = call[y]
      BY <1>0, <3>1 DEF OutputTypeOK
    <3> QED BY <1>3, <2>1, <3>1, <3>2, <3>3
  <2> QED BY <2>2, <2>3
<1>9. ASSUME NEW x \in Controllers, ReplaceAcquires(x)
      PROVE  LockOK'
  <2>1. Holds(x) /\ pc[x] = "lock" /\ UNCHANGED active
    BY <1>9 DEF ReplaceAcquires
  <2>2. \A y \in Controllers : pc[y] # "gather"
    BY <2>1, OutputMoves, ActorSets
  <2>3. ReplaceLocked(x, call[x].new, call[x].expected)
        /\ (IF pc'[x] = "gather" THEN UNCHANGED lockQueue ELSE Release(x))
    BY <1>9 DEF ReplaceAcquires
  <2>4. \/ /\ Goto(x, "gather")
           /\ call' = [call EXCEPT ![x] =
                         Call("replace", call[x].new, call[x].expected, active, FALSE)]
        \/ Goto(x, "idle") /\ call' = [call EXCEPT ![x] = NoCall]
    BY <2>3 DEF ReplaceLocked
  <2>5. \A y \in Controllers \ {x} : call'[y] = call[y]
    BY <1>0, <2>4 DEF OutputTypeOK
  <2>6. CASE Goto(x, "gather")
             /\ call' = [call EXCEPT ![x] =
                           Call("replace", call[x].new, call[x].expected, active, FALSE)]
    <3>1. Holds(x)'
      BY <2>1, <2>3, <2>6, OutputMoves, ActorSets DEF Holds
    <3>2. call'[x].tasks = active
      BY <1>0, <2>6 DEF OutputTypeOK, Call
    <3> QED BY <1>3, <2>1, <2>2, <2>5, <2>6, <3>1, <3>2
  <2>7. CASE Goto(x, "idle")
    BY <1>3, <2>2, <2>5, <2>7
  <2> QED BY <2>4, <2>6, <2>7
<1>10. ASSUME NEW x \in Controllers, ReplaceFinishes(x) \/ CloseGathered(x)
       PROVE  LockOK'
  <2>1. /\ pc[x] = "gather" /\ active' \subseteq active
        /\ Goto(x, "idle") \/ Goto(x, "chatbox")
        /\ call' \in {call, [call EXCEPT ![x] = NoCall]}
    BY <1>10 DEF ReplaceFinishes, CloseGathered
  <2>2. \A y \in Controllers \ {x} : pc[y] # "gather"
    BY <1>0, <2>1, OutputMoves, ActorSets DEF LockOK
  <2>3. \A y \in Controllers \ {x} : call'[y] = call[y]
    BY <1>0, <2>1 DEF OutputTypeOK
  <2> QED BY <1>3, <2>1, <2>2, <2>3
<1>11. ASSUME NEW x \in Controllers, NEW t \in Owned, NEW b,
              NEW next \in {"deliveries", "adapter"},
              CancelOwned(x, t, b, next), UNCHANGED <<lockQueue, active>>
       PROVE  LockOK'
  <2>1. Goto(x, next) \/ Goto(x, t)
    BY <1>11 DEF CancelOwned
  <2>2. next \notin {"emit", "gather"} /\ t \notin {"emit", "gather"}
    BY DEF Owned
  <2>3. \A y \in Controllers \ {x} : call'[y] = call[y]
    BY <1>0, <1>11 DEF CancelOwned, OutputTypeOK
  <2>4. \A y \in Controllers \ {x} : pc[y] = "gather" => Holds(y)'
    BY <1>0, <1>11 DEF LockOK, Holds
  <2> QED BY <1>3, <1>11, <2>1, <2>2, <2>3, <2>4
<1>12. ASSUME NEW x \in Controllers, CloseBegins(x) \/ CloseClearsChatbox(x)
       PROVE  LockOK'
  <2>1. UNCHANGED <<lockQueue, active>>
    BY <1>12 DEF CloseBegins, CloseClearsChatbox
  <2>2. \/ CancelOwned(x, "flush", FALSE, "deliveries")
        \/ \E b : CancelOwned(x, "bridge", b, "adapter")
    BY <1>12 DEF CloseBegins, CloseClearsChatbox
  <2> QED BY <1>11, <2>1, <2>2, ActorSets
<1>13. ASSUME NEW x \in Controllers, NEW t \in Owned,
              NEW next \in {"deliveries", "adapter"}, TaskCollected(x, t, next)
       PROVE  LockOK'
  <2>1. Goto(x, next) /\ UNCHANGED <<lockQueue, active, call>>
    BY <1>13 DEF TaskCollected
  <2>2. \A y \in Controllers : pc[y] = "gather" => Holds(y)'
    BY <1>0, <2>1 DEF LockOK, Holds
  <2> QED BY <1>3, <2>1, <2>2
<1>14. ASSUME NEW x \in Controllers, CloseWaits(x)
       PROVE  LockOK'
  <2>1. Goto(x, "lock") /\ Enqueue(x) /\ UNCHANGED <<active, call>>
    BY <1>14 DEF CloseWaits
  <2>2. \A y \in Controllers : pc[y] = "gather" => Holds(y)'
    BY <1>0, <2>1, OutputMoves, ActorSets DEF LockOK
  <2> QED BY <1>3, <2>1, <2>2
<1>15. ASSUME NEW x \in Controllers, CloseCancels(x)
       PROVE  LockOK'
  <2>1. /\ lockQueue = <<>> \/ (Holds(x) /\ pc[x] = "lock")
        /\ lockQueue' = IF lockQueue = <<>> THEN <<x>> ELSE lockQueue
        /\ Goto(x, "gather") /\ UNCHANGED active
        /\ call' = [call EXCEPT ![x] = Closing(active, call[x].failed)]
    <3>1. lockQueue = <<>> \/ (Holds(x) /\ pc[x] = "lock")
      BY <1>15 DEF CloseCancels
    <3>2. /\ lockQueue' = IF lockQueue = <<>> THEN <<x>> ELSE lockQueue
          /\ Goto(x, "gather") /\ UNCHANGED active
          /\ call' = [call EXCEPT ![x] = Closing(active, call[x].failed)]
      BY <1>15 DEF CloseCancels
    <3> QED BY <3>1, <3>2
  <2>2. \A y \in Controllers : pc[y] # "gather"
    BY <1>0, <2>1, OutputMoves, ActorSets DEF LockOK, Holds
  <2>3. Holds(x)'
    BY <2>1 DEF Holds
  <2>4. call'[x].tasks = active /\ \A y \in Controllers \ {x} : call'[y] = call[y]
    BY <1>0, <2>1 DEF OutputTypeOK, Closing, Call
  <2> QED BY <1>3, <2>1, <2>2, <2>3, <2>4
<1>16. ASSUME NEW x \in Controllers, CloseEnds(x)
       PROVE  LockOK'
  <2>1. /\ Goto(x, "idle") /\ UNCHANGED <<lockQueue, active>>
        /\ call' = [call EXCEPT ![x] = NoCall]
    BY <1>16 DEF CloseEnds
  <2>2. \A y \in Controllers : pc[y] = "gather" => Holds(y)'
    BY <1>0, <2>1 DEF LockOK, Holds
  <2>3. \A y \in Controllers \ {x} : call'[y] = call[y]
    BY <1>0, <2>1 DEF OutputTypeOK
  <2> QED BY <1>3, <2>1, <2>2, <2>3
<1>17. ASSUME NEW p \in Publishers, NEW o, EmitEnds(p, o)
       PROVE  LockOK'
  BY <1>1, <1>17 DEF EmitEnds
<1>18. ASSUME NEW m, PublishChatbox(m) \/ FlushSends(m) \/ SetTyping(m)
       PROVE  LockOK'
  BY <1>1, <1>18 DEF PublishChatbox, FlushSends, SetTyping
<1>19. CASE Start \/ StartBridge \/ UNCHANGED vars
  BY <1>1, <1>19 DEF Start, StartBridge, vars
<1>20. ASSUME NEW t \in Owned, TaskEnds(t)
       PROVE  LockOK'
  <2>1. UNCHANGED <<pc, lockQueue, active>>
    BY <1>20 DEF TaskEnds
  <2>2. \A x \in Controllers : pc[x] = "gather" => call'[x] = call[x]
    BY <1>20 DEF TaskEnds, Owned
  <2> QED BY <1>1, <2>1, <2>2
<1> QED
  BY <1>4, <1>5, <1>6, <1>7, <1>8, <1>9, <1>10, <1>12, <1>13, <1>14, <1>15, <1>16,
     <1>17, <1>18, <1>19, <1>20, ActorSets
  DEF Next, PublisherStep, ReplaceStep, CloseStep

\* Every step keeps DeliveryOK.  A delivery is started for an event that is not
\* in flight, and once the deliveries are gathered none is left, so that the
\* sink may change and the events in flight may be forgotten.
LEMMA DeliveryStep ==
    ASSUME OutputInv, [Next]_vars
    PROVE  DeliveryOK'
<1> USE DEF delivery, chatbox, cleared, owned, counters
<1>0. OutputTypeOK /\ LockOK /\ DeliveryOK
  BY DEF OutputInv
\* A step that only changes places of controllers and outcomes of deliveries.
<1>1. ASSUME UNCHANGED <<inFlight, active, event, target>>,
             \A p \in Publishers :
                /\ pc'[p] = pc[p]
                /\ emit'[p] # "none" <=> emit[p] # "none",
             sink' = sink \/ active = {}
      PROVE  DeliveryOK'
  BY <1>0, <1>1 DEF DeliveryOK, InFlightExact
\* A controller moves, the deliveries are left alone.
<1>2. ASSUME NEW x \in Controllers, NEW l, Goto(x, l),
             UNCHANGED <<inFlight, active, event, target, emit>>,
             sink' = sink \/ active = {}
      PROVE  DeliveryOK'
  <2>1. \A p \in Publishers : pc'[p] = pc[p]
    BY <1>2, OutputMoves, ActorSets
  <2> QED BY <1>1, <1>2, <2>1
\* A controller that waited for the deliveries goes on: none is left.
<1>3. ASSUME NEW x \in Controllers, NEW l, Goto(x, l), pc[x] = "gather",
             DeliveriesGathered(x), active' = active \ call[x].tasks,
             inFlight' \in {{}, inFlight}, UNCHANGED <<event, target, emit>>
      PROVE  DeliveryOK'
  <2>1. \A p \in Publishers : pc'[p] = pc[p] /\ pc[p] # "emit"
    <3>1. active \subseteq call[x].tasks
      BY <1>0, <1>3 DEF LockOK
    <3>2. active = {}
      BY <1>0, <1>3, <3>1 DEF DeliveriesGathered, DeliveryOK, InFlightExact
    <3> QED BY <1>0, <1>3, <3>2, OutputMoves, ActorSets DEF DeliveryOK, InFlightExact
  <2>2. active = {} /\ inFlight = {}
    BY <1>0, <2>1 DEF DeliveryOK, InFlightExact
  <2> QED BY <1>0, <1>3, <2>1, <2>2 DEF DeliveryOK, InFlightExact
\* A publisher that awaits no delivery moves, without starting one.
<1>4. ASSUME NEW p \in Publishers, NEW l \in {"idle", "lock"}, Goto(p, l),
             pc[p] # "emit", UNCHANGED <<sink, inFlight, active, target, emit>>,
             NEW v, event' = [event EXCEPT ![p] = v], l = "lock" => v \in Events
      PROVE  DeliveryOK'
  <2>1. pc'[p] = l /\ \A q \in Publishers : q # p => pc'[q] = pc[q]
    BY <1>4, OutputMoves, ActorSets
  <2>2. event'[p] = v /\ \A q \in Publishers : q # p => event'[q] = event[q]
    BY <1>0, <1>4 DEF OutputTypeOK
  <2>3. p \notin active
    BY <1>0, <1>4 DEF DeliveryOK, InFlightExact
  <2>4. InFlightExact'
    BY <1>0, <1>4, <2>1, <2>2, <2>3 DEF DeliveryOK, InFlightExact
  <2> QED BY <1>0, <1>4, <2>1, <2>2, <2>3, <2>4 DEF DeliveryOK, InFlightExact
\* The critical section of publish_overlay_event.
<1>5. ASSUME NEW p \in Publishers, NEW e \in Events, pc[p] # "emit",
             Deliver(p, e), UNCHANGED sink
      PROVE  DeliveryOK'
  <2>1. CASE Accepting /\ sink # None /\ ~ Duplicate(e)
    <3>1. /\ inFlight' = inFlight \cup {e}
          /\ active' = active \cup {p}
          /\ event' = [event EXCEPT ![p] = e]
          /\ target' = [target EXCEPT ![p] = sink]
          /\ emit' = [emit EXCEPT ![p] = "running"]
          /\ Goto(p, "emit")
      BY <1>5, <2>1 DEF Deliver
    <3>2. pc'[p] = "emit" /\ \A q \in Publishers : q # p => pc'[q] = pc[q]
      BY <3>1, OutputMoves, ActorSets
    <3>3. /\ event'[p] = e /\ target'[p] = sink /\ emit'[p] = "running"
          /\ \A q \in Publishers : q # p =>
               /\ event'[q] = event[q]
               /\ target'[q] = target[q]
               /\ emit'[q] = emit[q]
      BY <1>0, <3>1 DEF OutputTypeOK
    <3>4. p \notin active /\ active \subseteq Publishers
      BY <1>0, <1>5 DEF DeliveryOK, InFlightExact, OutputTypeOK
    <3>5. \A q \in active : event[q] # e
      BY <1>0, <2>1 DEF DeliveryOK, InFlightExact, Duplicate
    <3>6. InFlightExact'
      <4>1. active' = {q \in Publishers : pc'[q] = "emit"}
        BY <1>0, <3>1, <3>2, <3>4 DEF DeliveryOK, InFlightExact
      <4>2. inFlight' = {event'[q] : q \in active'}
        BY <1>0, <3>1, <3>3, <3>4 DEF DeliveryOK, InFlightExact
      <4> QED BY <4>1, <4>2 DEF InFlightExact
    <3>7. \A q, r \in active' : event'[q] = event'[r] => q = r
      BY <1>0, <3>1, <3>3, <3>4, <3>5 DEF DeliveryOK
    <3> QED BY <1>0, <1>5, <3>2, <3>3, <3>6, <3>7 DEF DeliveryOK
  <2>2. CASE ~ (Accepting /\ sink # None /\ ~ Duplicate(e))
    <3>1. /\ event' = [event EXCEPT ![p] = None] /\ Goto(p, "idle")
          /\ UNCHANGED <<inFlight, active, target, emit>>
      BY <1>5, <2>2 DEF Deliver
    <3> QED BY <1>4, <1>5, <3>1
  <2> QED BY <2>1, <2>2
<1>6. ASSUME NEW p \in Publishers, NEW e \in Events, Publish(p, e)
      PROVE  DeliveryOK'
  <2>1. pc[p] # "emit" /\ UNCHANGED sink
    BY <1>6 DEF Publish
  <2>2. CASE lockQueue = <<>>
    BY <1>5, <1>6, <2>1, <2>2 DEF Publish
  <2>3. CASE lockQueue # <<>>
    <3>1. /\ Goto(p, "lock") /\ event' = [event EXCEPT ![p] = e]
          /\ UNCHANGED <<inFlight, active, target, emit>>
      BY <1>6, <2>3 DEF Publish
    <3> QED BY <1>4, <2>1, <3>1
  <2> QED BY <2>2, <2>3
<1>7. ASSUME NEW p \in Publishers, PublisherAcquires(p)
      PROVE  DeliveryOK'
  <2>1. pc[p] = "lock" /\ Deliver(p, event[p]) /\ UNCHANGED sink
    BY <1>7 DEF PublisherAcquires
  <2>2. event[p] \in Events
    BY <1>0, <2>1 DEF DeliveryOK
  <2> QED BY <1>5, <2>1, <2>2
<1>8. ASSUME NEW p \in Publishers, NEW o \in {"returned", "raised", "cancelled"},
             EmitEnds(p, o)
      PROVE  DeliveryOK'
  <2>1. /\ emit' = [emit EXCEPT ![p] = o] /\ emit[p] # "none"
        /\ UNCHANGED <<sink, inFlight, active, event, target, pc>>
    BY <1>8 DEF EmitEnds
  <2>2. \A q \in Publishers : emit'[q] # "none" <=> emit[q] # "none"
    BY <1>0, <2>1 DEF OutputTypeOK
  <2> QED BY <1>1, <2>1, <2>2
<1>9. ASSUME NEW p \in Publishers, PublisherResumes(p)
      PROVE  DeliveryOK'
  <2>1. /\ pc[p] = "emit" /\ UNCHANGED sink
        /\ inFlight' = inFlight \ {event[p]}
        /\ active' = active \ {p}
        /\ event' = [event EXCEPT ![p] = None]
        /\ target' = [target EXCEPT ![p] = None]
        /\ emit' = [emit EXCEPT ![p] = "none"]
        /\ Goto(p, "idle")
    BY <1>9 DEF PublisherResumes, Landed
  <2>2. pc'[p] = "idle" /\ \A q \in Publishers : q # p => pc'[q] = pc[q]
    BY <2>1, OutputMoves, ActorSets
  <2>3. /\ emit'[p] = "none"
        /\ \A q \in Publishers : q # p =>
             /\ event'[q] = event[q]
             /\ target'[q] = target[q]
             /\ emit'[q] = emit[q]
    BY <1>0, <2>1 DEF OutputTypeOK
  <2>4. p \in active /\ active \subseteq Publishers
    BY <1>0, <2>1 DEF DeliveryOK, InFlightExact
  <2>5. InFlightExact'
    <3>1. active' = {q \in Publishers : pc'[q] = "emit"}
      BY <1>0, <2>1, <2>2 DEF DeliveryOK, InFlightExact
    <3>2. inFlight' = {event'[q] : q \in active'}
      <4>1. \A q \in active' : q # p /\ q \in active /\ event'[q] = event[q]
        BY <2>1, <2>3, <2>4
      <4>2. \A q \in active' : event[q] # event[p]
        BY <1>0, <2>4, <4>1 DEF DeliveryOK
      <4> QED BY <1>0, <2>1, <2>4, <4>1, <4>2 DEF DeliveryOK, InFlightExact
    <3> QED BY <3>1, <3>2 DEF InFlightExact
  <2>6. \A q, r \in active' : event'[q] = event'[r] => q = r
    BY <1>0, <2>1, <2>3, <2>4 DEF DeliveryOK
  <2> QED BY <1>0, <2>1, <2>2, <2>3, <2>5, <2>6 DEF DeliveryOK
<1>10. ASSUME NEW p \in Publishers, PublisherCancelled(p)
       PROVE  DeliveryOK'
  <2>1. UNCHANGED <<sink, inFlight, active, target>>
    BY <1>10 DEF PublisherCancelled
  <2>2. CASE /\ pc[p] = "lock" /\ event' = [event EXCEPT ![p] = None]
             /\ Goto(p, "idle") /\ UNCHANGED emit
    BY <1>4, <2>1, <2>2
  <2>3. CASE /\ emit[p] = "running" /\ emit' = [emit EXCEPT ![p] = "cancelling"]
             /\ UNCHANGED <<pc, event>>
    <3>1. \A q \in Publishers : emit'[q] # "none" <=> emit[q] # "none"
      BY <1>0, <2>3 DEF OutputTypeOK
    <3> QED BY <1>1, <2>1, <2>3, <3>1
  <2>4. CASE UNCHANGED <<pc, event, emit>>
    BY <1>1, <2>1, <2>4
  <2> QED BY <1>10, <2>2, <2>3, <2>4 DEF PublisherCancelled
<1>11. ASSUME NEW x \in Controllers, NEW new, NEW expected,
              ReplaceLocked(x, new, expected),
              UNCHANGED <<inFlight, active, event, target>>
       PROVE  DeliveryOK'
  <2>1. \A p \in Publishers : emit'[p] # "none" <=> emit[p] # "none"
    BY <1>11 DEF ReplaceLocked, CancelDeliveries
  <2>2. sink' = sink \/ active = {}
    BY <1>11 DEF ReplaceLocked
  <2>3. \A p \in Publishers : pc'[p] = pc[p]
    BY <1>11, OutputMoves, ActorSets DEF ReplaceLocked
  <2> QED BY <1>1, <1>11, <2>1, <2>2, <2>3
<1>12. ASSUME NEW x \in Controllers, NEW new, NEW expected, Replace(x, new, expected)
       PROVE  DeliveryOK'
  <2>1. CASE lockQueue = <<>>
    BY <1>11, <1>12, <2>1 DEF Replace
  <2>2. CASE lockQueue # <<>>
    BY <1>2, <1>12, <2>2 DEF Replace
  <2> QED BY <2>1, <2>2
<1>13. ASSUME NEW x \in Controllers, ReplaceAcquires(x)
       PROVE  DeliveryOK'
  BY <1>11, <1>13 DEF ReplaceAcquires
<1>14. ASSUME NEW x \in Controllers, ReplaceFinishes(x)
       PROVE  DeliveryOK'
  BY <1>3, <1>14 DEF ReplaceFinishes
<1>15. ASSUME NEW x \in Controllers, CloseGathered(x)
       PROVE  DeliveryOK'
  <2>1. inFlight' \in {{}, inFlight}
    BY <1>15 DEF CloseGathered
  <2> QED BY <1>3, <1>15, <2>1 DEF CloseGathered
<1>16. ASSUME NEW x \in Controllers, CloseCancels(x)
       PROVE  DeliveryOK'
  <2>1. \A p \in Publishers : emit'[p] # "none" <=> emit[p] # "none"
    BY <1>16 DEF CloseCancels, CancelDeliveries
  <2>2. \A p \in Publishers : pc'[p] = pc[p]
    BY <1>16, OutputMoves, ActorSets DEF CloseCancels
  <2> QED BY <1>1, <1>16, <2>1, <2>2 DEF CloseCancels
<1>17. ASSUME NEW x \in Controllers,
              \/ CloseBegins(x) \/ CloseClearsChatbox(x)
              \/ CloseWaits(x) \/ CloseEnds(x)
       PROVE  DeliveryOK'
  <2>1. UNCHANGED <<sink, inFlight, active, event, target, emit>>
    BY <1>17 DEF CloseBegins, CloseClearsChatbox, CloseWaits, CloseEnds
  <2>2. \E l : Goto(x, l)
    BY <1>17 DEF CloseBegins, CloseClearsChatbox, CloseWaits, CloseEnds, CancelOwned
  <2> QED BY <1>2, <2>1, <2>2
<1>18. ASSUME NEW x \in Controllers, NEW t, NEW next, TaskCollected(x, t, next)
       PROVE  DeliveryOK'
  BY <1>2, <1>18 DEF TaskCollected
<1>19. ASSUME NEW m,
              \/ PublishChatbox(m) \/ FlushSends(m) \/ SetTyping(m)
              \/ TaskEnds(m) \/ Start \/ StartBridge \/ UNCHANGED vars
       PROVE  DeliveryOK'
  BY <1>1, <1>19
  DEF PublishChatbox, FlushSends, SetTyping, TaskEnds, Start, StartBridge, vars
<1> QED
  BY <1>6, <1>7, <1>8, <1>9, <1>10, <1>12, <1>13, <1>14, <1>15, <1>16, <1>17,
     <1>18, <1>19
  DEF Next, PublisherStep, ReplaceStep, CloseStep

\* The inductive invariant of the output runtime.
THEOREM OutputInvariance == Spec => []OutputInv
<1>1. Init => OutputInv
  <2>1. Init => OutputTypeOK
    <3>1. <<>> \in Seq(Actors) /\ NoCall \in OutputCalls
      BY CallTypes
    <3>2. "idle" \in OutputPcValues /\ "none" \in EmitValues /\ "none" \in TaskValues
      BY DEF OutputPcValues, EmitValues, TaskValues
    <3>3. Init => /\ pc \in [Actors -> OutputPcValues]
                  /\ event \in [Publishers -> Events \cup {None}]
                  /\ target \in [Publishers -> Sinks \cup {None}]
                  /\ emit \in [Publishers -> EmitValues]
                  /\ emitted \in [Events -> Nat]
                  /\ task \in [Owned -> TaskValues]
                  /\ call \in [Controllers -> OutputCalls]
      BY <3>1, <3>2 DEF Init
    <3>4. Init => lockQueue \in Seq(Actors)
      BY <3>1 DEF Init
    <3>5. Init => /\ state \in {"open", "closing", "closed"}
                  /\ sink \in Sinks \cup {None}
                  /\ delivered \subseteq Events \cup Messages
                  /\ inFlight \subseteq Events
                  /\ active \subseteq Publishers /\ replaced \subseteq Publishers
                  /\ interrupted \subseteq Publishers
                  /\ backlog \subseteq Messages
                  /\ publications \in Nat /\ calls \in Nat
      BY DEF Init
    <3>6. Init => /\ typing \in BOOLEAN
                  /\ typingCleared \in BOOLEAN /\ backlogDropped \in BOOLEAN
                  /\ adapter \in BOOLEAN /\ oldFailure \in BOOLEAN
      BY DEF Init
    <3> QED BY <3>3, <3>4, <3>5, <3>6 DEF OutputTypeOK
  <2>2. Init => LockOK /\ DeliveryOK
    BY ActorSets DEF Init, LockOK, DeliveryOK, InFlightExact
  <2> QED BY <2>1, <2>2 DEF OutputInv
<1>2. OutputInv /\ [Next]_vars => OutputInv'
  BY OutputTypeStep, LockStep, DeliveryStep DEF OutputInv
<1> QED BY <1>1, <1>2, PTL DEF Spec

\* Type correctness of the output runtime.
THEOREM OutputTypes == Spec => []OutputTypeOK
<1>1. OutputInv => OutputTypeOK
  BY DEF OutputInv
<1> QED BY <1>1, OutputInvariance, PTL

\* replace_overlay_sink never leaves a delivery running for the old sink.
THEOREM DeliversToCurrentSink == Spec => []OneDestination
<1>1. OutputInv => OneDestination
  BY DEF OutputInv, DeliveryOK, OneDestination
<1> QED BY <1>1, OutputInvariance, PTL

\* The identities in flight are those publishers wait for, in every state.
THEOREM InFlightIsExact == Spec => []InFlightExact
<1>1. OutputInv => InFlightExact
  BY DEF OutputInv, DeliveryOK
<1> QED BY <1>1, OutputInvariance, PTL

\* Once close() began no delivery starts, the chatbox gets no message and no
\* typing reason: publishers that wait for the lock look at the state again.
THEOREM ClosingIsQuiet == Spec => QuietOnceClosing
<1> DEFINE Quiet == /\ \A p \in Publishers : emit'[p] = "running" => emit[p] = "running"
                    /\ backlog' \subseteq backlog
                    /\ typing' => typing
<1> USE DEF delivery, chatbox, cleared, owned, counters
<1>1. ASSUME OutputInv, Next, state # "open"
      PROVE  Quiet
  <2>0. OutputTypeOK /\ ~ Accepting
    BY <1>1 DEF OutputInv, Accepting
  <2>1. ASSUME UNCHANGED <<emit, chatbox>> PROVE Quiet
    BY <2>1
  <2>2. ASSUME NEW p \in Publishers, NEW e \in Events, Publish(p, e)
        PROVE  Quiet
    <3>1. UNCHANGED <<emit, chatbox>>
      BY <2>0, <2>2 DEF Publish, Deliver
    <3> QED BY <2>1, <3>1
  <2>3. ASSUME NEW p \in Publishers, PublisherAcquires(p)
        PROVE  Quiet
    <3>1. UNCHANGED <<emit, chatbox>>
      BY <2>0, <2>3 DEF PublisherAcquires, Deliver
    <3> QED BY <2>1, <3>1
  <2>4. ASSUME NEW p \in Publishers, NEW o \in {"returned", "raised", "cancelled"},
               EmitEnds(p, o)
        PROVE  Quiet
    BY <2>0, <2>4 DEF EmitEnds, OutputTypeOK
  <2>5. ASSUME NEW p \in Publishers, PublisherResumes(p)
        PROVE  Quiet
    BY <2>0, <2>5 DEF PublisherResumes, OutputTypeOK
  <2>6. ASSUME NEW p \in Publishers, PublisherCancelled(p)
        PROVE  Quiet
    <3>1. UNCHANGED chatbox
      BY <2>6 DEF PublisherCancelled
    <3>2. emit' = emit \/ emit' = [emit EXCEPT ![p] = "cancelling"]
      BY <2>6 DEF PublisherCancelled
    <3> QED BY <2>0, <3>1, <3>2 DEF OutputTypeOK
  <2>7. ASSUME NEW x \in Controllers, NEW new, NEW expected,
               ReplaceLocked(x, new, expected), UNCHANGED chatbox
        PROVE  Quiet
    BY <2>0, <2>7 DEF ReplaceLocked, CancelDeliveries
  <2>8. ASSUME NEW x \in Controllers, NEW new, NEW expected, Replace(x, new, expected)
        PROVE  Quiet
    BY <1>1, <2>8 DEF Replace
  <2>9. ASSUME NEW x \in Controllers, ReplaceAcquires(x)
        PROVE  Quiet
    BY <2>7, <2>9 DEF ReplaceAcquires
  <2>10. ASSUME NEW x \in Controllers, CloseCancels(x)
         PROVE  Quiet
    BY <2>10 DEF CloseCancels, CancelDeliveries
  <2>11. ASSUME NEW x \in Controllers, CloseClearsChatbox(x)
         PROVE  Quiet
    BY <2>0, <2>11 DEF CloseClearsChatbox, OutputTypeOK
  <2>12. ASSUME NEW m, PublishChatbox(m) \/ SetTyping(m)
         PROVE  Quiet
    BY <2>0, <2>12 DEF PublishChatbox, SetTyping
  <2>13. ASSUME NEW m, FlushSends(m)
         PROVE  Quiet
    BY <2>13 DEF FlushSends
  <2>14. ASSUME NEW x, NEW t, NEW next,
                \/ ReplaceFinishes(x) \/ CloseBegins(x) \/ CloseWaits(x)
                \/ CloseGathered(x) \/ CloseEnds(x) \/ TaskCollected(x, t, next)
                \/ TaskEnds(t) \/ Start \/ StartBridge
         PROVE  Quiet
    <3>1. UNCHANGED <<emit, chatbox>>
      BY <2>14
      DEF ReplaceFinishes, CloseBegins, CloseWaits, CloseGathered, CloseEnds,
          TaskCollected, TaskEnds, Start, StartBridge
    <3> QED BY <2>1, <3>1
  <2> QED
    BY <1>1, <2>2, <2>3, <2>4, <2>5, <2>6, <2>8, <2>9, <2>10, <2>11, <2>12, <2>13,
       <2>14
    DEF Next, PublisherStep, ReplaceStep, CloseStep
<1>2. OutputInv /\ [Next]_vars => [state # "open" => Quiet]_vars
  BY <1>1
<1> QED BY <1>2, OutputInvariance, PTL DEF Spec, QuietOnceClosing

\* Every step keeps OnceOK while no publisher is cancelled: an emit that returned
\* leaves its identity in flight until its publisher remembers it.
LEMMA OnceStep ==
    ASSUME OnceInv, [Next]_vars, Aborts = {}
    PROVE  OnceOK'
<1> USE DEF delivery, chatbox, cleared, owned, counters
<1>0. OutputTypeOK /\ LockOK /\ DeliveryOK /\ OnceOK
  BY DEF OnceInv, OutputInv
\* A step that leaves the deliveries and the identities alone, but may request
\* the cancellation of deliveries.
<1>1. ASSUME UNCHANGED <<interrupted, active, event, emitted>>,
             delivered \subseteq delivered',
             \A k \in delivered' : k \in delivered \/ k \notin Events,
             \A p \in Publishers : emit[p] = "returned" => emit'[p] = "returned"
      PROVE  OnceOK'
  <2>1. \A p \in active : event[p] \in Events /\ p \in Publishers
    BY <1>0 DEF DeliveryOK, InFlightExact
  <2> QED BY <1>0, <1>1, <2>1 DEF OnceOK
<1>2. ASSUME NEW p \in Publishers, NEW e \in Events, pc[p] # "emit", Deliver(p, e)
      PROVE  OnceOK'
  <2>1. p \notin active /\ active \subseteq Publishers
    BY <1>0, <1>2 DEF DeliveryOK, InFlightExact
  <2>2. /\ UNCHANGED <<interrupted, emitted, delivered>>
        /\ active' = active \/ (active' = active \cup {p} /\ event'[p] = e /\ e \notin delivered)
    BY <1>0, <1>2 DEF Deliver, Duplicate, OutputTypeOK
  <2>3. \A q \in active : event'[q] = event[q] /\ emit'[q] = emit[q]
    BY <1>0, <1>2, <2>1 DEF Deliver, OutputTypeOK
  <2> QED BY <1>0, <2>1, <2>2, <2>3 DEF OnceOK
<1>3. ASSUME NEW p \in Publishers, NEW e \in Events, Publish(p, e)
      PROVE  OnceOK'
  <2>1. CASE lockQueue = <<>>
    BY <1>2, <1>3, <2>1 DEF Publish
  <2>2. CASE lockQueue # <<>>
    <3>1. /\ UNCHANGED <<interrupted, active, emitted, delivered, emit>>
          /\ event' = [event EXCEPT ![p] = e] /\ pc[p] # "emit"
      BY <1>3, <2>2 DEF Publish
    <3>2. p \notin active /\ active \subseteq Publishers
      BY <1>0, <3>1 DEF DeliveryOK, InFlightExact
    <3>3. \A q \in active : event'[q] = event[q]
      BY <1>0, <3>1, <3>2 DEF OutputTypeOK
    <3> QED BY <1>0, <3>1, <3>2, <3>3 DEF OnceOK
  <2> QED BY <2>1, <2>2
<1>4. ASSUME NEW p \in Publishers, PublisherAcquires(p)
      PROVE  OnceOK'
  <2>1. pc[p] = "lock" /\ Deliver(p, event[p])
    BY <1>4 DEF PublisherAcquires
  <2>2. event[p] \in Events
    BY <1>0, <2>1 DEF DeliveryOK
  <2> QED BY <1>2, <2>1, <2>2
<1>5. ASSUME NEW p \in Publishers, NEW o \in {"returned", "raised", "cancelled"},
             EmitEnds(p, o)
      PROVE  OnceOK'
  <2>1. /\ emit[p] \in {"running", "cancelling"}
        /\ emit' = [emit EXCEPT ![p] = o]
        /\ emitted' = IF o = "returned" THEN [emitted EXCEPT ![event[p]] = @ + 1]
                                        ELSE emitted
        /\ UNCHANGED <<interrupted, active, event, delivered>>
    BY <1>5 DEF EmitEnds
  <2>2. p \in active /\ event[p] \in Events /\ active \subseteq Publishers
    BY <1>0, <2>1 DEF DeliveryOK, InFlightExact
  <2>3. emit'[p] = o /\ \A q \in Publishers : q # p => emit'[q] = emit[q]
    BY <1>0, <2>1 DEF OutputTypeOK
  <2>4. emitted[event[p]] # 1
    BY <1>0, <2>1, <2>2 DEF OnceOK, DeliveryOK
  <2>5. emitted[event[p]] = 0
    BY <1>0, <2>2, <2>4 DEF OnceOK, OutputTypeOK
  <2>6. CASE o = "returned"
    <3>1. /\ emitted'[event[p]] = 1
          /\ \A e \in Events : e # event[p] => emitted'[e] = emitted[e]
      BY <1>0, <2>1, <2>2, <2>5, <2>6 DEF OutputTypeOK
    <3>2. ASSUME NEW e \in Events
          PROVE  /\ emitted'[e] <= 1
                 /\ emitted'[e] = 1 => \/ e \in delivered
                                       \/ \E q \in active : event[q] = e /\ emit'[q] = "returned"
      <4>1. CASE e = event[p]
        BY <2>2, <2>3, <2>6, <3>1, <4>1
      <4>2. CASE e # event[p]
        <5>1. \A q \in active : emit[q] = "returned" => emit'[q] = "returned"
          BY <2>2, <2>3, <2>6
        <5> QED BY <1>0, <3>1, <4>2, <5>1 DEF OnceOK
      <4> QED BY <4>1, <4>2
    <3> QED BY <1>0, <2>1, <3>2 DEF OnceOK
  <2>7. CASE o # "returned"
    <3>1. \A q \in active : emit[q] = "returned" => emit'[q] = "returned"
      BY <2>1, <2>2, <2>3
    <3> QED BY <1>0, <2>1, <2>7, <3>1 DEF OnceOK
  <2> QED BY <2>6, <2>7
<1>6. ASSUME NEW p \in Publishers, PublisherResumes(p)
      PROVE  OnceOK'
  <2>1. /\ pc[p] = "emit" /\ UNCHANGED emitted
        /\ delivered' = IF emit[p] = "returned" /\ p \notin interrupted
                          THEN delivered \cup {event[p]} ELSE delivered
        /\ active' = active \ {p}
        /\ interrupted' = interrupted \ {p}
        /\ event' = [event EXCEPT ![p] = None]
        /\ emit' = [emit EXCEPT ![p] = "none"]
    BY <1>6 DEF PublisherResumes
  <2>2. p \in active /\ active \subseteq Publishers
    BY <1>0, <2>1 DEF DeliveryOK, InFlightExact
  <2>3. \A q \in active' : q \in active /\ event'[q] = event[q] /\ emit'[q] = emit[q]
    BY <1>0, <2>1, <2>2 DEF OutputTypeOK
  <2>4. \A q \in active' : event[q] # event[p]
    BY <1>0, <2>1, <2>2 DEF DeliveryOK
  <2>5. \A q \in active' : event'[q] \notin delivered'
    BY <1>0, <2>1, <2>3, <2>4 DEF OnceOK
  <2>6. interrupted = {} /\ interrupted' = {}
    BY <1>0, <2>1 DEF OnceOK
  <2>7. ASSUME NEW e \in Events, emitted'[e] = 1
        PROVE  \/ e \in delivered'
               \/ \E q \in active' : event'[q] = e /\ emit'[q] = "returned"
    <3>1. CASE e \in delivered
      BY <2>1, <3>1
    <3>2. CASE e \notin delivered
      <4>1. PICK q \in active : event[q] = e /\ emit[q] = "returned"
        BY <1>0, <2>1, <2>7, <3>2 DEF OnceOK
      <4>2. CASE q = p
        BY <2>1, <2>6, <4>1, <4>2
      <4>3. CASE q # p
        BY <2>1, <2>3, <4>1, <4>3
      <4> QED BY <4>2, <4>3
    <3> QED BY <3>1, <3>2
  <2> QED BY <1>0, <2>1, <2>5, <2>6, <2>7 DEF OnceOK
<1>7. ASSUME NEW p \in Publishers, PublisherCancelled(p)
      PROVE  OnceOK'
  BY <1>7 DEF PublisherCancelled
<1>8. ASSUME NEW x \in Controllers, NEW new, NEW expected,
             ReplaceLocked(x, new, expected),
             UNCHANGED <<interrupted, active, event, emitted, delivered>>
      PROVE  OnceOK'
  <2>1. \A p \in Publishers : emit[p] = "returned" => emit'[p] = "returned"
    BY <1>8 DEF ReplaceLocked, CancelDeliveries
  <2> QED BY <1>1, <1>8, <2>1
<1>9. ASSUME NEW x \in Controllers, NEW new, NEW expected, Replace(x, new, expected)
      PROVE  OnceOK'
  <2>1. UNCHANGED <<interrupted, active, event, emitted, delivered>>
    BY <1>9 DEF Replace
  <2>2. ReplaceLocked(x, new, expected) \/ UNCHANGED emit
    BY <1>9 DEF Replace
  <2> QED BY <1>1, <1>8, <2>1, <2>2
<1>10. ASSUME NEW x \in Controllers, ReplaceAcquires(x)
       PROVE  OnceOK'
  BY <1>8, <1>10 DEF ReplaceAcquires
<1>11. ASSUME NEW x \in Controllers, ReplaceFinishes(x) \/ CloseGathered(x)
       PROVE  OnceOK'
  <2>1. /\ pc[x] = "gather" /\ DeliveriesGathered(x)
        /\ active' = active \ call[x].tasks
        /\ UNCHANGED <<interrupted, event, emitted, delivered, emit>>
    BY <1>11 DEF ReplaceFinishes, CloseGathered
  <2>2. active = {}
    BY <1>0, <2>1 DEF LockOK, DeliveryOK, InFlightExact, DeliveriesGathered
  <2> QED BY <1>0, <2>1, <2>2 DEF OnceOK
<1>12. ASSUME NEW x \in Controllers, CloseCancels(x)
       PROVE  OnceOK'
  <2>1. \A p \in Publishers : emit[p] = "returned" => emit'[p] = "returned"
    BY <1>12 DEF CloseCancels, CancelDeliveries
  <2> QED BY <1>1, <1>12, <2>1 DEF CloseCancels
<1>13. ASSUME NEW m \in Messages, PublishChatbox(m)
       PROVE  OnceOK'
  <2>1. m \notin Events
    BY ActorSets
  <2> QED BY <1>1, <1>13, <2>1 DEF PublishChatbox
<1>14. ASSUME NEW x, NEW t, NEW next,
              \/ CloseBegins(x) \/ CloseWaits(x) \/ CloseClearsChatbox(x)
              \/ CloseEnds(x) \/ TaskCollected(x, t, next)
              \/ TaskEnds(t) \/ FlushSends(t) \/ SetTyping(t)
              \/ Start \/ StartBridge \/ UNCHANGED vars
       PROVE  OnceOK'
  <2>1. UNCHANGED <<interrupted, active, event, emitted, delivered, emit>>
    BY <1>14
    DEF CloseBegins, CloseWaits, CloseClearsChatbox, CloseEnds, TaskCollected,
        TaskEnds, FlushSends, SetTyping, Start, StartBridge, vars
  <2> QED BY <1>1, <2>1
<1> QED
  BY <1>3, <1>4, <1>5, <1>6, <1>7, <1>9, <1>10, <1>11, <1>12, <1>13, <1>14
  DEF Next, PublisherStep, ReplaceStep, CloseStep

\* While no publishing task is cancelled, no publication being delivered has been
\* delivered before, and an emit that returned is accounted for: its identity is
\* recorded, or its publisher is about to record it.
THEOREM OnceInvariance ==
    ASSUME Aborts = {}
    PROVE  Spec => []OnceInv
<1>1. Init => OnceOK
  BY DEF Init, OnceOK
<1>2. OutputInv /\ OnceOK /\ [Next]_vars => OnceOK'
  BY OnceStep DEF OnceInv
<1>3. OutputInv /\ OnceOK => OnceInv
  BY DEF OnceInv
<1> QED BY <1>1, <1>2, <1>3, OutputInvariance, PTL DEF Spec

\* While no publishing task is cancelled, sink.emit returns at most once for a
\* publication identity, whatever fails, is replaced or is closed meanwhile.
THEOREM DeliversAtMostOnce ==
    ASSUME Aborts = {}
    PROVE  Spec => []DeliveredAtMostOnce
<1>1. OnceInv => DeliveredAtMostOnce
  BY DEF OnceInv, OnceOK, DeliveredAtMostOnce
<1> QED BY <1>1, OnceInvariance, PTL

\* Every step keeps ReleaseOK.  Nothing that close() retired comes back, because
\* what could bring it back looks at the state, which is not "open" again.
LEMMA ReleaseStep ==
    ASSUME ReleaseInv, [Next]_vars
    PROVE  ReleaseOK'
<1> USE DEF delivery, chatbox, cleared, owned, counters
<1>0. OutputInv /\ OutputTypeOK /\ LockOK /\ DeliveryOK /\ ReleaseOK
  BY DEF ReleaseInv, OutputInv
\* While the runtime is open no close() is under way and nothing is retired.
<1>1. ASSUME state = "open", state' = "open", UNCHANGED cleared,
             \A x \in Controllers : Retires(x)' => Retires(x)
      PROVE  ReleaseOK'
  BY <1>0, <1>1 DEF ReleaseOK, ClosedMeansReleased
\* A step outside close() that retires deliveries or messages, or nothing.
<1>2. ASSUME UNCHANGED <<state, typing, cleared, task, adapter>>,
             backlog' \subseteq backlog, active' \subseteq active,
             inFlight' \subseteq inFlight,
             \A x \in Controllers : Retires(x)' =>
                Retires(x) /\ pc'[x] = pc[x] /\ call'[x].failed = call[x].failed
      PROVE  ReleaseOK'
  <2>1. ClosedMeansReleased'
    BY <1>0, <1>2 DEF ReleaseOK, ClosedMeansReleased
  <2> QED BY <1>0, <1>2, <2>1 DEF ReleaseOK
\* A publisher moves.
<1>3. ASSUME NEW p \in Publishers, NEW l, Goto(p, l) \/ UNCHANGED pc, UNCHANGED call
      PROVE  \A x \in Controllers :
                Retires(x)' => Retires(x) /\ pc'[x] = pc[x] /\ call'[x].failed = call[x].failed
  <2>1. \A x \in Controllers : pc'[x] = pc[x]
    BY <1>0, <1>3, OutputMoves, ActorSets
  <2> QED BY <1>3, <2>1 DEF Retires
\* A controller moves inside or out of replace_overlay_sink.
<1>4. ASSUME NEW x \in Controllers, NEW l, Goto(x, l), NEW c,
             call' = [call EXCEPT ![x] = c],
             l = "idle" \/ (l \in {"lock", "gather"} /\ c.op = "replace")
      PROVE  \A y \in Controllers :
                Retires(y)' => Retires(y) /\ pc'[y] = pc[y] /\ call'[y].failed = call[y].failed
  <2>1. \A y \in Controllers \ {x} : pc'[y] = pc[y] /\ call'[y] = call[y]
    BY <1>0, <1>4, OutputMoves, ActorSets DEF OutputTypeOK
  <2>2. pc'[x] = l /\ call'[x] = c
    BY <1>0, <1>4, OutputMoves, ActorSets DEF OutputTypeOK
  <2>3. ~ Retires(x)'
    BY <1>4, <2>2 DEF Retires, Owned
  <2> QED BY <2>1, <2>3 DEF Retires
<1>5. ASSUME NEW p \in Publishers, NEW e, Deliver(p, e),
             UNCHANGED <<state, call, chatbox, cleared, owned>>
      PROVE  ReleaseOK'
  <2>1. Goto(p, "emit") \/ Goto(p, "idle")
    BY <1>5 DEF Deliver
  <2>2. \A x \in Controllers :
           Retires(x)' => Retires(x) /\ pc'[x] = pc[x] /\ call'[x].failed = call[x].failed
    BY <1>3, <1>5, <2>1
  <2>3. CASE Accepting
    BY <1>1, <1>5, <2>2, <2>3 DEF Accepting
  <2>4. CASE ~ Accepting
    <3>1. UNCHANGED <<active, inFlight>>
      BY <1>5, <2>4 DEF Deliver
    <3> QED BY <1>2, <1>5, <2>2, <3>1
  <2> QED BY <2>3, <2>4
<1>6. ASSUME NEW p \in Publishers, NEW e, Publish(p, e)
      PROVE  ReleaseOK'
  <2>1. UNCHANGED <<state, call, chatbox, cleared, owned>>
    BY <1>6 DEF Publish
  <2>2. CASE lockQueue = <<>>
    BY <1>5, <1>6, <2>1, <2>2 DEF Publish
  <2>3. CASE lockQueue # <<>>
    <3>1. Goto(p, "lock") /\ UNCHANGED <<active, inFlight>>
      BY <1>6, <2>3 DEF Publish
    <3>2. \A x \in Controllers :
             Retires(x)' => Retires(x) /\ pc'[x] = pc[x] /\ call'[x].failed = call[x].failed
      BY <1>3, <2>1, <3>1
    <3> QED BY <1>2, <2>1, <3>1, <3>2
  <2> QED BY <2>2, <2>3
<1>7. ASSUME NEW p \in Publishers, PublisherAcquires(p)
      PROVE  ReleaseOK'
  BY <1>5, <1>7 DEF PublisherAcquires
<1>8. ASSUME NEW p \in Publishers, NEW o,
             EmitEnds(p, o) \/ PublisherResumes(p) \/ PublisherCancelled(p)
      PROVE  ReleaseOK'
  <2>1. /\ UNCHANGED <<state, call, chatbox, cleared, owned>>
        /\ active' \subseteq active /\ inFlight' \subseteq inFlight
        /\ Goto(p, "idle") \/ UNCHANGED pc
    BY <1>8 DEF EmitEnds, PublisherResumes, PublisherCancelled, Landed
  <2>2. \A x \in Controllers :
           Retires(x)' => Retires(x) /\ pc'[x] = pc[x] /\ call'[x].failed = call[x].failed
    BY <1>3, <2>1
  <2> QED BY <1>2, <2>1, <2>2
<1>9. ASSUME NEW x \in Controllers, NEW new, NEW expected,
             Replace(x, new, expected) \/ ReplaceAcquires(x) \/ ReplaceFinishes(x)
      PROVE  ReleaseOK'
  <2>1. /\ UNCHANGED <<state, chatbox, cleared, owned>>
        /\ active' \subseteq active /\ inFlight' \subseteq inFlight
    BY <1>9 DEF Replace, ReplaceAcquires, ReplaceFinishes
  <2>2. \E l, c : /\ Goto(x, l) /\ call' = [call EXCEPT ![x] = c]
                  /\ l = "idle" \/ (l \in {"lock", "gather"} /\ c.op = "replace")
    <3>1. ASSUME NEW n, NEW e, ReplaceLocked(x, n, e)
          PROVE  \/ /\ Goto(x, "gather")
                    /\ call' = [call EXCEPT ![x] = Call("replace", n, e, active, FALSE)]
                 \/ Goto(x, "idle") /\ call' = [call EXCEPT ![x] = NoCall]
      BY <3>1 DEF ReplaceLocked
    <3>2. \A n, e, S : Call("replace", n, e, S, FALSE).op = "replace"
      BY DEF Call
    <3>3. CASE Replace(x, new, expected)
      <4>1. \/ ReplaceLocked(x, new, expected)
            \/ /\ Goto(x, "lock")
               /\ call' = [call EXCEPT ![x] = Call("replace", new, expected, {}, FALSE)]
        BY <3>3 DEF Replace
      <4> QED BY <3>1, <3>2, <4>1
    <3>4. CASE ReplaceAcquires(x)
      <4>1. ReplaceLocked(x, call[x].new, call[x].expected)
        BY <3>4 DEF ReplaceAcquires
      <4> QED BY <3>1, <3>2, <4>1
    <3>5. CASE ReplaceFinishes(x)
      BY <3>5 DEF ReplaceFinishes
    <3> QED BY <1>9, <3>3, <3>4, <3>5
  <2> QED BY <1>2, <1>4, <2>1, <2>2
<1>10. ASSUME NEW m, PublishChatbox(m) \/ SetTyping(m)
       PROVE  ReleaseOK'
  <2>1. state = "open" /\ UNCHANGED <<state, cleared, pc, call>>
    BY <1>10 DEF PublishChatbox, SetTyping, Accepting
  <2> QED BY <1>1, <2>1 DEF Retires
<1>11. CASE Start \/ StartBridge
  <2>1. state = "open" /\ UNCHANGED <<state, cleared, pc, call>>
    BY <1>11 DEF Start, StartBridge, Accepting
  <2> QED BY <1>1, <2>1 DEF Retires
<1>12. ASSUME NEW m, FlushSends(m) \/ UNCHANGED vars
       PROVE  ReleaseOK'
  <2>1. /\ UNCHANGED <<state, typing, cleared, task, adapter, active, inFlight, pc, call>>
        /\ backlog' \subseteq backlog
    BY <1>12 DEF FlushSends, vars
  <2> QED BY <1>2, <2>1 DEF Retires
\* A step of a call of close(): the call x goes on, the other calls stay where
\* they are, and what was retired stays retired.
<1>13. ASSUME NEW x \in Controllers, NEW l, Goto(x, l),
              state' # "open",
              state' = "closed" => typingCleared' /\ backlogDropped' /\ ClosedMeansReleased',
              \A y \in Controllers \ {x} : call'[y] = call[y],
              active' \subseteq active,
              \A t \in Owned : task[t] = "none" => task'[t] = "none",
              typingCleared => typingCleared', backlogDropped => backlogDropped',
              typingCleared' => ~ typing', backlogDropped' => backlog' = {},
              Retires(x)' =>
                /\ l # "flush" => task'["flush"] = "none"
                /\ l \in {"chatbox", "bridge", "adapter"} => active' = {}
                /\ l \in {"bridge", "adapter"} =>
                     call'[x].failed \/ (typingCleared' /\ backlogDropped')
                /\ l = "adapter" => task'["bridge"] = "none"
       PROVE  ReleaseOK'
  <2>1. pc'[x] = l /\ \A y \in Controllers \ {x} : pc'[y] = pc[y]
    BY <1>0, <1>13, OutputMoves, ActorSets
  <2>2. \A y \in Controllers \ {x} : Retires(y)' <=> Retires(y)
    BY <1>13, <2>1 DEF Retires
  <2>3. ClosedMeansReleased'
    BY <1>13 DEF ClosedMeansReleased
  <2>4. ASSUME NEW y \in Controllers, Retires(y)'
        PROVE  /\ state' # "open"
               /\ pc'[y] # "flush" => task'["flush"] = "none"
               /\ pc'[y] \in {"chatbox", "bridge", "adapter"} => active' = {}
               /\ pc'[y] \in {"bridge", "adapter"} =>
                    call'[y].failed \/ (typingCleared' /\ backlogDropped')
               /\ pc'[y] = "adapter" => task'["bridge"] = "none"
    <3>1. CASE y = x
      BY <1>13, <2>1, <2>4, <3>1
    <3>2. CASE y # x
      <4>1. Retires(y) /\ pc'[y] = pc[y] /\ call'[y] = call[y]
        BY <1>13, <2>1, <2>2, <2>4, <3>2
      <4> QED BY <1>0, <1>13, <4>1, ActorSets DEF ReleaseOK
    <3> QED BY <3>1, <3>2
  <2> QED BY <1>13, <2>3, <2>4 DEF ReleaseOK
<1>14. ASSUME NEW x \in Controllers, NEW t \in Owned, NEW b, NEW next,
              CancelOwned(x, t, b, next)
       PROVE  /\ \A y \in Controllers \ {x} : call'[y] = call[y]
              /\ \A u \in Owned : task[u] = "none" => task'[u] = "none"
              /\ \/ Goto(x, t)
                 \/ Goto(x, next) /\ task'[t] = "none"
              /\ call'[x].failed \in {b, TRUE}
  <2>1. \E d \in {b, TRUE} : call' = [call EXCEPT ![x] = Closing({}, d)]
    BY <1>14 DEF CancelOwned
  <2>2. \A d : Closing({}, d).failed = d
    BY DEF Closing, Call
  <2>3. (\A y \in Controllers \ {x} : call'[y] = call[y]) /\ call'[x].failed \in {b, TRUE}
    BY <1>0, <2>1, <2>2 DEF OutputTypeOK
  <2>4. \A u \in Owned : task[u] = "none" => task'[u] = "none"
    BY <1>0, <1>14 DEF CancelOwned, OutputTypeOK
  <2>5. Goto(x, t) \/ (Goto(x, next) /\ task'[t] = "none")
    BY <1>0, <1>14 DEF CancelOwned, OutputTypeOK
  <2> QED BY <2>3, <2>4, <2>5
<1>15. ASSUME NEW x \in Controllers, CloseBegins(x)
       PROVE  ReleaseOK'
  <2>1. /\ state' = "closing" /\ UNCHANGED <<delivery, chatbox, cleared>>
        /\ CancelOwned(x, "flush", FALSE, "deliveries")
    BY <1>15 DEF CloseBegins
  <2>2. PICK l \in {"flush", "deliveries"} :
          Goto(x, l) /\ (l # "flush" => task'["flush"] = "none")
    BY <1>14, <2>1, ActorSets
  <2>3. /\ \A y \in Controllers \ {x} : call'[y] = call[y]
        /\ \A u \in Owned : task[u] = "none" => task'[u] = "none"
    BY <1>14, <2>1, ActorSets
  <2>4. (typingCleared' => ~ typing') /\ (backlogDropped' => backlog' = {})
    BY <1>0, <2>1 DEF ReleaseOK
  <2> QED BY <1>13, <2>1, <2>2, <2>3, <2>4
<1>16. ASSUME NEW x \in Controllers,
              TaskCollected(x, "flush", "deliveries") \/ TaskCollected(x, "bridge", "adapter")
       PROVE  ReleaseOK'
  <2>1. PICK t \in Owned, next \in {"deliveries", "adapter"} :
          /\ pc[x] = t /\ Goto(x, next) /\ task' = [task EXCEPT ![t] = "none"]
          /\ \/ t = "flush" /\ next = "deliveries"
             \/ t = "bridge" /\ next = "adapter"
    BY <1>16, ActorSets DEF TaskCollected
  <2>2. /\ UNCHANGED <<state, sink, lockQueue, delivery, chatbox, cleared, adapter, call>>
    BY <1>16 DEF TaskCollected
  <2>3. task'[t] = "none" /\ \A u \in Owned : task[u] = "none" => task'[u] = "none"
    BY <1>0, <2>1 DEF OutputTypeOK
  <2>4. Retires(x)
    BY <2>1 DEF Retires
  <2>5. (typingCleared' => ~ typing') /\ (backlogDropped' => backlog' = {})
    BY <1>0, <2>2 DEF ReleaseOK
  <2>6. state' = "closed" => typingCleared' /\ backlogDropped' /\ ClosedMeansReleased'
    BY <1>0, <2>2, <2>3 DEF ReleaseOK, ClosedMeansReleased
  <2>7. CASE t = "flush" /\ next = "deliveries"
    BY <1>0, <1>13, <2>1, <2>2, <2>3, <2>4, <2>5, <2>6, <2>7 DEF ReleaseOK
  <2>8. CASE t = "bridge" /\ next = "adapter"
    BY <1>0, <1>13, <2>1, <2>2, <2>3, <2>4, <2>5, <2>6, <2>8 DEF ReleaseOK
  <2> QED BY <2>1, <2>7, <2>8
<1>17. ASSUME NEW x \in Controllers, CloseWaits(x) \/ CloseCancels(x) \/ CloseGathered(x)
       PROVE  ReleaseOK'
  <2>1. PICK l \in {"lock", "gather", "chatbox"} : Goto(x, l)
    BY <1>17 DEF CloseWaits, CloseCancels, CloseGathered
  <2>2. /\ UNCHANGED <<state, chatbox, cleared, task, adapter>>
        /\ active' \subseteq active /\ inFlight' \subseteq inFlight
    BY <1>17 DEF CloseWaits, CloseCancels, CloseGathered
  <2>3. \A y \in Controllers \ {x} : call'[y] = call[y]
    BY <1>0, <1>17 DEF CloseWaits, CloseCancels, CloseGathered, OutputTypeOK
  <2>4. Retires(x)' => Retires(x) /\ pc[x] # "flush"
    BY <1>17 DEF CloseWaits, CloseCancels, CloseGathered, Retires
  <2>5. Retires(x)' /\ l = "chatbox" => active' = {}
    <3>1. CASE CloseGathered(x)
      <4>1. /\ pc[x] = "gather" /\ active' = active \ call[x].tasks
        BY <3>1 DEF CloseGathered
      <4> QED BY <1>0, <4>1 DEF LockOK
    <3>2. CASE CloseWaits(x) \/ CloseCancels(x)
      <4>1. Goto(x, "lock") \/ Goto(x, "gather")
        BY <3>2 DEF CloseWaits, CloseCancels
      <4> QED BY <1>0, <2>1, <4>1, OutputMoves, ActorSets
    <3> QED BY <1>17, <3>1, <3>2
  <2>6. (typingCleared' => ~ typing') /\ (backlogDropped' => backlog' = {})
    BY <1>0, <2>2 DEF ReleaseOK
  <2>7. state' = "closed" => typingCleared' /\ backlogDropped' /\ ClosedMeansReleased'
    BY <1>0, <2>2 DEF ReleaseOK, ClosedMeansReleased
  <2>8. Retires(x)
    BY <1>17 DEF CloseWaits, CloseCancels, CloseGathered, Retires
  <2> QED BY <1>0, <1>13, <2>1, <2>2, <2>3, <2>4, <2>5, <2>6, <2>7, <2>8 DEF ReleaseOK
<1>18. ASSUME NEW x \in Controllers, CloseClearsChatbox(x)
       PROVE  ReleaseOK'
  <2>0. PICK fails \in SUBSET (Faults \cap {"typing", "backlog"}) :
          /\ typingCleared' = (typingCleared \/ "typing" \notin fails)
          /\ backlogDropped' = (backlogDropped \/ "backlog" \notin fails)
          /\ typing' = IF "typing" \in fails THEN typing ELSE typing /\ typingCleared
          /\ backlog' = IF "backlog" \in fails \/ backlogDropped THEN backlog ELSE {}
          /\ CancelOwned(x, "bridge",
                \/ call[x].failed
                \/ ~ typingCleared /\ "typing" \in fails
                \/ ~ backlogDropped /\ "backlog" \in fails,
                "adapter")
    BY <1>18 DEF CloseClearsChatbox, Retired
  <2> DEFINE bad == \/ ~ typingCleared /\ "typing" \in fails
                    \/ ~ backlogDropped /\ "backlog" \in fails
  <2>1. CancelOwned(x, "bridge", call[x].failed \/ bad, "adapter")
    BY <2>0
  <2>2. /\ pc[x] = "chatbox"
        /\ UNCHANGED <<state, delivered, inFlight, active, adapter>>
    BY <1>18 DEF CloseClearsChatbox
  <2>3. PICK l \in {"bridge", "adapter"} :
          Goto(x, l) /\ (l = "adapter" => task'["bridge"] = "none")
    BY <1>14, <2>1, ActorSets
  <2>4. /\ \A y \in Controllers \ {x} : call'[y] = call[y]
        /\ \A u \in Owned : task[u] = "none" => task'[u] = "none"
        /\ call'[x].failed \in {call[x].failed \/ bad, TRUE}
    BY <1>14, <2>1, ActorSets
  <2>5. Retires(x)
    BY <2>2 DEF Retires
  <2>6. /\ typingCleared => typingCleared'
        /\ backlogDropped => backlogDropped'
        /\ ~ bad => typingCleared' /\ backlogDropped'
    BY <2>0
  <2>7. (typingCleared' => ~ typing') /\ (backlogDropped' => backlog' = {})
    BY <1>0, <2>0 DEF ReleaseOK
  <2>8. call'[x].failed \/ (typingCleared' /\ backlogDropped')
    BY <2>4, <2>6
  <2>9. /\ state' # "open" /\ task["flush"] = "none" /\ active' = {}
    BY <1>0, <2>2, <2>5 DEF ReleaseOK
  <2>10. state' = "closed" => typingCleared' /\ backlogDropped' /\ ClosedMeansReleased'
    BY <1>0, <2>2, <2>4, <2>6, <2>7 DEF ReleaseOK, ClosedMeansReleased
  <2> QED BY <1>13, <2>2, <2>3, <2>4, <2>6, <2>7, <2>8, <2>9, <2>10, ActorSets
<1>19. ASSUME NEW x \in Controllers, CloseEnds(x)
       PROVE  ReleaseOK'
  <2>1. PICK bad :
          /\ adapter' = bad
          /\ state' = IF bad \/ call[x].failed \/ oldFailure THEN state ELSE "closed"
    BY <1>19 DEF CloseEnds
  <2>2. /\ pc[x] = "adapter" /\ Goto(x, "idle")
        /\ call' = [call EXCEPT ![x] = NoCall]
        /\ UNCHANGED <<inFlight, active, chatbox, cleared, task>>
    BY <1>19 DEF CloseEnds
  <2>3. adapter' => adapter
    BY <1>19 DEF CloseEnds
  <2>4. Retires(x)
    BY <2>2 DEF Retires
  <2>5. /\ state # "open" /\ task["flush"] = "none" /\ task["bridge"] = "none"
        /\ active = {} /\ inFlight = {}
        /\ call[x].failed \/ (typingCleared /\ backlogDropped)
    BY <1>0, <2>2, <2>4 DEF ReleaseOK, DeliveryOK, InFlightExact
  <2>6. (typingCleared => ~ typing) /\ (backlogDropped => backlog = {})
    BY <1>0 DEF ReleaseOK
  <2>7. \A y \in Controllers \ {x} : call'[y] = call[y]
    BY <1>0, <2>2 DEF OutputTypeOK
  <2>8. ~ Retires(x)'
    BY <1>0, <2>2, OutputMoves, ActorSets DEF Retires, Owned
  <2>9. state' # "open"
    BY <2>1, <2>5
  <2>10. ASSUME state' = "closed"
         PROVE  typingCleared' /\ backlogDropped' /\ ClosedMeansReleased'
    <3>1. CASE state = "closed"
      BY <1>0, <2>2, <2>3, <2>5, <3>1 DEF ReleaseOK, ClosedMeansReleased
    <3>2. CASE state # "closed"
      <4>1. ~ bad /\ ~ call[x].failed
        BY <2>1, <2>10, <3>2
      <4>2. typingCleared /\ backlogDropped /\ ~ adapter'
        BY <2>1, <2>5, <4>1
      <4> QED BY <2>2, <2>5, <2>6, <4>2 DEF ClosedMeansReleased, Owned
    <3> QED BY <3>1, <3>2
  <2> QED BY <1>13, <2>2, <2>6, <2>7, <2>8, <2>9, <2>10
<1>20. ASSUME NEW t \in Owned, TaskEnds(t)
       PROVE  ReleaseOK'
  <2>1. /\ UNCHANGED <<state, active, inFlight, pc, chatbox, cleared, adapter>>
        /\ task[t] # "none"
    BY <1>20 DEF TaskEnds
  <2>2. \A u \in Owned : task[u] = "none" => task'[u] = "none"
    BY <1>0, <1>20 DEF TaskEnds, OutputTypeOK
  <2>3. state # "closed"
    BY <1>0, <2>1 DEF ReleaseOK, ClosedMeansReleased
  <2>4. \A y \in Controllers :
          call'[y] = call[y] \/ (pc[y] \in Owned /\ call'[y] = Closing({}, TRUE))
    BY <1>20 DEF TaskEnds
  <2>5. \A y \in Controllers : Retires(y)' =>
          Retires(y) /\ (call'[y].failed = call[y].failed \/ call'[y].failed = TRUE)
    BY <2>1, <2>4 DEF Retires, Closing, Call
  <2>6. ClosedMeansReleased'
    BY <2>1, <2>3 DEF ClosedMeansReleased
  <2> QED BY <1>0, <2>1, <2>2, <2>3, <2>5, <2>6, ActorSets DEF ReleaseOK
<1> QED
  BY <1>6, <1>7, <1>8, <1>9, <1>10, <1>11, <1>12, <1>15, <1>16, <1>17, <1>18, <1>19,
     <1>20
  DEF Next, PublisherStep, ReplaceStep, CloseStep

\* What a call of close() went past stays retired while other calls run: the flush
\* task, the deliveries, the typing reasons and the backlog, the bridge.
THEOREM ReleaseInvariance == Spec => []ReleaseInv
<1>1. Init => ReleaseOK
  BY DEF Init, ReleaseOK, ClosedMeansReleased, Retires, Owned, Actors
<1>2. OutputInv /\ ReleaseOK /\ [Next]_vars => ReleaseOK'
  BY ReleaseStep DEF ReleaseInv
<1>3. OutputInv /\ ReleaseOK => ReleaseInv
  BY DEF ReleaseInv
<1> QED BY <1>1, <1>2, <1>3, OutputInvariance, PTL DEF Spec

\* A runtime that is closed has released everything, although close() may fail
\* and be repeated, and calls of it may overlap.
THEOREM ClosedIsReleased == Spec => []ClosedMeansReleased
<1>1. ReleaseInv => ClosedMeansReleased
  BY DEF ReleaseInv, ReleaseOK
<1> QED BY <1>1, ReleaseInvariance, PTL
=============================================================================
