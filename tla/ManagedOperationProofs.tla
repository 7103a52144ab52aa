----------------------- MODULE ManagedOperationProofs -----------------------
(***************************************************************************)
(* What holds of a managed operation for any number of requests, scheduled *)
(* runs, attempts and faults. One invariant carries the argument: a handler *)
(* that issues a key works on the operation's current attempt, it is the    *)
(* only one that does, and no delivery of that attempt exists before it     *)
(* makes one. The second part follows the keys: a live key whose delivery   *)
(* is open or confirmed is the one the entitlement names. The third types   *)
(* the counters and what a handler has read, and ties the claim of a row    *)
(* to its status.                                                           *)
(***************************************************************************)
EXTENDS ManagedOperation, FiniteSetTheorems, TLAPS

Pcs == {"idle", "target", "latest", "expire", "unknown", "look", "find", "delete", "verify",
        "clean", "ready", "start", "finalize", "activate", "claim", "recheck", "revoke",
        "shared", "complete", "escalate", "sweep", "sweepVerify"} \cup Creating

Statuses == {"none", "pending", "acknowledged", "expired", "claimed", "cleanup_required"}

Typed ==
    /\ pc \in [Workers -> Pcs] /\ on \in [Workers -> Attempts \cup {None}]
    /\ state \in States /\ current \in Attempts
    /\ status \in [Attempts -> Statuses] /\ received \subseteq Attempts
    /\ entitlement \in [status : {"none", "issuing", "delivery_pending", "active",
                                  "cleanup_required"},
                        ref : Attempts \cup {None}]

\* an attempt being issued is the operation's current one
IssuesCurrent ==
    \A w \in Workers : pc[w] \in Creating =>
        on[w] = current /\ state \in {"CREATING", "FAILED", "ACTIVE"}

Undelivered == Creating \ {"settle", "indeterminate"}

\* an attempt without a delivery is to come, or is being issued
FreshAttempt ==
    /\ \A i \in Attempts : i > current => status[i] = "none"
    /\ \A w \in Workers : pc[w] \in Undelivered => status[on[w]] = "none"

\* an acknowledgement, and a resumption that expires one, has found a delivery
NamesDelivery ==
    \A w \in Workers : pc[w] \in {"finalize", "activate", "expire"} => on[w] \in Attempts

Open == {"pending", "claimed", "acknowledged"}

KeysTyped ==
    /\ keys \in [Attempts -> {"none", "live", "deleted"}]
    /\ attempts \in [Attempts -> [outcome : {"none", "unknown", "created", "cleaned"},
                                  ref : Attempts \cup {None}]]

\* the entitlement names the live key with an open delivery; a retry lets it go
\* only after it has deleted that key
KeysOwned ==
    /\ \A i \in Attempts : keys[i] = "live" /\ status[i] \in Open => entitlement.ref = i
    /\ entitlement.status = "none" => entitlement.ref = None
    /\ \A w \in Workers :
          /\ pc[w] = "reclaim" => entitlement.ref \in {None, attempts[on[w]].ref}
          /\ pc[w] = "rebind" => entitlement.ref = None \/ keys[entitlement.ref] # "live"
          /\ pc[w] = "deliver" => entitlement.ref = on[w]

KInv == KeysTyped /\ KeysOwned

IInv == Typed /\ OneHandlerIssues /\ IssuesCurrent /\ FreshAttempt /\ NamesDelivery
            /\ ActiveIsAcknowledged /\ AcknowledgedOwnsEntitlement

Locs == [ref : Attempts \cup {None}, path : {"none", "found", "missing", "sweep"},
         then : {"stop", "start"}, shared : BOOLEAN, claim : SUBSET Scheduled, count : Nat]

\* what a handler has read, and the counters
CountsTyped ==
    /\ loc \in [Workers -> Locs] /\ cleanups \in Nat
    /\ lapsed \in [Attempts -> BOOLEAN]
    /\ identity \in {"none", "issuing", "active", "cleanup_required"}
    /\ requests \in 0..MaxRequests /\ faults \in 0..MaxFaults

\* a delivery names a claim exactly while a scheduled run has it claimed
ClaimsTyped ==
    /\ claim \in [Attempts -> SUBSET Scheduled]
    /\ \A i \in Attempts : claim[i] # {} <=> status[i] = "claimed"

BInv == CountsTyped /\ ClaimsTyped

AcknowledgedStays ==
    \A i \in Attempts : status[i] = "acknowledged" => status'[i] = "acknowledged"
FailedStays == state = "FAILED" => state' \in {"FAILED", "ACTIVE"}

\* what each step has to keep
Kept == IInv' /\ KInv' /\ AcknowledgedStays /\ FailedStays

\* Every step keeps the invariant, takes back no acknowledgement and revives a
\* failed operation only as an active one.
LEMMA StepFacts ==
    ASSUME IInv, KInv, [Next]_vars
    PROVE  Kept
<1>k. ASSUME NEW k
      PROVE  Deleted(k) \in [Attempts -> {"none", "live", "deleted"}]
  <2>. DEFINE KeyStates == {"none", "live", "deleted"}
  <2>1. keys \in [Attempts -> KeyStates]
    BY DEF KInv, KeysTyped
  <2>2. k \in Attempts => (IF keys[k] = "live" THEN "deleted" ELSE keys[k]) \in KeyStates
    BY <2>1
  <2>. HIDE DEF KeyStates
  <2>3. Deleted(k) \in [Attempts -> KeyStates]
    BY ONLY <2>1, <2>2, Zenon DEF Deleted
  <2>. QED
    BY ONLY <2>3 DEF KeyStates
<1>o. ASSUME NEW a, NEW o \in {"unknown", "cleaned"}
      PROVE  [attempts EXCEPT ![a].outcome = o]
                 \in [Attempts -> [outcome : {"none", "unknown", "created", "cleaned"},
                                  ref : Attempts \cup {None}]]
  <2>. DEFINE Rows == [outcome : {"none", "unknown", "created", "cleaned"},
                       ref : Attempts \cup {None}]
  <2>1. attempts \in [Attempts -> Rows]
    BY DEF KInv, KeysTyped
  <2>2. ASSUME NEW r \in Rows PROVE [r EXCEPT !.outcome = o] \in Rows
    OBVIOUS
  <2>3. a \in Attempts => [attempts[a] EXCEPT !.outcome = o] \in Rows
    BY <2>1, <2>2
  <2>. HIDE DEF Rows
  <2>4. [attempts EXCEPT ![a] = [attempts[a] EXCEPT !.outcome = o]] \in [Attempts -> Rows]
    BY ONLY <2>1, <2>3, Zenon
  <2>. QED
    BY ONLY <2>4 DEF Rows
<1>. USE OperationAssumption, SMTT(30)
     DEF OperationAssumption, Workers, Attempts, None, Pcs, Creating, Undelivered, Statuses,
         States, Unsettled, ledger, client, rows, op, deliveries, handlers, IInv, Typed,
         OneHandlerIssues, IssuesCurrent, FreshAttempt, NamesDelivery, ActiveIsAcknowledged,
         AcknowledgedOwnsEntitlement, AcknowledgedStays, FailedStays, Goto, Move, Stop, At,
         Transition
<1>1. ASSUME NEW w \in Workers, ResumeBegin(w) PROVE Kept
  <2>1. IInv' /\ AcknowledgedStays /\ FailedStays
    BY <1>1 DEF ResumeBegin
  <2>2. KeysTyped'
    BY <1>1 DEF ResumeBegin, KInv, KeysTyped
  <2>3. KeysOwned'
    BY <1>1 DEF ResumeBegin, KInv, KeysTyped, KeysOwned, Open
  <2>. QED
    BY ONLY <2>1, <2>2, <2>3 DEF Kept, KInv
<1>2. ASSUME NEW w \in Workers, ResumeLatest(w) PROVE Kept
  <2>1. IInv' /\ AcknowledgedStays /\ FailedStays
    BY <1>2 DEF ResumeLatest, Latest, Made, Live, ActivateOnAck
  <2>2. KeysTyped'
    BY <1>2 DEF ResumeLatest, Latest, Made, Live, ActivateOnAck, KInv, KeysTyped
  <2>3. KeysOwned'
    BY <1>2
       DEF ResumeLatest, Latest, Made, Live, ActivateOnAck, KInv, KeysTyped, KeysOwned, Open
  <2>. QED
    BY ONLY <2>1, <2>2, <2>3 DEF Kept, KInv
<1>3. ASSUME NEW w \in Workers, ResumeExpire(w) PROVE Kept
  <2>1. IInv' /\ AcknowledgedStays /\ FailedStays
    BY <1>3 DEF ResumeExpire
  <2>2. KeysTyped'
    BY <1>3 DEF ResumeExpire, KInv, KeysTyped
  <2>3. KeysOwned'
    BY <1>3 DEF ResumeExpire, KInv, KeysTyped, KeysOwned, Open
  <2>. QED
    BY ONLY <2>1, <2>2, <2>3 DEF Kept, KInv
<1>4. ASSUME NEW w \in Workers, ResumeUnknown(w) PROVE Kept
  <2>1. IInv' /\ AcknowledgedStays /\ FailedStays
    BY <1>4 DEF ResumeUnknown, Return
  <2>2. KeysTyped'
    BY <1>4 DEF ResumeUnknown, Return, KInv, KeysTyped
  <2>3. KeysOwned'
    BY <1>4 DEF ResumeUnknown, Return, KInv, KeysTyped, KeysOwned, Open
  <2>. QED
    BY ONLY <2>1, <2>2, <2>3 DEF Kept, KInv
<1>5. ASSUME NEW w \in Workers, Target(w) PROVE Kept
  <2>1. IInv' /\ AcknowledgedStays /\ FailedStays
    BY <1>5 DEF Target
  <2>2. KeysTyped'
    BY <1>5 DEF Target, KInv, KeysTyped
  <2>3. KeysOwned'
    BY <1>5 DEF Target, KInv, KeysTyped, KeysOwned, Open
  <2>. QED
    BY ONLY <2>1, <2>2, <2>3 DEF Kept, KInv
<1>6. ASSUME NEW w \in Workers, Look(w) PROVE Kept
  <2>1. IInv' /\ AcknowledgedStays /\ FailedStays
    BY <1>6 DEF Look
  <2>2. KeysTyped'
    BY <1>6 DEF Look, KInv, KeysTyped
  <2>3. KeysOwned'
    BY <1>6 DEF Look, KInv, KeysTyped, KeysOwned, Open
  <2>. QED
    BY ONLY <2>1, <2>2, <2>3 DEF Kept, KInv
<1>7. ASSUME NEW w \in Workers, Find(w) PROVE Kept
  <2>1. IInv' /\ AcknowledgedStays /\ FailedStays
    BY <1>7 DEF Find, CleanupRef
  <2>2. KeysTyped'
    BY <1>7 DEF Find, CleanupRef, KInv, KeysTyped
  <2>3. KeysOwned'
    BY <1>7 DEF Find, CleanupRef, KInv, KeysTyped, KeysOwned, Open
  <2>. QED
    BY ONLY <2>1, <2>2, <2>3 DEF Kept, KInv
<1>8. ASSUME NEW w \in Workers, LookupFails(w) PROVE Kept
  <2>1. IInv' /\ AcknowledgedStays /\ FailedStays
    BY <1>8 DEF LookupFails
  <2>2. KeysTyped'
    BY <1>8 DEF LookupFails, KInv, KeysTyped
  <2>3. KeysOwned'
    BY <1>8 DEF LookupFails, KInv, KeysTyped, KeysOwned, Open
  <2>. QED
    BY ONLY <2>1, <2>2, <2>3 DEF Kept, KInv
<1>9. ASSUME NEW w \in Workers, Delete(w) PROVE Kept
  <2>1. IInv' /\ AcknowledgedStays /\ FailedStays
    BY <1>9 DEF Delete, Cleaned, Deleted
  <2>2. KeysTyped'
    <3>1. (keys \in [Attempts -> {"none", "live", "deleted"}])'
      BY ONLY <1>9, <1>k DEF Delete, Cleaned
    <3>2. (attempts \in [Attempts -> [outcome : {"none", "unknown", "created", "cleaned"},
                                     ref : Attempts \cup {None}]])'
      BY <1>9 DEF Delete, KInv, KeysTyped, Cleaned, Deleted
    <3>. QED
      BY ONLY <3>1, <3>2 DEF KeysTyped
  <2>3. KeysOwned'
    BY <1>9 DEF Delete, KInv, KeysTyped, KeysOwned, Open, Cleaned, Deleted
  <2>. QED
    BY ONLY <2>1, <2>2, <2>3 DEF Kept, KInv
<1>10. ASSUME NEW w \in Workers, DeleteFails(w) PROVE Kept
  <2>1. IInv' /\ AcknowledgedStays /\ FailedStays
    BY <1>10 DEF DeleteFails, Return, CleanupFails, Deleted
  <2>2. KeysTyped'
    BY <1>10 DEF DeleteFails, Return, KInv, KeysTyped, CleanupFails, Deleted
  <2>3. KeysOwned'
    BY <1>10 DEF DeleteFails, Return, KInv, KeysTyped, KeysOwned, Open, CleanupFails, Deleted
  <2>. QED
    BY ONLY <2>1, <2>2, <2>3 DEF Kept, KInv
<1>11. ASSUME NEW w \in Workers, Verify(w) PROVE Kept
  <2>1. IInv' /\ AcknowledgedStays /\ FailedStays
    BY <1>11 DEF Verify, Return
  <2>2. KeysTyped'
    BY <1>11 DEF Verify, Return, KInv, KeysTyped
  <2>3. KeysOwned'
    BY <1>11 DEF Verify, Return, KInv, KeysTyped, KeysOwned, Open
  <2>. QED
    BY ONLY <2>1, <2>2, <2>3 DEF Kept, KInv
<1>12. ASSUME NEW w \in Workers, Clean(w) PROVE Kept
  <2>1. IInv' /\ AcknowledgedStays /\ FailedStays
    BY <1>12 DEF Clean, CleanFrom
  <2>2. KeysTyped'
    <3>1. (keys \in [Attempts -> {"none", "live", "deleted"}])'
      BY <1>12 DEF Clean, CleanFrom, KInv, KeysTyped
    <3>2. (attempts \in [Attempts -> [outcome : {"none", "unknown", "created", "cleaned"},
                                     ref : Attempts \cup {None}]])'
      BY ONLY <1>12, <1>o DEF Clean
    <3>. QED
      BY ONLY <3>1, <3>2 DEF KeysTyped
  <2>3. KeysOwned'
    BY <1>12 DEF Clean, CleanFrom, KInv, KeysTyped, KeysOwned, Open
  <2>. QED
    BY ONLY <2>1, <2>2, <2>3 DEF Kept, KInv
<1>13. ASSUME NEW w \in Workers, Ready(w) PROVE Kept
  <2>1. IInv' /\ AcknowledgedStays /\ FailedStays
    BY <1>13 DEF Ready, Return
  <2>2. KeysTyped'
    BY <1>13 DEF Ready, Return, KInv, KeysTyped
  <2>3. KeysOwned'
    BY <1>13 DEF Ready, Return, KInv, KeysTyped, KeysOwned, Open
  <2>. QED
    BY ONLY <2>1, <2>2, <2>3 DEF Kept, KInv
<1>14. ASSUME NEW w \in Workers, Start(w) PROVE Kept
  <2>1. IInv' /\ AcknowledgedStays /\ FailedStays
    BY <1>14 DEF Start
  <2>2. KeysTyped'
    <3>1. (keys \in [Attempts -> {"none", "live", "deleted"}])'
      BY <1>14 DEF Start, KInv, KeysTyped
    <3>2. (attempts \in [Attempts -> [outcome : {"none", "unknown", "created", "cleaned"},
                                     ref : Attempts \cup {None}]])'
      <4>1. CASE UNCHANGED attempts
        BY <4>1 DEF KInv, KeysTyped
      <4>2. CASE attempts' = [attempts EXCEPT ![current + 1] = [outcome |-> "unknown", ref |-> None]]
                 /\ current < MaxAttempts
        BY <4>2 DEF KInv, KeysTyped
      <4>. QED
        BY ONLY <1>14, <4>1, <4>2 DEF Start
    <3>. QED
      BY ONLY <3>1, <3>2 DEF KeysTyped
  <2>3. KeysOwned'
    BY <1>14 DEF Start, KInv, KeysTyped, KeysOwned, Open
  <2>. QED
    BY ONLY <2>1, <2>2, <2>3 DEF Kept, KInv
<1>15. ASSUME NEW w \in Workers, Reserve(w) PROVE Kept
  <2>1. IInv' /\ AcknowledgedStays /\ FailedStays
    <3>1. Typed'
      BY <1>15 DEF Reserve, FailTerminal, ReleaseUnstarted
    <3>2. OneHandlerIssues' /\ IssuesCurrent'
      BY <1>15 DEF Reserve, FailTerminal, ReleaseUnstarted
    <3>3. FreshAttempt' /\ NamesDelivery'
      BY <1>15 DEF Reserve, FailTerminal, ReleaseUnstarted
    <3>4. ActiveIsAcknowledged' /\ AcknowledgedStays /\ FailedStays
      BY <1>15 DEF Reserve, FailTerminal, ReleaseUnstarted
    <3>5. AcknowledgedOwnsEntitlement'
      BY <1>15 DEF Reserve, FailTerminal, ReleaseUnstarted
    <3>. QED
      BY ONLY <3>1, <3>2, <3>3, <3>4, <3>5 DEF IInv
  <2>2. KeysTyped'
    <3>1. (keys \in [Attempts -> {"none", "live", "deleted"}])'
      BY <1>15 DEF Reserve, FailTerminal, ReleaseUnstarted, KInv, KeysTyped
    <3>2. (attempts \in [Attempts -> [outcome : {"none", "unknown", "created", "cleaned"},
                                     ref : Attempts \cup {None}]])'
      <4>1. CASE attempts' = [attempts EXCEPT ![on[w]] =
                                 [outcome |-> "created", ref |-> entitlement.ref]]
        BY ONLY <4>1, IInv, KInv DEF IInv, Typed, KInv, KeysTyped
      <4>2. CASE attempts' = attempts
        BY <4>2 DEF KInv, KeysTyped
      <4>3. CASE \E o \in {"unknown", "cleaned"} : attempts' = [attempts EXCEPT ![on[w]].outcome = o]
        <5>1. PICK o \in {"unknown", "cleaned"} :
                attempts' = [attempts EXCEPT ![on[w]].outcome = o]
          BY ONLY <4>3
        <5>2. [attempts EXCEPT ![on[w]].outcome = o]
                 \in [Attempts -> [outcome : {"none", "unknown", "created", "cleaned"},
                                  ref : Attempts \cup {None}]]
          BY ONLY <1>o
        <5>. QED
          BY ONLY <5>1, <5>2, Zenon
      <4>. QED
        BY ONLY <1>15, <4>1, <4>2, <4>3 DEF Reserve, FailTerminal, ReleaseUnstarted
    <3>. QED
      BY ONLY <3>1, <3>2 DEF KeysTyped
  <2>3. KeysOwned'
    <3>1. (\A i \in Attempts : keys[i] = "live" /\ status[i] \in Open => entitlement.ref = i)'
      BY <1>15 DEF Reserve, FailTerminal, ReleaseUnstarted, KInv, KeysTyped, KeysOwned, Open
    <3>2. (entitlement.status = "none" => entitlement.ref = None)'
      BY <1>15 DEF Reserve, FailTerminal, ReleaseUnstarted, KInv, KeysTyped, KeysOwned, Open
    <3>3. ASSUME NEW v \in Workers, pc'[v] = "reclaim"
         PROVE  entitlement'.ref \in {None, attempts'[on'[v]].ref}
      <4>1. v = w
        BY <1>15, <3>3 DEF Reserve, FailTerminal, ReleaseUnstarted
      <4>2. UNCHANGED entitlement /\ on'[w] = on[w]
        BY <1>15, <3>3, <4>1 DEF Reserve, FailTerminal, ReleaseUnstarted
      <4>3. \/ entitlement.ref = None
            \/ attempts' = [attempts EXCEPT ![on[w]] =
                                [outcome |-> "created", ref |-> entitlement.ref]]
        BY <1>15, <3>3, <4>1 DEF Reserve, FailTerminal, ReleaseUnstarted
      <4>. QED
        BY <1>15, <4>1, <4>2, <4>3 DEF Reserve, KInv, KeysTyped
    <3>4. ASSUME NEW v \in Workers, pc'[v] = "rebind"
         PROVE  entitlement'.ref = None \/ keys'[entitlement'.ref] # "live"
      BY <1>15, <3>4
         DEF Reserve, FailTerminal, ReleaseUnstarted, KInv, KeysTyped, KeysOwned, Open
    <3>5. ASSUME NEW v \in Workers, pc'[v] = "deliver" PROVE entitlement'.ref = on'[v]
      BY <1>15, <3>5
         DEF Reserve, FailTerminal, ReleaseUnstarted, KInv, KeysTyped, KeysOwned, Open
    <3>. QED
      BY ONLY <3>1, <3>2, <3>3, <3>4, <3>5 DEF KeysOwned
  <2>. QED
    BY ONLY <2>1, <2>2, <2>3 DEF Kept, KInv
<1>16. ASSUME NEW w \in Workers, Refuse(w) PROVE Kept
  <2>1. IInv' /\ AcknowledgedStays /\ FailedStays
    BY <1>16 DEF Refuse, ReleaseUnstarted
  <2>2. KeysTyped'
    <3>1. (keys \in [Attempts -> {"none", "live", "deleted"}])'
      BY <1>16 DEF Refuse, ReleaseUnstarted, KInv, KeysTyped
    <3>2. (attempts \in [Attempts -> [outcome : {"none", "unknown", "created", "cleaned"},
                                     ref : Attempts \cup {None}]])'
      BY ONLY <1>16, <1>o, KInv DEF Refuse, ReleaseUnstarted, KInv, KeysTyped
    <3>. QED
      BY ONLY <3>1, <3>2 DEF KeysTyped
  <2>3. KeysOwned'
    BY <1>16 DEF Refuse, ReleaseUnstarted, KInv, KeysTyped, KeysOwned, Open
  <2>. QED
    BY ONLY <2>1, <2>2, <2>3 DEF Kept, KInv
<1>17. ASSUME NEW w \in Workers, Reclaim(w) PROVE Kept
  <2>1. IInv' /\ AcknowledgedStays /\ FailedStays
    BY <1>17 DEF Reclaim, MarkUnknown
  <2>2. KeysTyped'
    <3>1. (keys \in [Attempts -> {"none", "live", "deleted"}])'
      <4>1. keys' \in {keys, Deleted(attempts[on[w]].ref)}
        BY ONLY <1>17 DEF Reclaim, Cleaned, CleanupFails
      <4>. QED
        BY ONLY <4>1, <1>k, KInv, Zenon DEF KInv, KeysTyped
    <3>2. (attempts \in [Attempts -> [outcome : {"none", "unknown", "created", "cleaned"},
                                     ref : Attempts \cup {None}]])'
      BY ONLY <1>17, <1>o, KInv DEF Reclaim, MarkUnknown, KInv, KeysTyped
    <3>. QED
      BY ONLY <3>1, <3>2 DEF KeysTyped
  <2>3. KeysOwned'
    <3>1. (\A i \in Attempts : keys[i] = "live" /\ status[i] \in Open => entitlement.ref = i)'
      BY <1>17
         DEF Reclaim, MarkUnknown, KInv, KeysTyped, KeysOwned, Open, Cleaned, CleanupFails,
             Deleted
    <3>2. (entitlement.status = "none" => entitlement.ref = None)'
      BY <1>17
         DEF Reclaim, MarkUnknown, KInv, KeysTyped, KeysOwned, Open, Cleaned, CleanupFails,
             Deleted
    <3>3. ASSUME NEW v \in Workers, pc'[v] = "reclaim"
         PROVE  entitlement'.ref \in {None, attempts'[on'[v]].ref}
      <4>1. pc[w] \in Creating /\ pc'[w] # "reclaim"
        BY <1>17 DEF Reclaim
      <4>2. v # w /\ pc'[v] = pc[v]
        BY <1>17, <3>3, <4>1 DEF Reclaim
      <4>. QED
        BY ONLY <3>3, <4>1, <4>2, IInv DEF IInv, OneHandlerIssues, Creating
    <3>4. ASSUME NEW v \in Workers, pc'[v] = "rebind"
         PROVE  entitlement'.ref = None \/ keys'[entitlement'.ref] # "live"
      BY <1>17, <3>4
         DEF Reclaim, MarkUnknown, KInv, KeysTyped, KeysOwned, Open, Cleaned, CleanupFails,
             Deleted
    <3>5. ASSUME NEW v \in Workers, pc'[v] = "deliver" PROVE entitlement'.ref = on'[v]
      <4>1. pc[w] \in Creating /\ pc'[w] # "deliver"
        BY <1>17 DEF Reclaim
      <4>2. v # w /\ pc'[v] = pc[v]
        BY <1>17, <3>5, <4>1 DEF Reclaim
      <4>. QED
        BY ONLY <3>5, <4>1, <4>2, IInv DEF IInv, OneHandlerIssues, Creating
    <3>. QED
      BY ONLY <3>1, <3>2, <3>3, <3>4, <3>5 DEF KeysOwned
  <2>. QED
    BY ONLY <2>1, <2>2, <2>3 DEF Kept, KInv
<1>18. ASSUME NEW w \in Workers, Rebind(w) PROVE Kept
  <2>1. IInv' /\ AcknowledgedStays /\ FailedStays
    <3>1. Typed'
      BY <1>18 DEF Rebind, CapReached, MarkUnknown, FailTerminal
    <3>2. OneHandlerIssues' /\ IssuesCurrent'
      BY <1>18 DEF Rebind, CapReached, MarkUnknown, FailTerminal
    <3>3. FreshAttempt' /\ NamesDelivery'
      BY <1>18 DEF Rebind, CapReached, MarkUnknown, FailTerminal
    <3>4. ActiveIsAcknowledged' /\ AcknowledgedStays /\ FailedStays
      BY <1>18 DEF Rebind, CapReached, MarkUnknown, FailTerminal
    <3>5. AcknowledgedOwnsEntitlement'
      BY <1>18 DEF Rebind, CapReached, MarkUnknown, FailTerminal
    <3>. QED
      BY ONLY <3>1, <3>2, <3>3, <3>4, <3>5 DEF IInv
  <2>2. KeysTyped'
    <3>1. (keys \in [Attempts -> {"none", "live", "deleted"}])'
      BY <1>18 DEF Rebind, CapReached, MarkUnknown, FailTerminal, KInv, KeysTyped
    <3>2. (attempts \in [Attempts -> [outcome : {"none", "unknown", "created", "cleaned"},
                                     ref : Attempts \cup {None}]])'
      BY ONLY <1>18, <1>o, KInv
         DEF Rebind, CapReached, MarkUnknown, FailTerminal, KInv, KeysTyped
    <3>. QED
      BY ONLY <3>1, <3>2 DEF KeysTyped
  <2>3. KeysOwned'
    <3>1. (\A i \in Attempts : keys[i] = "live" /\ status[i] \in Open => entitlement.ref = i)'
      BY <1>18
         DEF Rebind, CapReached, MarkUnknown, FailTerminal, KInv, KeysTyped, KeysOwned, Open
    <3>2. (entitlement.status = "none" => entitlement.ref = None)'
      BY <1>18
         DEF Rebind, CapReached, MarkUnknown, FailTerminal, KInv, KeysTyped, KeysOwned, Open
    <3>3. ASSUME NEW v \in Workers, pc'[v] = "reclaim"
         PROVE  entitlement'.ref \in {None, attempts'[on'[v]].ref}
      <4>1. pc[w] \in Creating /\ pc'[w] # "reclaim"
        BY <1>18 DEF Rebind
      <4>2. v # w /\ pc'[v] = pc[v]
        BY <1>18, <3>3, <4>1 DEF Rebind
      <4>. QED
        BY ONLY <3>3, <4>1, <4>2, IInv DEF IInv, OneHandlerIssues, Creating
    <3>4. ASSUME NEW v \in Workers, pc'[v] = "rebind"
         PROVE  entitlement'.ref = None \/ keys'[entitlement'.ref] # "live"
      BY <1>18, <3>4
         DEF Rebind, CapReached, MarkUnknown, FailTerminal, KInv, KeysTyped, KeysOwned, Open
    <3>5. ASSUME NEW v \in Workers, pc'[v] = "deliver" PROVE entitlement'.ref = on'[v]
      <4>1. pc[w] \in Creating /\ pc'[w] # "deliver"
        BY <1>18 DEF Rebind
      <4>2. v # w /\ pc'[v] = pc[v]
        BY <1>18, <3>5, <4>1 DEF Rebind
      <4>. QED
        BY ONLY <3>5, <4>1, <4>2, IInv DEF IInv, OneHandlerIssues, Creating
    <3>. QED
      BY ONLY <3>1, <3>2, <3>3, <3>4, <3>5 DEF KeysOwned
  <2>. QED
    BY ONLY <2>1, <2>2, <2>3 DEF Kept, KInv
<1>19. ASSUME NEW w \in Workers, Create(w) PROVE Kept
  <2>1. IInv' /\ AcknowledgedStays /\ FailedStays
    BY <1>19 DEF Create, FailTerminal
  <2>2. KeysTyped'
    <3>1. (keys \in [Attempts -> {"none", "live", "deleted"}])'
      BY <1>19 DEF Create, FailTerminal, KInv, KeysTyped
    <3>2. (attempts \in [Attempts -> [outcome : {"none", "unknown", "created", "cleaned"},
                                     ref : Attempts \cup {None}]])'
      BY ONLY <1>19, <1>o, KInv DEF Create, FailTerminal, KInv, KeysTyped
    <3>. QED
      BY ONLY <3>1, <3>2 DEF KeysTyped
  <2>3. KeysOwned'
    BY <1>19 DEF Create, FailTerminal, KInv, KeysTyped, KeysOwned, Open
  <2>. QED
    BY ONLY <2>1, <2>2, <2>3 DEF Kept, KInv
<1>20. ASSUME NEW w \in Workers, Record(w) PROVE Kept
  <2>1. IInv' /\ AcknowledgedStays /\ FailedStays
    BY <1>20 DEF Record
  <2>2. KeysTyped'
    BY <1>20 DEF Record, KInv, KeysTyped
  <2>3. KeysOwned'
    BY <1>20 DEF Record, KInv, KeysTyped, KeysOwned, Open
  <2>. QED
    BY ONLY <2>1, <2>2, <2>3 DEF Kept, KInv
<1>21. ASSUME NEW w \in Workers, Pend(w) PROVE Kept
  <2>1. IInv' /\ AcknowledgedStays /\ FailedStays
    BY <1>21 DEF Pend
  <2>2. KeysTyped'
    BY <1>21 DEF Pend, KInv, KeysTyped
  <2>3. KeysOwned'
    BY <1>21 DEF Pend, KInv, KeysTyped, KeysOwned, Open
  <2>. QED
    BY ONLY <2>1, <2>2, <2>3 DEF Kept, KInv
<1>22. ASSUME NEW w \in Workers, Deliver(w) PROVE Kept
  <2>1. IInv' /\ AcknowledgedStays /\ FailedStays
    BY <1>22 DEF Deliver
  <2>2. KeysTyped'
    BY <1>22 DEF Deliver, KInv, KeysTyped
  <2>3. KeysOwned'
    BY <1>22 DEF Deliver, KInv, KeysTyped, KeysOwned, Open
  <2>. QED
    BY ONLY <2>1, <2>2, <2>3 DEF Kept, KInv
<1>23. ASSUME NEW w \in Workers, Settle(w) PROVE Kept
  <2>1. IInv' /\ AcknowledgedStays /\ FailedStays
    BY <1>23 DEF Settle
  <2>2. KeysTyped'
    BY <1>23 DEF Settle, KInv, KeysTyped
  <2>3. KeysOwned'
    <3>1. (\A i \in Attempts : keys[i] = "live" /\ status[i] \in Open => entitlement.ref = i)'
      BY <1>23 DEF Settle, KInv, KeysTyped, KeysOwned, Open
    <3>2. (entitlement.status = "none" => entitlement.ref = None)'
      BY <1>23 DEF Settle, KInv, KeysTyped, KeysOwned, Open
    <3>3. ASSUME NEW v \in Workers, pc'[v] = "reclaim"
         PROVE  entitlement'.ref \in {None, attempts'[on'[v]].ref}
      <4>1. pc[w] \in Creating /\ pc'[w] # "reclaim"
        BY <1>23 DEF Settle
      <4>2. v # w /\ pc'[v] = pc[v]
        BY <1>23, <3>3, <4>1 DEF Settle
      <4>. QED
        BY ONLY <3>3, <4>1, <4>2, IInv DEF IInv, OneHandlerIssues, Creating
    <3>4. ASSUME NEW v \in Workers, pc'[v] = "rebind"
         PROVE  entitlement'.ref = None \/ keys'[entitlement'.ref] # "live"
      BY <1>23, <3>4 DEF Settle, KInv, KeysTyped, KeysOwned, Open
    <3>5. ASSUME NEW v \in Workers, pc'[v] = "deliver" PROVE entitlement'.ref = on'[v]
      <4>1. pc[w] \in Creating /\ pc'[w] # "deliver"
        BY <1>23 DEF Settle
      <4>2. v # w /\ pc'[v] = pc[v]
        BY <1>23, <3>5, <4>1 DEF Settle
      <4>. QED
        BY ONLY <3>5, <4>1, <4>2, IInv DEF IInv, OneHandlerIssues, Creating
    <3>. QED
      BY ONLY <3>1, <3>2, <3>3, <3>4, <3>5 DEF KeysOwned
  <2>. QED
    BY ONLY <2>1, <2>2, <2>3 DEF Kept, KInv
<1>24. ASSUME NEW w \in Workers, Indeterminate(w) PROVE Kept
  <2>1. IInv' /\ AcknowledgedStays /\ FailedStays
    BY <1>24 DEF Indeterminate, MarkUnknown
  <2>2. KeysTyped'
    <3>1. (keys \in [Attempts -> {"none", "live", "deleted"}])'
      BY <1>24 DEF Indeterminate, MarkUnknown, KInv, KeysTyped
    <3>2. (attempts \in [Attempts -> [outcome : {"none", "unknown", "created", "cleaned"},
                                     ref : Attempts \cup {None}]])'
      BY ONLY <1>24, <1>o DEF Indeterminate, MarkUnknown
    <3>. QED
      BY ONLY <3>1, <3>2 DEF KeysTyped
  <2>3. KeysOwned'
    BY <1>24 DEF Indeterminate, MarkUnknown, KInv, KeysTyped, KeysOwned, Open
  <2>. QED
    BY ONLY <2>1, <2>2, <2>3 DEF Kept, KInv
<1>25. ASSUME NEW w \in Workers, AckBegin(w) PROVE Kept
  <2>1. IInv' /\ AcknowledgedStays /\ FailedStays
    BY <1>25 DEF AckBegin
  <2>2. KeysTyped'
    BY <1>25 DEF AckBegin, KInv, KeysTyped
  <2>3. KeysOwned'
    BY <1>25 DEF AckBegin, KInv, KeysTyped, KeysOwned, Open
  <2>. QED
    BY ONLY <2>1, <2>2, <2>3 DEF Kept, KInv
<1>26. ASSUME NEW w \in Workers, AckFinalize(w) PROVE Kept
  <2>1. IInv' /\ AcknowledgedStays /\ FailedStays
    BY <1>26 DEF AckFinalize
  <2>2. KeysTyped'
    BY <1>26 DEF AckFinalize, KInv, KeysTyped
  <2>3. KeysOwned'
    <3>1. (\A i \in Attempts : keys[i] = "live" /\ status[i] \in Open => entitlement.ref = i)'
      BY <1>26 DEF AckFinalize, KInv, KeysTyped, KeysOwned, Open
    <3>2. (entitlement.status = "none" => entitlement.ref = None)'
      BY <1>26 DEF AckFinalize, KInv, KeysTyped, KeysOwned, Open
    <3>3. ASSUME NEW v \in Workers, pc'[v] = "reclaim"
         PROVE  entitlement'.ref \in {None, attempts'[on'[v]].ref}
      BY <1>26, <3>3 DEF AckFinalize, KInv, KeysTyped, KeysOwned, Open
    <3>4. ASSUME NEW v \in Workers, pc'[v] = "rebind"
         PROVE  entitlement'.ref = None \/ keys'[entitlement'.ref] # "live"
      BY <1>26, <3>4 DEF AckFinalize, KInv, KeysTyped, KeysOwned, Open
    <3>5. ASSUME NEW v \in Workers, pc'[v] = "deliver" PROVE entitlement'.ref = on'[v]
      BY <1>26, <3>5 DEF AckFinalize, KInv, KeysTyped, KeysOwned, Open
    <3>. QED
      BY ONLY <3>1, <3>2, <3>3, <3>4, <3>5 DEF KeysOwned
  <2>. QED
    BY ONLY <2>1, <2>2, <2>3 DEF Kept, KInv
<1>27. ASSUME NEW w \in Workers, AckActivate(w) PROVE Kept
  <2>1. IInv' /\ AcknowledgedStays /\ FailedStays
    BY <1>27 DEF AckActivate, ActivateOnAck
  <2>2. KeysTyped'
    BY <1>27 DEF AckActivate, ActivateOnAck, KInv, KeysTyped
  <2>3. KeysOwned'
    BY <1>27 DEF AckActivate, ActivateOnAck, KInv, KeysTyped, KeysOwned, Open
  <2>. QED
    BY ONLY <2>1, <2>2, <2>3 DEF Kept, KInv
<1>28. ASSUME NEW w \in Workers, StaleBegin(w) PROVE Kept
  <2>1. IInv' /\ AcknowledgedStays /\ FailedStays
    BY <1>28 DEF StaleBegin, SetDelivery, Finalized
  <2>2. KeysTyped'
    BY <1>28 DEF StaleBegin, SetDelivery, Finalized, KInv, KeysTyped
  <2>3. KeysOwned'
    <3>1. (\A i \in Attempts : keys[i] = "live" /\ status[i] \in Open => entitlement.ref = i)'
      BY <1>28 DEF StaleBegin, SetDelivery, Finalized, KInv, KeysTyped, KeysOwned, Open
    <3>2. (entitlement.status = "none" => entitlement.ref = None)'
      BY <1>28 DEF StaleBegin, SetDelivery, Finalized, KInv, KeysTyped, KeysOwned, Open
    <3>3. ASSUME NEW v \in Workers, pc'[v] = "reclaim"
         PROVE  entitlement'.ref \in {None, attempts'[on'[v]].ref}
      BY <1>28, <3>3 DEF StaleBegin, SetDelivery, Finalized, KInv, KeysTyped, KeysOwned, Open
    <3>4. ASSUME NEW v \in Workers, pc'[v] = "rebind"
         PROVE  entitlement'.ref = None \/ keys'[entitlement'.ref] # "live"
      BY <1>28, <3>4 DEF StaleBegin, SetDelivery, Finalized, KInv, KeysTyped, KeysOwned, Open
    <3>5. ASSUME NEW v \in Workers, pc'[v] = "deliver" PROVE entitlement'.ref = on'[v]
      BY <1>28, <3>5 DEF StaleBegin, SetDelivery, Finalized, KInv, KeysTyped, KeysOwned, Open
    <3>. QED
      BY ONLY <3>1, <3>2, <3>3, <3>4, <3>5 DEF KeysOwned
  <2>. QED
    BY ONLY <2>1, <2>2, <2>3 DEF Kept, KInv
<1>29. ASSUME NEW w \in Workers, Claim(w) PROVE Kept
  <2>1. IInv' /\ AcknowledgedStays /\ FailedStays
    <3>1. Typed'
      BY <1>29 DEF Claim, Claimable
    <3>2. OneHandlerIssues' /\ IssuesCurrent'
      BY <1>29 DEF Claim, Claimable
    <3>3. FreshAttempt' /\ NamesDelivery'
      BY <1>29 DEF Claim, Claimable
    <3>4. ActiveIsAcknowledged' /\ AcknowledgedStays /\ FailedStays
      BY <1>29 DEF Claim, Claimable
    <3>5. AcknowledgedOwnsEntitlement'
      BY <1>29 DEF Claim, Claimable
    <3>. QED
      BY ONLY <3>1, <3>2, <3>3, <3>4, <3>5 DEF IInv
  <2>2. KeysTyped'
    BY <1>29 DEF Claim, Claimable, KInv, KeysTyped
  <2>3. KeysOwned'
    BY <1>29 DEF Claim, Claimable, KInv, KeysTyped, KeysOwned, Open
  <2>. QED
    BY ONLY <2>1, <2>2, <2>3 DEF Kept, KInv
<1>30. ASSUME NEW w \in Workers, Recheck(w) PROVE Kept
  <2>1. IInv' /\ AcknowledgedStays /\ FailedStays
    BY <1>30 DEF Recheck, SetDelivery, Own, Finalized
  <2>2. KeysTyped'
    BY <1>30 DEF Recheck, SetDelivery, Own, Finalized, KInv, KeysTyped
  <2>3. KeysOwned'
    <3>1. (\A i \in Attempts : keys[i] = "live" /\ status[i] \in Open => entitlement.ref = i)'
      BY <1>30 DEF Recheck, SetDelivery, Own, Finalized, KInv, KeysTyped, KeysOwned, Open
    <3>2. (entitlement.status = "none" => entitlement.ref = None)'
      BY <1>30 DEF Recheck, SetDelivery, Own, Finalized, KInv, KeysTyped, KeysOwned, Open
    <3>3. ASSUME NEW v \in Workers, pc'[v] = "reclaim"
         PROVE  entitlement'.ref \in {None, attempts'[on'[v]].ref}
      BY <1>30, <3>3 DEF Recheck, SetDelivery, Own, Finalized, KInv, KeysTyped, KeysOwned, Open
    <3>4. ASSUME NEW v \in Workers, pc'[v] = "rebind"
         PROVE  entitlement'.ref = None \/ keys'[entitlement'.ref] # "live"
      BY <1>30, <3>4 DEF Recheck, SetDelivery, Own, Finalized, KInv, KeysTyped, KeysOwned, Open
    <3>5. ASSUME NEW v \in Workers, pc'[v] = "deliver" PROVE entitlement'.ref = on'[v]
      BY <1>30, <3>5 DEF Recheck, SetDelivery, Own, Finalized, KInv, KeysTyped, KeysOwned, Open
    <3>. QED
      BY ONLY <3>1, <3>2, <3>3, <3>4, <3>5 DEF KeysOwned
  <2>. QED
    BY ONLY <2>1, <2>2, <2>3 DEF Kept, KInv
<1>31. ASSUME NEW w \in Workers, Revoke(w) PROVE Kept
  <2>1. IInv' /\ AcknowledgedStays /\ FailedStays
    BY <1>31 DEF Revoke
  <2>2. KeysTyped'
    <3>1. (keys \in [Attempts -> {"none", "live", "deleted"}])'
      BY <1>31 DEF Revoke, KInv, KeysTyped, Cleaned, CleanupFails, Deleted
    <3>2. (attempts \in [Attempts -> [outcome : {"none", "unknown", "created", "cleaned"},
                                     ref : Attempts \cup {None}]])'
      BY <1>31 DEF Revoke, KInv, KeysTyped, Cleaned, CleanupFails, Deleted
    <3>. QED
      BY ONLY <3>1, <3>2 DEF KeysTyped
  <2>3. KeysOwned'
    BY <1>31 DEF Revoke, KInv, KeysTyped, KeysOwned, Open, Cleaned, CleanupFails, Deleted
  <2>. QED
    BY ONLY <2>1, <2>2, <2>3 DEF Kept, KInv
<1>32. ASSUME NEW w \in Workers, Shared(w) PROVE Kept
  <2>1. IInv' /\ AcknowledgedStays /\ FailedStays
    BY <1>32 DEF Shared
  <2>2. KeysTyped'
    BY <1>32 DEF Shared, KInv, KeysTyped
  <2>3. KeysOwned'
    BY <1>32 DEF Shared, KInv, KeysTyped, KeysOwned, Open
  <2>. QED
    BY ONLY <2>1, <2>2, <2>3 DEF Kept, KInv
<1>33. ASSUME NEW w \in Workers, Complete(w) PROVE Kept
  <2>1. IInv' /\ AcknowledgedStays /\ FailedStays
    BY <1>33 DEF Complete, SetDelivery, Own, Owner
  <2>2. KeysTyped'
    BY <1>33 DEF Complete, SetDelivery, Own, Owner, KInv, KeysTyped
  <2>3. KeysOwned'
    <3>1. (\A i \in Attempts : keys[i] = "live" /\ status[i] \in Open => entitlement.ref = i)'
      BY <1>33 DEF Complete, SetDelivery, Own, Owner, KInv, KeysTyped, KeysOwned, Open
    <3>2. (entitlement.status = "none" => entitlement.ref = None)'
      BY <1>33 DEF Complete, SetDelivery, Own, Owner, KInv, KeysTyped, KeysOwned, Open
    <3>3. ASSUME NEW v \in Workers, pc'[v] = "reclaim"
         PROVE  entitlement'.ref \in {None, attempts'[on'[v]].ref}
      BY <1>33, <3>3 DEF Complete, SetDelivery, Own, Owner, KInv, KeysTyped, KeysOwned, Open
    <3>4. ASSUME NEW v \in Workers, pc'[v] = "rebind"
         PROVE  entitlement'.ref = None \/ keys'[entitlement'.ref] # "live"
      BY <1>33, <3>4 DEF Complete, SetDelivery, Own, Owner, KInv, KeysTyped, KeysOwned, Open
    <3>5. ASSUME NEW v \in Workers, pc'[v] = "deliver" PROVE entitlement'.ref = on'[v]
      <4>1. pc[v] = "deliver" /\ v # w /\ on'[v] = on[v]
        BY <1>33, <3>5 DEF Complete
      <4>2. status[on[w]] = "claimed" => on[v] # on[w]
        BY <4>1
      <4>3. entitlement' = entitlement \/ (status[on[w]] = "claimed" /\ entitlement.ref = on[w])
        BY ONLY <1>33 DEF Complete, Own, Owner
      <4>. QED
        BY <4>1, <4>2, <4>3 DEF KInv, KeysOwned
    <3>. QED
      BY ONLY <3>1, <3>2, <3>3, <3>4, <3>5 DEF KeysOwned
  <2>. QED
    BY ONLY <2>1, <2>2, <2>3 DEF Kept, KInv
<1>34. ASSUME NEW w \in Workers, Escalate(w) PROVE Kept
  <2>1. IInv' /\ AcknowledgedStays /\ FailedStays
    BY <1>34 DEF Escalate, SetDelivery, Own, Owner
  <2>2. KeysTyped'
    BY <1>34 DEF Escalate, SetDelivery, Own, Owner, KInv, KeysTyped
  <2>3. KeysOwned'
    BY <1>34 DEF Escalate, SetDelivery, Own, Owner, KInv, KeysTyped, KeysOwned, Open
  <2>. QED
    BY ONLY <2>1, <2>2, <2>3 DEF Kept, KInv
<1>35. ASSUME NEW w \in Workers, SweepCreating(w) PROVE Kept
  <2>1. IInv' /\ AcknowledgedStays /\ FailedStays
    BY <1>35 DEF SweepCreating
  <2>2. KeysTyped'
    BY <1>35 DEF SweepCreating, KInv, KeysTyped
  <2>3. KeysOwned'
    BY <1>35 DEF SweepCreating, KInv, KeysTyped, KeysOwned, Open
  <2>. QED
    BY ONLY <2>1, <2>2, <2>3 DEF Kept, KInv
<1>36. ASSUME NEW w \in Workers, SweepUnsettled(w) PROVE Kept
  <2>1. IInv' /\ AcknowledgedStays /\ FailedStays
    BY <1>36 DEF SweepUnsettled
  <2>2. KeysTyped'
    BY <1>36 DEF SweepUnsettled, KInv, KeysTyped
  <2>3. KeysOwned'
    BY <1>36 DEF SweepUnsettled, KInv, KeysTyped, KeysOwned, Open
  <2>. QED
    BY ONLY <2>1, <2>2, <2>3 DEF Kept, KInv
<1>37. ASSUME NEW w \in Workers, SweepDelivery(w) PROVE Kept
  <2>1. IInv' /\ AcknowledgedStays /\ FailedStays
    BY <1>37 DEF SweepDelivery
  <2>2. KeysTyped'
    BY <1>37 DEF SweepDelivery, KInv, KeysTyped
  <2>3. KeysOwned'
    BY <1>37 DEF SweepDelivery, KInv, KeysTyped, KeysOwned, Open
  <2>. QED
    BY ONLY <2>1, <2>2, <2>3 DEF Kept, KInv
<1>38. ASSUME NEW w \in Workers, SweepDelete(w) PROVE Kept
  <2>1. IInv' /\ AcknowledgedStays /\ FailedStays
    BY <1>38 DEF SweepDelete
  <2>2. KeysTyped'
    BY <1>38 DEF SweepDelete, KInv, KeysTyped, Cleaned, CleanupFails, Deleted
  <2>3. KeysOwned'
    BY <1>38 DEF SweepDelete, KInv, KeysTyped, KeysOwned, Open, Cleaned, CleanupFails, Deleted
  <2>. QED
    BY ONLY <2>1, <2>2, <2>3 DEF Kept, KInv
<1>39. ASSUME NEW w \in Workers, SweepVerify(w) PROVE Kept
  <2>1. IInv' /\ AcknowledgedStays /\ FailedStays
    BY <1>39 DEF SweepVerify
  <2>2. KeysTyped'
    BY <1>39 DEF SweepVerify, KInv, KeysTyped
  <2>3. KeysOwned'
    BY <1>39 DEF SweepVerify, KInv, KeysTyped, KeysOwned, Open
  <2>. QED
    BY ONLY <2>1, <2>2, <2>3 DEF Kept, KInv
<1>40. ASSUME NEW w \in Workers, Die(w) PROVE Kept
  <2>1. IInv' /\ AcknowledgedStays /\ FailedStays
    BY <1>40 DEF Die
  <2>2. KeysTyped'
    BY <1>40 DEF Die, KInv, KeysTyped
  <2>3. KeysOwned'
    BY <1>40 DEF Die, KInv, KeysTyped, KeysOwned, Open
  <2>. QED
    BY ONLY <2>1, <2>2, <2>3 DEF Kept, KInv
<1>41. ASSUME NEW i \in Attempts, Lapse(i) PROVE Kept
  BY <1>41 DEF Lapse, Kept, KInv, KeysTyped, KeysOwned, Open
<1>42. CASE Expire
  BY <1>42 DEF Expire, Kept, KInv, KeysTyped, KeysOwned, Open
<1>43. CASE UNCHANGED vars
  BY <1>43 DEF vars, Kept, KInv, KeysTyped, KeysOwned, Open
<1>. QED
  BY ONLY [Next]_vars, <1>1, <1>2, <1>3, <1>4, <1>5, <1>6, <1>7, <1>8, <1>9, <1>10, <1>11,
          <1>12, <1>13, <1>14, <1>15, <1>16, <1>17, <1>18, <1>19, <1>20, <1>21, <1>22, <1>23,
          <1>24, <1>25, <1>26, <1>27, <1>28, <1>29, <1>30, <1>31, <1>32, <1>33, <1>34, <1>35,
          <1>36, <1>37, <1>38, <1>39, <1>40, <1>41, <1>42, <1>43
  DEF Next, RequestStep, CleanerStep, SweeperStep, Reconcile, Issue, Acknowledge, Workers

\* Every step keeps the types of what the handlers have read and of the counters.
LEMMA CountsStep ==
    ASSUME Typed, KeysTyped, CountsTyped, ClaimsTyped, [Next]_vars
    PROVE  CountsTyped'
<1>l. ASSUME NEW w, NEW l \in Locs
      PROVE  [loc EXCEPT ![w] = l] \in [Workers -> Locs]
  BY ONLY CountsTyped, Zenon DEF CountsTyped
<1>n. NoLocals \in Locs
  BY DEF NoLocals, Locs, None
<1>r. ASSUME NEW l \in Locs, NEW r \in Attempts \cup {None}
      PROVE  /\ [l EXCEPT !.ref = r] \in Locs
             /\ \A p \in {"none", "found", "missing", "sweep"} :
                   /\ [l EXCEPT !.path = p] \in Locs
                   /\ [l EXCEPT !.ref = r, !.path = p] \in Locs
             /\ \A n \in Nat : [l EXCEPT !.ref = r, !.count = n] \in Locs
  BY DEF Locs
<1>s. ASSUME NEW l \in Locs
      PROVE  /\ [l EXCEPT !.then = "start"] \in Locs
             /\ \A b \in BOOLEAN : [l EXCEPT !.shared = b] \in Locs
             /\ \A c \in SUBSET Scheduled : [l EXCEPT !.claim = c] \in Locs
  BY DEF Locs
<1>w. ASSUME NEW w \in Workers
      PROVE  /\ loc[w] \in Locs /\ attempts[current].ref \in Attempts \cup {None}
             /\ on[w] \in Attempts \cup {None} /\ loc[w].count \in Nat
             /\ loc[w].ref \in Attempts \cup {None}
  BY DEF CountsTyped, Typed, KeysTyped, Locs
<1>. USE OperationAssumption, SMTT(30)
     DEF OperationAssumption, ledger, client, rows, op, deliveries, handlers,
         Goto, Move, Stop, At, Transition, Request, Fault
<1>1. ASSUME NEW w \in Workers, ResumeBegin(w) PROVE CountsTyped'
  <2>1. loc' \in [Workers -> Locs]
    <3>1. [NoLocals EXCEPT !.then = "start"] \in Locs
      BY ONLY OperationAssumption, CountsTyped, ClaimsTyped, <1>n, <1>s
    <3>. QED
      BY ONLY <1>1, <1>l, <1>n, <1>w, <3>1 DEF Move, Goto, Stop, ResumeBegin
  <2>2. (CountsTyped /\ loc' \in [Workers -> Locs]) => CountsTyped'
    BY <1>1, <1>w DEF CountsTyped, ResumeBegin
  <2>. QED
    BY ONLY <2>1, <2>2, CountsTyped
<1>2. ASSUME NEW w \in Workers, ResumeLatest(w) PROVE CountsTyped'
  <2>1. loc' \in [Workers -> Locs]
    BY <1>2, <1>l, <1>n, <1>w DEF ResumeLatest, ActivateOnAck
  <2>2. (CountsTyped /\ loc' \in [Workers -> Locs]) => CountsTyped'
    BY <1>2, <1>w DEF CountsTyped, ResumeLatest, ActivateOnAck
  <2>. QED
    BY ONLY <2>1, <2>2, CountsTyped
<1>3. ASSUME NEW w \in Workers, ResumeExpire(w) PROVE CountsTyped'
  <2>1. loc' \in [Workers -> Locs]
    BY <1>3, <1>l, <1>n, <1>w DEF ResumeExpire
  <2>2. (CountsTyped /\ loc' \in [Workers -> Locs]) => CountsTyped'
    BY <1>3, <1>w DEF CountsTyped, ResumeExpire
  <2>. QED
    BY ONLY <2>1, <2>2, CountsTyped
<1>4. ASSUME NEW w \in Workers, ResumeUnknown(w) PROVE CountsTyped'
  <2>1. loc' \in [Workers -> Locs]
    BY <1>4, <1>l, <1>n, <1>w DEF ResumeUnknown, Return
  <2>2. (CountsTyped /\ loc' \in [Workers -> Locs]) => CountsTyped'
    BY <1>4, <1>w DEF CountsTyped, ResumeUnknown, Return
  <2>. QED
    BY ONLY <2>1, <2>2, CountsTyped
<1>5. ASSUME NEW w \in Workers, Target(w) PROVE CountsTyped'
  <2>1. loc' \in [Workers -> Locs]
    <3>1. [loc[w] EXCEPT !.ref = attempts[current].ref, !.count = cleanups] \in Locs
      BY ONLY OperationAssumption, CountsTyped, ClaimsTyped, <1>r, <1>w DEF CountsTyped
    <3>. QED
      BY ONLY <1>5, <1>l, <1>n, <1>w, <3>1 DEF Move, Goto, Stop, Target
  <2>2. (CountsTyped /\ loc' \in [Workers -> Locs]) => CountsTyped'
    BY <1>5, <1>w DEF CountsTyped, Target
  <2>. QED
    BY ONLY <2>1, <2>2, CountsTyped
<1>6. ASSUME NEW w \in Workers, Look(w) PROVE CountsTyped'
  <2>1. loc' \in [Workers -> Locs]
    BY <1>6, <1>l, <1>n, <1>w DEF Look
  <2>2. (CountsTyped /\ loc' \in [Workers -> Locs]) => CountsTyped'
    BY <1>6, <1>w DEF CountsTyped, Look
  <2>. QED
    BY ONLY <2>1, <2>2, CountsTyped
<1>7. ASSUME NEW w \in Workers, Find(w) PROVE CountsTyped'
  <2>1. loc' \in [Workers -> Locs]
    <3>1. /\ [loc[w] EXCEPT !.ref = CleanupRef(loc[w].ref, on[w]),
                         !.path = IF keys[on[w]] = "live" THEN "found" ELSE "missing"] \in Locs
          /\ [loc[w] EXCEPT !.path = "missing"] \in Locs
      BY ONLY OperationAssumption, CountsTyped, ClaimsTyped, <1>r, <1>w DEF CleanupRef
    <3>. QED
      BY ONLY <1>7, <1>l, <1>n, <1>w, <3>1 DEF Move, Goto, Stop, Find
  <2>2. (CountsTyped /\ loc' \in [Workers -> Locs]) => CountsTyped'
    BY <1>7, <1>w DEF CountsTyped, Find, CleanupRef
  <2>. QED
    BY ONLY <2>1, <2>2, CountsTyped
<1>8. ASSUME NEW w \in Workers, LookupFails(w) PROVE CountsTyped'
  <2>1. loc' \in [Workers -> Locs]
    BY <1>8, <1>l, <1>n, <1>w DEF LookupFails
  <2>2. (CountsTyped /\ loc' \in [Workers -> Locs]) => CountsTyped'
    BY <1>8, <1>w DEF CountsTyped, LookupFails
  <2>. QED
    BY ONLY <2>1, <2>2, CountsTyped
<1>9. ASSUME NEW w \in Workers, Delete(w) PROVE CountsTyped'
  <2>1. loc' \in [Workers -> Locs]
    <3>1. [loc[w] EXCEPT !.ref = None] \in Locs
      BY ONLY OperationAssumption, CountsTyped, ClaimsTyped, <1>r, <1>w
    <3>. QED
      BY ONLY <1>9, <1>l, <1>n, <1>w, <3>1 DEF Move, Goto, Stop, Delete, Cleaned, CleanupFails
  <2>2. (CountsTyped /\ loc' \in [Workers -> Locs]) => CountsTyped'
    BY <1>9, <1>w DEF CountsTyped, Delete, Cleaned, CleanupFails
  <2>. QED
    BY ONLY <2>1, <2>2, CountsTyped
<1>10. ASSUME NEW w \in Workers, DeleteFails(w) PROVE CountsTyped'
  <2>1. loc' \in [Workers -> Locs]
    BY <1>10, <1>l, <1>n, <1>w DEF DeleteFails, Return, CleanupFails, Cleaned
  <2>2. (CountsTyped /\ loc' \in [Workers -> Locs]) => CountsTyped'
    BY <1>10, <1>w DEF CountsTyped, DeleteFails, Return, CleanupFails, Cleaned
  <2>. QED
    BY ONLY <2>1, <2>2, CountsTyped
<1>11. ASSUME NEW w \in Workers, Verify(w) PROVE CountsTyped'
  <2>1. loc' \in [Workers -> Locs]
    BY <1>11, <1>l, <1>n, <1>w DEF Verify, Return
  <2>2. (CountsTyped /\ loc' \in [Workers -> Locs]) => CountsTyped'
    BY <1>11, <1>w DEF CountsTyped, Verify, Return
  <2>. QED
    BY ONLY <2>1, <2>2, CountsTyped
<1>12. ASSUME NEW w \in Workers, Clean(w) PROVE CountsTyped'
  <2>1. loc' \in [Workers -> Locs]
    BY <1>12, <1>l, <1>n, <1>w DEF Clean
  <2>2. (CountsTyped /\ loc' \in [Workers -> Locs]) => CountsTyped'
    BY <1>12, <1>w DEF CountsTyped, Clean
  <2>. QED
    BY ONLY <2>1, <2>2, CountsTyped
<1>13. ASSUME NEW w \in Workers, Ready(w) PROVE CountsTyped'
  <2>1. loc' \in [Workers -> Locs]
    BY <1>13, <1>l, <1>n, <1>w DEF Ready, Return
  <2>2. (CountsTyped /\ loc' \in [Workers -> Locs]) => CountsTyped'
    BY <1>13, <1>w DEF CountsTyped, Ready, Return
  <2>. QED
    BY ONLY <2>1, <2>2, CountsTyped
<1>14. ASSUME NEW w \in Workers, Start(w) PROVE CountsTyped'
  <2>1. loc' \in [Workers -> Locs]
    <3>1. [NoLocals EXCEPT !.shared = HasLiveDelivery] \in Locs
      BY ONLY OperationAssumption, CountsTyped, ClaimsTyped, <1>n, <1>s DEF HasLiveDelivery
    <3>. QED
      BY ONLY <1>14, <1>l, <1>n, <1>w, <3>1 DEF Move, Goto, Stop, Start
  <2>2. (CountsTyped /\ loc' \in [Workers -> Locs]) => CountsTyped'
    BY <1>14, <1>w DEF CountsTyped, Start
  <2>. QED
    BY ONLY <2>1, <2>2, CountsTyped
<1>15. ASSUME NEW w \in Workers, Reserve(w) PROVE CountsTyped'
  <2>1. loc' \in [Workers -> Locs]
    BY <1>15, <1>l, <1>n, <1>w DEF Reserve, FailTerminal, ReleaseUnstarted
  <2>2. (CountsTyped /\ loc' \in [Workers -> Locs]) => CountsTyped'
    BY <1>15, <1>w DEF CountsTyped, Reserve, FailTerminal, ReleaseUnstarted
  <2>. QED
    BY ONLY <2>1, <2>2, CountsTyped
<1>16. ASSUME NEW w \in Workers, Refuse(w) PROVE CountsTyped'
  <2>1. loc' \in [Workers -> Locs]
    BY <1>16, <1>l, <1>n, <1>w DEF Refuse, ReleaseUnstarted
  <2>2. (CountsTyped /\ loc' \in [Workers -> Locs]) => CountsTyped'
    BY <1>16, <1>w DEF CountsTyped, Refuse, ReleaseUnstarted
  <2>. QED
    BY ONLY <2>1, <2>2, CountsTyped
<1>17. ASSUME NEW w \in Workers, Reclaim(w) PROVE CountsTyped'
  <2>1. loc' \in [Workers -> Locs]
    BY <1>17, <1>l, <1>n, <1>w DEF Reclaim, MarkUnknown, Cleaned, CleanupFails
  <2>2. (CountsTyped /\ loc' \in [Workers -> Locs]) => CountsTyped'
    BY <1>17, <1>w DEF CountsTyped, Reclaim, MarkUnknown, Cleaned, CleanupFails
  <2>. QED
    BY ONLY <2>1, <2>2, CountsTyped
<1>18. ASSUME NEW w \in Workers, Rebind(w) PROVE CountsTyped'
  <2>1. loc' \in [Workers -> Locs]
    BY <1>18, <1>l, <1>n, <1>w DEF Rebind, CapReached, MarkUnknown, FailTerminal
  <2>2. (CountsTyped /\ loc' \in [Workers -> Locs]) => CountsTyped'
    BY <1>18, <1>w DEF CountsTyped, Rebind, CapReached, MarkUnknown, FailTerminal
  <2>. QED
    BY ONLY <2>1, <2>2, CountsTyped
<1>19. ASSUME NEW w \in Workers, Create(w) PROVE CountsTyped'
  <2>1. loc' \in [Workers -> Locs]
    BY <1>19, <1>l, <1>n, <1>w DEF Create, FailTerminal
  <2>2. (CountsTyped /\ loc' \in [Workers -> Locs]) => CountsTyped'
    BY <1>19, <1>w DEF CountsTyped, Create, FailTerminal
  <2>. QED
    BY ONLY <2>1, <2>2, CountsTyped
<1>20. ASSUME NEW w \in Workers, Record(w) PROVE CountsTyped'
  <2>1. loc' \in [Workers -> Locs]
    BY <1>20, <1>l, <1>n, <1>w DEF Record
  <2>2. (CountsTyped /\ loc' \in [Workers -> Locs]) => CountsTyped'
    BY <1>20, <1>w DEF CountsTyped, Record
  <2>. QED
    BY ONLY <2>1, <2>2, CountsTyped
<1>21. ASSUME NEW w \in Workers, Pend(w) PROVE CountsTyped'
  <2>1. loc' \in [Workers -> Locs]
    BY <1>21, <1>l, <1>n, <1>w DEF Pend
  <2>2. (CountsTyped /\ loc' \in [Workers -> Locs]) => CountsTyped'
    BY <1>21, <1>w DEF CountsTyped, Pend
  <2>. QED
    BY ONLY <2>1, <2>2, CountsTyped
<1>22. ASSUME NEW w \in Workers, Deliver(w) PROVE CountsTyped'
  <2>1. loc' \in [Workers -> Locs]
    BY <1>22, <1>l, <1>n, <1>w DEF Deliver
  <2>2. (CountsTyped /\ loc' \in [Workers -> Locs]) => CountsTyped'
    BY <1>22, <1>w DEF CountsTyped, Deliver
  <2>. QED
    BY ONLY <2>1, <2>2, CountsTyped
<1>23. ASSUME NEW w \in Workers, Settle(w) PROVE CountsTyped'
  <2>1. loc' \in [Workers -> Locs]
    BY <1>23, <1>l, <1>n, <1>w DEF Settle
  <2>2. (CountsTyped /\ loc' \in [Workers -> Locs]) => CountsTyped'
    BY <1>23, <1>w DEF CountsTyped, Settle
  <2>. QED
    BY ONLY <2>1, <2>2, CountsTyped
<1>24. ASSUME NEW w \in Workers, Indeterminate(w) PROVE CountsTyped'
  <2>1. loc' \in [Workers -> Locs]
    BY <1>24, <1>l, <1>n, <1>w DEF Indeterminate, MarkUnknown
  <2>2. (CountsTyped /\ loc' \in [Workers -> Locs]) => CountsTyped'
    BY <1>24, <1>w DEF CountsTyped, Indeterminate, MarkUnknown
  <2>. QED
    BY ONLY <2>1, <2>2, CountsTyped
<1>25. ASSUME NEW w \in Workers, AckBegin(w) PROVE CountsTyped'
  <2>1. loc' \in [Workers -> Locs]
    BY <1>25, <1>l, <1>n, <1>w DEF AckBegin
  <2>2. (CountsTyped /\ loc' \in [Workers -> Locs]) => CountsTyped'
    BY <1>25, <1>w DEF CountsTyped, AckBegin
  <2>. QED
    BY ONLY <2>1, <2>2, CountsTyped
<1>26. ASSUME NEW w \in Workers, AckFinalize(w) PROVE CountsTyped'
  <2>1. loc' \in [Workers -> Locs]
    BY <1>26, <1>l, <1>n, <1>w DEF AckFinalize
  <2>2. (CountsTyped /\ loc' \in [Workers -> Locs]) => CountsTyped'
    BY <1>26, <1>w DEF CountsTyped, AckFinalize
  <2>. QED
    BY ONLY <2>1, <2>2, CountsTyped
<1>27. ASSUME NEW w \in Workers, AckActivate(w) PROVE CountsTyped'
  <2>1. loc' \in [Workers -> Locs]
    BY <1>27, <1>l, <1>n, <1>w DEF AckActivate, ActivateOnAck
  <2>2. (CountsTyped /\ loc' \in [Workers -> Locs]) => CountsTyped'
    BY <1>27, <1>w DEF CountsTyped, AckActivate, ActivateOnAck
  <2>. QED
    BY ONLY <2>1, <2>2, CountsTyped
<1>28. ASSUME NEW w \in Workers, StaleBegin(w) PROVE CountsTyped'
  <2>1. loc' \in [Workers -> Locs]
    <3>1. \A i \in Attempts : [NoLocals EXCEPT !.claim = claim[i]] \in Locs
      BY ONLY OperationAssumption, CountsTyped, ClaimsTyped, <1>n, <1>s DEF ClaimsTyped
    <3>. QED
      BY ONLY <1>28, <1>l, <1>n, <1>w, <3>1 DEF Move, Goto, Stop, StaleBegin, SetDelivery
  <2>2. (CountsTyped /\ loc' \in [Workers -> Locs]) => CountsTyped'
    BY <1>28, <1>w DEF CountsTyped, StaleBegin, SetDelivery
  <2>. QED
    BY ONLY <2>1, <2>2, CountsTyped
<1>29. ASSUME NEW w \in Workers, Claim(w) PROVE CountsTyped'
  <2>1. loc' \in [Workers -> Locs]
    BY <1>29, <1>l, <1>n, <1>w DEF Claim
  <2>2. (CountsTyped /\ loc' \in [Workers -> Locs]) => CountsTyped'
    BY <1>29, <1>w DEF CountsTyped, Claim
  <2>. QED
    BY ONLY <2>1, <2>2, CountsTyped
<1>30. ASSUME NEW w \in Workers, Recheck(w) PROVE CountsTyped'
  <2>1. loc' \in [Workers -> Locs]
    BY <1>30, <1>l, <1>n, <1>w DEF Recheck, SetDelivery
  <2>2. (CountsTyped /\ loc' \in [Workers -> Locs]) => CountsTyped'
    BY <1>30, <1>w DEF CountsTyped, Recheck, SetDelivery
  <2>. QED
    BY ONLY <2>1, <2>2, CountsTyped
<1>31. ASSUME NEW w \in Workers, Revoke(w) PROVE CountsTyped'
  <2>1. loc' \in [Workers -> Locs]
    BY <1>31, <1>l, <1>n, <1>w DEF Revoke, Cleaned, CleanupFails
  <2>2. (CountsTyped /\ loc' \in [Workers -> Locs]) => CountsTyped'
    BY <1>31, <1>w DEF CountsTyped, Revoke, Cleaned, CleanupFails
  <2>. QED
    BY ONLY <2>1, <2>2, CountsTyped
<1>32. ASSUME NEW w \in Workers, Shared(w) PROVE CountsTyped'
  <2>1. loc' \in [Workers -> Locs]
    <3>1. [NoLocals EXCEPT !.shared =
              /\ state # "FAILED"
              /\ \E i \in Attempts : status[i] \in {"pending", "acknowledged"}] \in Locs
      BY ONLY OperationAssumption, CountsTyped, ClaimsTyped, <1>n, <1>s
    <3>. QED
      BY ONLY <1>32, <1>l, <1>n, <1>w, <3>1 DEF Move, Goto, Stop, Shared
  <2>2. (CountsTyped /\ loc' \in [Workers -> Locs]) => CountsTyped'
    BY <1>32, <1>w DEF CountsTyped, Shared
  <2>. QED
    BY ONLY <2>1, <2>2, CountsTyped
<1>33. ASSUME NEW w \in Workers, Complete(w) PROVE CountsTyped'
  <2>1. loc' \in [Workers -> Locs]
    BY <1>33, <1>l, <1>n, <1>w DEF Complete, SetDelivery
  <2>2. (CountsTyped /\ loc' \in [Workers -> Locs]) => CountsTyped'
    BY <1>33, <1>w DEF CountsTyped, Complete, SetDelivery
  <2>. QED
    BY ONLY <2>1, <2>2, CountsTyped
<1>34. ASSUME NEW w \in Workers, Escalate(w) PROVE CountsTyped'
  <2>1. loc' \in [Workers -> Locs]
    BY <1>34, <1>l, <1>n, <1>w DEF Escalate, SetDelivery
  <2>2. (CountsTyped /\ loc' \in [Workers -> Locs]) => CountsTyped'
    BY <1>34, <1>w DEF CountsTyped, Escalate, SetDelivery
  <2>. QED
    BY ONLY <2>1, <2>2, CountsTyped
<1>35. ASSUME NEW w \in Workers, SweepCreating(w) PROVE CountsTyped'
  <2>1. loc' \in [Workers -> Locs]
    BY <1>35, <1>l, <1>n, <1>w DEF SweepCreating
  <2>2. (CountsTyped /\ loc' \in [Workers -> Locs]) => CountsTyped'
    BY <1>35, <1>w DEF CountsTyped, SweepCreating
  <2>. QED
    BY ONLY <2>1, <2>2, CountsTyped
<1>36. ASSUME NEW w \in Workers, SweepUnsettled(w) PROVE CountsTyped'
  <2>1. loc' \in [Workers -> Locs]
    BY <1>36, <1>l, <1>n, <1>w DEF SweepUnsettled
  <2>2. (CountsTyped /\ loc' \in [Workers -> Locs]) => CountsTyped'
    BY <1>36, <1>w DEF CountsTyped, SweepUnsettled
  <2>. QED
    BY ONLY <2>1, <2>2, CountsTyped
<1>37. ASSUME NEW w \in Workers, SweepDelivery(w) PROVE CountsTyped'
  <2>1. loc' \in [Workers -> Locs]
    <3>1. [NoLocals EXCEPT !.ref = attempts[current].ref] \in Locs
      BY ONLY OperationAssumption, CountsTyped, ClaimsTyped, <1>n, <1>r, <1>w
    <3>. QED
      BY ONLY <1>37, <1>l, <1>n, <1>w, <3>1 DEF Move, Goto, Stop, SweepDelivery
  <2>2. (CountsTyped /\ loc' \in [Workers -> Locs]) => CountsTyped'
    BY <1>37, <1>w DEF CountsTyped, SweepDelivery
  <2>. QED
    BY ONLY <2>1, <2>2, CountsTyped
<1>38. ASSUME NEW w \in Workers, SweepDelete(w) PROVE CountsTyped'
  <2>1. loc' \in [Workers -> Locs]
    BY <1>38, <1>l, <1>n, <1>w DEF SweepDelete, Cleaned, CleanupFails
  <2>2. (CountsTyped /\ loc' \in [Workers -> Locs]) => CountsTyped'
    BY <1>38, <1>w DEF CountsTyped, SweepDelete, Cleaned, CleanupFails
  <2>. QED
    BY ONLY <2>1, <2>2, CountsTyped
<1>39. ASSUME NEW w \in Workers, SweepVerify(w) PROVE CountsTyped'
  <2>1. loc' \in [Workers -> Locs]
    <3>1. [loc[w] EXCEPT !.path = "sweep"] \in Locs
      BY ONLY OperationAssumption, CountsTyped, ClaimsTyped, <1>r, <1>w
    <3>. QED
      BY ONLY <1>39, <1>l, <1>n, <1>w, <3>1 DEF Move, Goto, Stop, SweepVerify
  <2>2. (CountsTyped /\ loc' \in [Workers -> Locs]) => CountsTyped'
    BY <1>39, <1>w DEF CountsTyped, SweepVerify
  <2>. QED
    BY ONLY <2>1, <2>2, CountsTyped
<1>40. ASSUME NEW w \in Workers, Die(w) PROVE CountsTyped'
  <2>1. loc' \in [Workers -> Locs]
    BY <1>40, <1>l, <1>n, <1>w DEF Die
  <2>2. (CountsTyped /\ loc' \in [Workers -> Locs]) => CountsTyped'
    BY <1>40, <1>w DEF CountsTyped, Die
  <2>. QED
    BY ONLY <2>1, <2>2, CountsTyped
<1>41. ASSUME NEW i \in Attempts, Lapse(i) PROVE CountsTyped'
  BY <1>41 DEF Lapse, CountsTyped
<1>42. CASE Expire
  BY <1>42 DEF Expire, CountsTyped
<1>43. CASE UNCHANGED vars
  BY <1>43 DEF vars, CountsTyped
<1>. QED
  BY ONLY [Next]_vars, <1>1, <1>2, <1>3, <1>4, <1>5, <1>6, <1>7, <1>8, <1>9, <1>10, <1>11, <1>12, <1>13, <1>14, <1>15, <1>16, <1>17, <1>18, <1>19, <1>20, <1>21, <1>22, <1>23, <1>24, <1>25, <1>26, <1>27, <1>28, <1>29, <1>30, <1>31, <1>32, <1>33, <1>34, <1>35, <1>36, <1>37, <1>38, <1>39, <1>40, <1>41, <1>42, <1>43
  DEF Next, RequestStep, CleanerStep, SweeperStep, Reconcile, Issue, Acknowledge, Workers

\* Every step keeps the claims: a row gets one only from the run that claims it,
\* and loses it with the status.
LEMMA ClaimsStep ==
    ASSUME Typed, FreshAttempt, ClaimsTyped, [Next]_vars
    PROVE  ClaimsTyped'
<1>0. /\ status \in [Attempts -> Statuses] /\ claim \in [Attempts -> SUBSET Scheduled]
      /\ \A i \in Attempts : claim[i] # {} <=> status[i] = "claimed"
  BY DEF Typed, ClaimsTyped
<1>1. CASE UNCHANGED deliveries
  BY <1>1 DEF ClaimsTyped, deliveries
<1>2. ASSUME NEW i, NEW new, new # "claimed", SetDelivery(i, new)
      PROVE  ClaimsTyped'
  BY <1>0, <1>2 DEF SetDelivery, ClaimsTyped
<1>3. ASSUME NEW i, NEW new, new # "claimed", i \in Attempts => status[i] # "claimed",
             status' = [status EXCEPT ![i] = new], UNCHANGED claim
      PROVE  ClaimsTyped'
  BY <1>0, <1>3 DEF ClaimsTyped
<1>4. ASSUME NEW w \in Workers, ResumeExpire(w) PROVE ClaimsTyped'
  <2>1. CASE on[w] \in Attempts /\ status[on[w]] = "pending"
    BY <1>3, <1>4, <2>1 DEF ResumeExpire
  <2>2. CASE ~(on[w] \in Attempts /\ status[on[w]] = "pending")
    BY <1>0, <1>4, <2>2 DEF ResumeExpire, ClaimsTyped
  <2>. QED
    BY ONLY <2>1, <2>2
<1>5. ASSUME NEW w \in Workers, Deliver(w) PROVE ClaimsTyped'
  <2>1. status[on[w]] = "none"
    BY <1>5 DEF Deliver, At, FreshAttempt, Undelivered, Creating
  <2>. QED
    BY <1>3, <1>5, <2>1 DEF Deliver
<1>6. ASSUME NEW w \in Workers, AckFinalize(w) PROVE ClaimsTyped'
  <2>1. CASE status[on[w]] = "pending" /\ status' = [status EXCEPT ![on[w]] = "acknowledged"]
             /\ UNCHANGED claim
    BY ONLY <1>3, <2>1
  <2>. QED
    BY ONLY <1>1, <1>6, <2>1 DEF AckFinalize, deliveries, ledger
<1>7. ASSUME NEW w \in Scheduled, Claim(w) PROVE ClaimsTyped'
  <2>1. CASE /\ status' = [status EXCEPT ![on[w]] = "claimed"]
             /\ claim' = [claim EXCEPT ![on[w]] = {w}]
    BY <1>0, <2>1 DEF ClaimsTyped
  <2>. QED
    BY ONLY <1>1, <1>7, <2>1 DEF Claim, deliveries
<1>8. ASSUME NEW w \in Workers, StaleBegin(w) PROVE ClaimsTyped'
  BY ONLY <1>1, <1>2, <1>8 DEF StaleBegin
<1>9. ASSUME NEW w \in Workers, Recheck(w) PROVE ClaimsTyped'
  BY ONLY <1>1, <1>2, <1>9 DEF Recheck
<1>10. ASSUME NEW w \in Workers, Complete(w) \/ Escalate(w) PROVE ClaimsTyped'
  BY ONLY <1>1, <1>2, <1>10 DEF Complete, Escalate, ledger
<1>11. ASSUME NEW w \in Workers,
              \/ ResumeBegin(w) \/ ResumeLatest(w) \/ ResumeUnknown(w) \/ Reconcile(w)
              \/ Acknowledge(w) /\ ~AckFinalize(w)
              \/ Issue(w) /\ ~Deliver(w)
              \/ Revoke(w) \/ Shared(w) \/ SweeperStep(w) \/ Die(w)
       PROVE  UNCHANGED deliveries
  BY <1>11
  DEF ResumeBegin, ResumeLatest, ResumeUnknown, Reconcile, Target, Look, Find, LookupFails,
      Delete, DeleteFails, Verify, Clean, Ready, Issue, Start, Reserve, Refuse, Reclaim, Rebind,
      Create, Record, Pend, Settle, Indeterminate, Acknowledge, AckBegin, AckActivate, Revoke,
      Shared, SweeperStep, SweepCreating, SweepUnsettled, SweepDelivery, SweepDelete,
      SweepVerify, Die, rows, ledger
<1>12. ASSUME NEW i \in Attempts, Lapse(i) PROVE UNCHANGED deliveries
  BY <1>12 DEF Lapse, rows, ledger
<1>13. CASE Expire \/ UNCHANGED vars
  BY <1>1, <1>13 DEF Expire, vars, ledger, deliveries
<1>. QED
  BY ONLY [Next]_vars, <1>1, <1>4, <1>5, <1>6, <1>7, <1>8, <1>9, <1>10, <1>11, <1>12, <1>13
  DEF Next, RequestStep, CleanerStep, Issue, Acknowledge, Workers

\* The inductive invariant holds, for any number of requests, scheduled runs,
\* attempts and faults.
THEOREM OperationInvariance == Spec => [](IInv /\ KInv /\ BInv)
<1>1. Init => IInv /\ KInv
  BY OperationAssumption DEF Init, OperationAssumption, IInv, Typed, OneHandlerIssues,
     IssuesCurrent, FreshAttempt, NamesDelivery, ActiveIsAcknowledged,
     AcknowledgedOwnsEntitlement, Workers, Attempts, None, Pcs, Creating, Undelivered, Statuses,
     States, Unsettled, KInv, KeysTyped, KeysOwned, Open, NoLocals
<1>2. Init => BInv
  <2>1. NoLocals \in Locs
    BY DEF NoLocals, Locs, None
  <2>. QED
    BY <2>1, OperationAssumption
    DEF Init, OperationAssumption, BInv, CountsTyped, ClaimsTyped, Attempts
<1>3. IInv /\ KInv /\ [Next]_vars => IInv' /\ KInv'
  BY StepFacts DEF Kept
<1>4. IInv /\ KInv /\ BInv /\ [Next]_vars => BInv'
  BY CountsStep, ClaimsStep DEF IInv, KInv, BInv
<1>. QED
  BY <1>1, <1>2, <1>3, <1>4, PTL DEF Spec

\* The rows, the keys, the counters and the handlers hold values of their kind, and
\* a delivery names a claim exactly while a scheduled run has it claimed.
THEOREM OperationTypes == Spec => []TypeOK
<1>1. IInv /\ KInv /\ BInv => TypeOK
  BY DEF IInv, KInv, BInv, Typed, Statuses, KeysTyped, CountsTyped, ClaimsTyped, TypeOK
<1>. QED
  BY <1>1, OperationInvariance, PTL

\* At most one handler takes an attempt from its claim to its delivery.
THEOREM OneIssuer == Spec => []OneHandlerIssues
<1>1. IInv => OneHandlerIssues
  BY DEF IInv
<1>. QED
  BY <1>1, OperationInvariance, PTL

\* An operation is ACTIVE only when a delivery of it was acknowledged.
THEOREM ActiveByAcknowledgement == Spec => []ActiveIsAcknowledged
<1>1. IInv => ActiveIsAcknowledged
  BY DEF IInv
<1>. QED
  BY <1>1, OperationInvariance, PTL

\* The entitlement stands for the delivery that was acknowledged.
THEOREM AcknowledgedIsEntitled == Spec => []AcknowledgedOwnsEntitlement
<1>1. IInv => AcknowledgedOwnsEntitlement
  BY DEF IInv
<1>. QED
  BY <1>1, OperationInvariance, PTL

\* At most one live key belongs to a delivery that is open or confirmed.
THEOREM OneKey == Spec => []OneIssuedKey
<1>1. ASSUME KInv PROVE OneIssuedKey
  <2>. DEFINE Issued == {i \in Attempts : keys[i] = "live" /\ status[i] \in Open}
  <2>1. \A i, j \in Issued : i = j
    BY <1>1 DEF KInv, KeysOwned
  <2>2. CASE Issued = {}
    BY <2>2, FS_EmptySet DEF OneIssuedKey, Open
  <2>3. CASE Issued # {}
    <3>1. PICK i : Issued = {i}
      BY <2>1, <2>3
    <3>2. Cardinality(Issued) = 1
      BY <3>1, FS_Singleton
    <3>. QED
      BY <3>2 DEF OneIssuedKey, Open
  <2>. QED
    BY <2>2, <2>3
<1>. QED
  BY <1>1, OperationInvariance, PTL

\* No cleanup, retry or later delivery takes an acknowledgement back.
THEOREM AcknowledgementFinal == Spec => AcknowledgementIsFinal
<1>1. IInv /\ KInv /\ [Next]_vars =>
          [\A i \in Attempts : status[i] = "acknowledged" => status'[i] = "acknowledged"]_vars
  BY StepFacts DEF Kept, AcknowledgedStays
<1>. QED
  BY <1>1, OperationInvariance, PTL DEF Spec, AcknowledgementIsFinal

\* Nothing but an acknowledged delivery brings a failed operation back.
THEOREM FailureFinal == Spec => FailedOnlyActivates
<1>1. IInv /\ KInv /\ [Next]_vars => [state = "FAILED" => state' \in {"FAILED", "ACTIVE"}]_vars
  BY StepFacts DEF Kept, FailedStays
<1>. QED
  BY <1>1, OperationInvariance, PTL DEF Spec, FailedOnlyActivates
=============================================================================
