-------------------------- MODULE ManagedOperation --------------------------
(***************************************************************************)
(* One managed key operation of the broker: the attempts to create a child *)
(* key at the provider, the delivery of that key to the client and its     *)
(* acknowledgement, the resumption of an attempt whose outcome is not      *)
(* known, and the scheduled worker that reclaims what was abandoned        *)
(* (broker/src/managed-operation.ts, managed-operation-resume.ts,          *)
(* managed-key-delivery.ts, scheduled.ts, discord-managed-issue.ts).       *)
(*                                                                         *)
(* Every D1 statement or batch is atomic; a request handler or a scheduled *)
(* run is a worker that can die between two of them. A statement that is   *)
(* conditional on what was just read is one step with that read. The       *)
(* behaviour starts where the first issue request left the operation.      *)
(***************************************************************************)
EXTENDS Integers, FiniteSets

CONSTANTS
    Requests,       \* handlers of client requests (resume, acknowledgement)
    Scheduled,      \* scheduled runs; each reclaims stale deliveries and stale operations
    MaxRequests,    \* requests of the client (bound)
    MaxAttempts,    \* attempts of the operation (bound)
    MaxFaults,      \* provider failures, refusals and deaths (bound)
    MaxCleanups     \* failed cleanups before the operation fails (5 in the code)

Workers == Requests \cup Scheduled
Attempts == 1..MaxAttempts
None == 0           \* a NULL managed_credential_ref; attempt a's key is a

ASSUME OperationAssumption ==
    /\ MaxAttempts \in Nat \ {0} /\ MaxFaults \in Nat /\ MaxCleanups \in Nat \ {0}
    /\ MaxRequests \in Nat
    /\ Requests \cap Scheduled = {}

VARIABLES
    state,        \* managed_operations: state,
    current,      \* current_attempt_index and
    cleanups,     \* cleanup_attempts
    attempts,     \* managed_operation_attempts, by attempt_index
    keys,         \* the provider's child keys, by the attempt that names them
    status,       \* managed_key_deliveries, by attempt_index: status, with "claimed"
    claim,        \* for an expired row under cleanup, and the run that claims it
    lapsed,       \* deliveries whose expires_at has passed
    received,     \* deliveries answered to the client
    entitlement,  \* the openrouter_entitlements row of the installation
    identity,     \* the status of the discord_identities row
    pc,           \* where each handler is
    on,           \* the attempt it works on
    loc,          \* what else it has read
    requests,     \* requests the client has sent
    faults

vars == <<state, current, cleanups, attempts, keys, status, claim, lapsed, received, entitlement, identity, pc, on, loc,
          requests, faults>>
op == <<state, current, cleanups>>
deliveries == <<status, claim>>
ledger == <<deliveries, entitlement, identity>>
client == <<lapsed, received, requests>>
rows == <<op, attempts, ledger>>
handlers == <<pc, on, loc>>

Unsettled == {"CREATE_UNKNOWN", "RECONCILING", "CLEANUP_REQUIRED", "CLEAN"}
States == Unsettled \cup {"CREATING", "RETRY_READY", "DELIVERY_PENDING", "ACTIVE", "FAILED"}
NoLocals == [ref |-> None, path |-> "none", then |-> "stop", shared |-> FALSE, claim |-> {},
             count |-> 0]

-----------------------------------------------------------------------------
(* Small steps *)

\* a mutant of Transition: any unfinished operation moves
TransitionUnfinished(from, to) ==
    /\ state' = IF state # "ACTIVE" THEN to ELSE state
    /\ UNCHANGED <<current, cleanups>>

\* transitionManagedOperation: an UPDATE guarded by the states it may leave
Transition(from, to) ==
    /\ state' = IF state \in from THEN to ELSE state
    /\ UNCHANGED <<current, cleanups>>

SetDelivery(i, new) ==
    /\ status' = [status EXCEPT ![i] = new]
    /\ claim' = [claim EXCEPT ![i] = {}]

At(w, label) == pc[w] = label
Move(w, label, a, locals) ==
    /\ pc' = [pc EXCEPT ![w] = label]
    /\ on' = [on EXCEPT ![w] = a]
    /\ loc' = [loc EXCEPT ![w] = locals]
Goto(w, label) == Move(w, label, on[w], loc[w])
Stop(w) == Move(w, "idle", None, NoLocals)

\* the caller of reconcileUnknownAttempt goes on from the row it reads back
Return(w) ==
    IF loc[w].then = "start" /\ state' = "RETRY_READY"
    THEN Move(w, "start", current', NoLocals)
    ELSE Stop(w)

Request == requests < MaxRequests /\ requests' = requests + 1
Fault == faults < MaxFaults /\ faults' = faults + 1

\* the provider deletes a key, or answers that it has none of that hash
Deleted(k) == [keys EXCEPT ![k] = IF @ = "live" THEN "deleted" ELSE @]

\* cleanupManagedChildKey disables and deletes; a failed step leaves either
Cleaned(k) == keys' = Deleted(k) /\ UNCHANGED faults
CleanupFails(k) == Fault /\ keys' \in {keys, Deleted(k)}

Made(i) == status[i] # "none"
Latest(i) == Made(i) /\ \A j \in Attempts : Made(j) => j <= i
Live(i) == status[i] = "pending" /\ ~lapsed[i]
HasLiveDelivery == \E i \in Attempts : Latest(i) /\ Live(i)
Finalized(i) == entitlement = [status |-> "active", ref |-> i] /\ identity = "active"

-----------------------------------------------------------------------------
(* Where the first issue request leaves the operation: delivered, or dead   *)
(* after its attempt was claimed, before or after the key was created       *)
Init ==
    /\ state \in {"CREATING", "DELIVERY_PENDING"} /\ current = 1 /\ cleanups = 0
    /\ keys \in {[i \in Attempts |-> IF i = 1 THEN k ELSE "none"] : k \in {"none", "live"}}
    /\ attempts \in {[i \in Attempts |->
            IF i = 1 THEN a ELSE [outcome |-> "none", ref |-> None]] :
                a \in {[outcome |-> "unknown", ref |-> None], [outcome |-> "created", ref |-> 1]}}
    /\ attempts[1].ref = 1 => keys[1] = "live"
    /\ state = "DELIVERY_PENDING" => attempts[1].ref = 1
    /\ status = [i \in Attempts |->
            IF i = 1 /\ state = "DELIVERY_PENDING" THEN "pending" ELSE "none"]
    /\ claim = [i \in Attempts |-> {}]
    /\ lapsed = [i \in Attempts |-> FALSE]
    /\ received = {i \in Attempts : status[i] = "pending"}
    /\ entitlement = IF state = "DELIVERY_PENDING"
                     THEN [status |-> "delivery_pending", ref |-> 1]
                     ELSE [status |-> "issuing", ref |-> None]
    /\ identity = "issuing"
    /\ pc = [w \in Workers |-> "idle"]
    /\ on = [w \in Workers |-> None]
    /\ loc = [w \in Workers |-> NoLocals]
    /\ requests = 0 /\ faults = 0

-----------------------------------------------------------------------------
(* POST managed-operation/resume *)

ResumeBegin(w) ==
    /\ At(w, "idle") /\ Request
    /\ \/ /\ state \in Unsettled
          /\ Move(w, "target", None, [NoLocals EXCEPT !.then = "start"])
       \/ /\ state = "DELIVERY_PENDING"
          /\ Move(w, "latest", None, [NoLocals EXCEPT !.then = "start"])
       \/ /\ state = "RETRY_READY"
          /\ Move(w, "start", current, NoLocals)
    /\ UNCHANGED <<rows, keys, lapsed, received, faults>>

\* a mutant of ActivateOnAck: the delivery's own status is not looked at
ActivateUnchecked(i) == Transition({"DELIVERY_PENDING", "FAILED"}, "ACTIVE")

\* markOperationActiveOnAck
ActivateOnAck(i) ==
    IF status[i] = "acknowledged"
    THEN Transition({"DELIVERY_PENDING", "FAILED"}, "ACTIVE")
    ELSE UNCHANGED op

ResumeLatest(w) ==
    /\ At(w, "latest")
    /\ \/ \E i \in Attempts :
             /\ Latest(i) /\ (status[i] = "acknowledged" \/ Live(i))
             /\ ActivateOnAck(i)
             /\ Stop(w)
       \/ \E i \in Attempts :
             /\ Latest(i) /\ status[i] = "pending" /\ lapsed[i]
             /\ Move(w, "expire", i, loc[w])
             /\ UNCHANGED op
       \/ /\ \A i \in Attempts : Latest(i) =>
                status[i] \notin {"acknowledged", "pending"}
          /\ Goto(w, "unknown") /\ UNCHANGED op
    /\ UNCHANGED <<attempts, ledger, keys, client, faults>>

\* expireOperationDelivery: whether a row was changed is not looked at
ResumeExpire(w) ==
    /\ At(w, "expire")
    /\ status' = [status EXCEPT ![on[w]] = IF @ = "pending" THEN "expired" ELSE @]
    /\ UNCHANGED claim
    /\ Goto(w, "unknown")
    /\ UNCHANGED <<op, attempts, entitlement, identity, keys, client, faults>>

ResumeUnknown(w) ==
    /\ At(w, "unknown")
    /\ Transition({"DELIVERY_PENDING"}, "CREATE_UNKNOWN")
    /\ IF state' = "CREATE_UNKNOWN" THEN Goto(w, "target") ELSE Return(w)
    /\ UNCHANGED <<attempts, ledger, keys, client, faults>>

-----------------------------------------------------------------------------
(* reconcileUnknownAttempt and reconcileAttemptTarget *)

Target(w) ==
    /\ At(w, "target")
    /\ Move(w, "look", current, [loc[w] EXCEPT !.ref = attempts[current].ref,
                                               !.count = cleanups])
    /\ UNCHANGED <<rows, keys, client, faults>>

Look(w) ==
    /\ At(w, "look")
    /\ Transition(Unsettled, "RECONCILING")
    /\ Goto(w, "find")
    /\ UNCHANGED <<attempts, ledger, keys, client, faults>>

\* the recorded credential is preferred to the one found by name
CleanupRef(recorded, found) == IF recorded # None THEN recorded ELSE found

Find(w) ==
    LET a == on[w]
        recorded == loc[w].ref
        found == keys[a] = "live"
    IN /\ At(w, "find")
       /\ IF found \/ recorded # None
          THEN /\ Transition(Unsettled \ {"CLEAN"}, "CLEANUP_REQUIRED")
               /\ Move(w, "delete", a, [loc[w] EXCEPT !.ref = CleanupRef(recorded, a),
                                               !.path = IF found THEN "found" ELSE "missing"])
          ELSE /\ Move(w, "clean", a, [loc[w] EXCEPT !.path = "missing"])
               /\ UNCHANGED op
       /\ UNCHANGED <<attempts, ledger, keys, client, faults>>

LookupFails(w) ==
    /\ pc[w] \in {"find", "verify"} /\ Fault /\ Stop(w)
    /\ UNCHANGED <<rows, keys, client>>

Delete(w) ==
    /\ At(w, "delete")
    /\ Cleaned(loc[w].ref)
    /\ Move(w, "verify", on[w], [loc[w] EXCEPT !.ref = None])
    /\ UNCHANGED <<rows, client>>

\* cleanup_attempts counts on from the row read at the start; no state is
\* excepted when it reaches its limit
DeleteFails(w) ==
    LET next == loc[w].count + 1 IN
    /\ At(w, "delete") /\ CleanupFails(loc[w].ref)
    /\ IF loc[w].path = "found"
       THEN /\ cleanups' = next
            /\ state' = IF next >= MaxCleanups THEN "FAILED" ELSE state
            /\ UNCHANGED current
       ELSE UNCHANGED op
    /\ Return(w)
    /\ UNCHANGED <<attempts, ledger, client>>

Verify(w) ==
    /\ At(w, "verify")
    /\ UNCHANGED op
    /\ IF keys[on[w]] = "live" THEN Return(w) ELSE Goto(w, "clean")
    /\ UNCHANGED <<attempts, ledger, keys, client, faults>>

CleanFrom(path) ==
    CASE path = "missing" -> Unsettled
      [] path = "found"   -> {"CLEANUP_REQUIRED", "RECONCILING"}
      [] OTHER            -> {"DELIVERY_PENDING"}

\* markAttemptCleaned, then CLEAN
Clean(w) ==
    /\ At(w, "clean")
    /\ attempts' = [attempts EXCEPT ![on[w]].outcome = "cleaned"]
    /\ Transition(CleanFrom(loc[w].path), "CLEAN")
    /\ Goto(w, "ready")
    /\ UNCHANGED <<ledger, keys, client, faults>>

Ready(w) ==
    /\ At(w, "ready")
    /\ Transition({"CLEAN"}, "RETRY_READY")
    /\ Return(w)
    /\ UNCHANGED <<attempts, ledger, keys, client, faults>>

Reconcile(w) ==
    \/ Target(w) \/ Look(w) \/ Find(w) \/ LookupFails(w) \/ Delete(w) \/ DeleteFails(w)
    \/ Verify(w) \/ Clean(w) \/ Ready(w)

-----------------------------------------------------------------------------
(* A fresh attempt: claim, reservation, creation, delivery *)

\* a mutant of Start: the row is not compared with the one that was read
StartUnclaimed(w) ==
    /\ At(w, "start") /\ current < MaxAttempts
    /\ state' = "CREATING" /\ current' = current + 1 /\ UNCHANGED cleanups
    /\ attempts' = [attempts EXCEPT ![current + 1] = [outcome |-> "unknown", ref |-> None]]
    /\ Move(w, "reserve", current + 1, [NoLocals EXCEPT !.shared = HasLiveDelivery])
    /\ UNCHANGED <<ledger, keys, client, faults>>

\* startManagedOperationAttempt: one request wins the attempt it has read
Start(w) ==
    /\ At(w, "start")
    /\ \/ /\ state = "RETRY_READY" /\ current = on[w]
          /\ current < MaxAttempts
          /\ state' = "CREATING" /\ current' = current + 1 /\ UNCHANGED cleanups
          /\ attempts' = [attempts EXCEPT ![current + 1] = [outcome |-> "unknown", ref |-> None]]
          /\ Move(w, "reserve", current + 1, [NoLocals EXCEPT !.shared = HasLiveDelivery])
       \/ /\ state # "RETRY_READY" \/ current # on[w]
             \/ current = MaxAttempts
          /\ Stop(w) /\ UNCHANGED <<op, attempts>>
    /\ UNCHANGED <<ledger, keys, client, faults>>

MarkUnknown(a) ==
    /\ attempts' = [attempts EXCEPT ![a].outcome = "unknown"]
    /\ Transition({"CREATING"}, "CREATE_UNKNOWN")

\* releaseUnstartedOperationAttempt
ReleaseUnstarted(a) ==
    IF attempts[a] = [outcome |-> "unknown", ref |-> None]
    THEN /\ attempts' = [attempts EXCEPT ![a].outcome = "cleaned"]
         /\ Transition({"CREATING", "CREATE_UNKNOWN"}, "RETRY_READY")
    ELSE UNCHANGED <<op, attempts>>

\* failManagedOperationTerminal after markAttemptUnknown: no state is excepted
FailTerminal(a) ==
    /\ attempts' = [attempts EXCEPT ![a].outcome = "unknown"]
    /\ state' = "FAILED" /\ UNCHANGED <<current, cleanups>>

\* ensureDiscordRetryReservation, up to the cleanup of the key it replaces
Reserve(w) ==
    LET a == on[w] IN
    /\ At(w, "reserve")
    /\ \/ /\ entitlement.status = "none" /\ identity = "none"
          /\ entitlement' = [status |-> "issuing", ref |-> None]
          /\ identity' = "issuing"
          /\ Goto(w, "create") /\ UNCHANGED <<op, attempts>>
       \/ /\ entitlement.status = "active" \/ (entitlement.status = "none" /\ identity # "none")
          /\ FailTerminal(a)
          /\ Stop(w) /\ UNCHANGED <<entitlement, identity>>
       \/ /\ entitlement.status = "delivery_pending" /\ loc[w].shared
          /\ ReleaseUnstarted(a)
          /\ Stop(w) /\ UNCHANGED <<entitlement, identity>>
       \/ /\ entitlement.status \notin {"none", "active"}
          /\ ~(entitlement.status = "delivery_pending" /\ loc[w].shared)
          /\ IF entitlement.ref = None
             THEN Goto(w, "rebind") /\ UNCHANGED attempts
             ELSE /\ attempts' = [attempts EXCEPT ![a] =
                                     [outcome |-> "created", ref |-> entitlement.ref]]
                  /\ Goto(w, "reclaim")
          /\ UNCHANGED <<op, entitlement, identity>>
    /\ UNCHANGED <<deliveries, keys, client, faults>>

\* the issuance brake refuses the attempt
Refuse(w) ==
    /\ At(w, "reserve") /\ Fault
    /\ ReleaseUnstarted(on[w])
    /\ Stop(w)
    /\ UNCHANGED <<ledger, keys, client>>

\* the key it has just recorded for its attempt is deleted
Reclaim(w) ==
    LET old == attempts[on[w]].ref
    IN /\ At(w, "reclaim")
       /\ \/ Cleaned(old) /\ Goto(w, "rebind") /\ UNCHANGED <<op, attempts>>
          \/ CleanupFails(old) /\ MarkUnknown(on[w]) /\ Stop(w)
       /\ UNCHANGED <<ledger, client>>

\* global_cap_reached: markAttemptUnknown, then releaseUnstartedOperationAttempt
CapReached(a) ==
    IF attempts[a].ref = None
    THEN /\ attempts' = [attempts EXCEPT ![a].outcome = "cleaned"]
         /\ Transition({"CREATING", "CREATE_UNKNOWN"}, "RETRY_READY")
    ELSE MarkUnknown(a)

\* a mutant of Rebind: the entitlement is rebound whatever became of it
RebindActive(w) ==
    /\ At(w, "rebind")
    /\ entitlement' = [status |-> "issuing", ref |-> None]
    /\ IF identity = "active"
       THEN FailTerminal(on[w]) /\ Stop(w) /\ UNCHANGED identity
       ELSE identity' = "issuing" /\ Goto(w, "create") /\ UNCHANGED <<op, attempts>>
    /\ UNCHANGED <<deliveries, keys, client, faults>>

\* the UPDATE of the entitlement may change no row; the identity is then read
Rebind(w) ==
    /\ At(w, "rebind")
    /\ entitlement' = IF entitlement.status \in {"issuing", "delivery_pending", "cleanup_required"}
                      THEN [status |-> "issuing", ref |-> None] ELSE entitlement
    /\ \/ /\ identity # "active"
          /\ identity' = "issuing"
          /\ \/ Goto(w, "create") /\ UNCHANGED <<op, attempts, faults>>
             \/ CapReached(on[w]) /\ Stop(w) /\ Fault
       \/ /\ identity = "active"
          /\ FailTerminal(on[w])
          /\ Stop(w) /\ UNCHANGED <<identity, faults>>
    /\ UNCHANGED <<deliveries, keys, client>>

\* createManagedChildKey: the answer may be lost after the key exists
Create(w) ==
    LET a == on[w] IN
    /\ At(w, "create")
    /\ \/ /\ keys' = [keys EXCEPT ![a] = "live"]
          /\ \/ Goto(w, "record") /\ UNCHANGED faults
             \/ Goto(w, "indeterminate") /\ Fault
          /\ UNCHANGED <<op, attempts>>
       \/ /\ Fault
          /\ Goto(w, "indeterminate") /\ UNCHANGED <<op, attempts, keys>>
       \/ /\ Fault
          /\ FailTerminal(a)
          /\ Stop(w) /\ UNCHANGED keys
    /\ UNCHANGED <<ledger, client>>

\* recordAttemptCredential, then the guardrail, which may be refused
Record(w) ==
    LET a == on[w] IN
    /\ At(w, "record")
    /\ attempts' = [attempts EXCEPT ![a] = [outcome |-> "created", ref |-> a]]
    /\ \/ Goto(w, "pend") /\ UNCHANGED faults
       \/ Goto(w, "indeterminate") /\ Fault
    /\ UNCHANGED <<op, ledger, keys, client>>

\* markDiscordRetryDeliveryPending
Pend(w) ==
    /\ At(w, "pend")
    /\ IF entitlement = [status |-> "issuing", ref |-> None]
       THEN /\ entitlement' = [status |-> "delivery_pending", ref |-> on[w]]
            /\ Goto(w, "deliver")
       ELSE Goto(w, "indeterminate") /\ UNCHANGED entitlement
    /\ UNCHANGED <<op, attempts, deliveries, identity, keys, client, faults>>

Deliver(w) ==
    /\ At(w, "deliver")
    /\ status' = [status EXCEPT ![on[w]] = "pending"] /\ UNCHANGED claim
    /\ Goto(w, "settle")
    /\ UNCHANGED <<op, attempts, entitlement, identity, keys, client, faults>>

\* transitionOperationToPostCreateState
Settle(w) ==
    /\ At(w, "settle")
    /\ Transition({"CREATING"}, "DELIVERY_PENDING")
    /\ IF state' = "DELIVERY_PENDING"
       THEN Stop(w) /\ received' = received \cup {on[w]}
       ELSE Goto(w, "target") /\ UNCHANGED received
    /\ UNCHANGED <<attempts, ledger, keys, lapsed, requests, faults>>

\* the catch block: markAttemptUnknown and markDiscordIndeterminateChildKeyCreation
Indeterminate(w) ==
    /\ At(w, "indeterminate")
    /\ MarkUnknown(on[w])
    /\ entitlement' = IF entitlement = [status |-> "issuing", ref |-> None]
                      THEN [entitlement EXCEPT !.status = "cleanup_required"] ELSE entitlement
    /\ identity' = IF identity = "issuing" THEN "cleanup_required" ELSE identity
    /\ Stop(w)
    /\ UNCHANGED <<deliveries, keys, client, faults>>

Issue(w) ==
    \/ Start(w) \/ Reserve(w) \/ Refuse(w) \/ Reclaim(w) \/ Rebind(w) \/ Create(w)
    \/ Record(w) \/ Pend(w) \/ Deliver(w) \/ Settle(w) \/ Indeterminate(w)

-----------------------------------------------------------------------------
(* POST managed-key-delivery/ack, for a delivery the client received *)

AckBegin(w) ==
    /\ At(w, "idle") /\ Request
    /\ \E i \in received :
          /\ Live(i) \/ status[i] = "acknowledged"
          /\ Move(w, "finalize", i, NoLocals)
    /\ UNCHANGED <<rows, keys, lapsed, received, faults>>

\* finalizeDiscordManagedKeyDeliveryAck: one batch, each statement guarded
AckFinalize(w) ==
    LET i == on[w]
        pending == status[i] = "pending"
    IN /\ At(w, "finalize")
       /\ IF entitlement.ref = i /\ entitlement.status \in {"delivery_pending", "active"}
          THEN /\ entitlement' = IF pending THEN [entitlement EXCEPT !.status = "active"]
                                            ELSE entitlement
               /\ identity' = IF pending /\ identity = "issuing" THEN "active" ELSE identity
               /\ status' = IF pending /\ identity' = "active"
                            THEN [status EXCEPT ![i] = "acknowledged"] ELSE status
               /\ UNCHANGED claim
               /\ Goto(w, "activate")
          ELSE Stop(w) /\ UNCHANGED ledger
       /\ UNCHANGED <<op, attempts, keys, client, faults>>

AckActivate(w) ==
    /\ At(w, "activate")
    /\ ActivateOnAck(on[w])
    /\ Stop(w)
    /\ UNCHANGED <<attempts, ledger, keys, client, faults>>

Acknowledge(w) == AckBegin(w) \/ AckFinalize(w) \/ AckActivate(w)

-----------------------------------------------------------------------------
(* reconcileStaleManagedKeyDeliveries *)

Own(w, i) == status[i] = "claimed" /\ claim[i] = {w}

\* listStalePendingManagedKeyDeliveries, and the repair of a finalized one
StaleBegin(w) ==
    /\ At(w, "idle")
    /\ \E i \in Attempts :
          /\ \/ status[i] = "pending" /\ lapsed[i]
             \/ status[i] = "claimed"
          /\ IF Finalized(i)
             THEN /\ SetDelivery(i, "acknowledged")
                  /\ UNCHANGED handlers
             ELSE /\ Move(w, "claim", i, [NoLocals EXCEPT !.claim = claim[i]])
                  /\ UNCHANGED deliveries
    /\ UNCHANGED <<op, attempts, entitlement, identity, keys, client, faults>>

\* a mutant of Claimable: the status is that of the row the run has listed
ClaimableAsListed(w, i) ==
    loc[w].claim = {} \/ (status[i] = "claimed" /\ claim[i] = loc[w].claim)

\* claimStaleManagedKeyDeliveryCleanup: an active owner, or a newer claim, wins
Claimable(w, i) ==
    IF loc[w].claim = {}
    THEN status[i] = "pending" /\ entitlement # [status |-> "active", ref |-> i]
    ELSE status[i] = "claimed" /\ claim[i] = loc[w].claim

Claim(w) ==
    LET i == on[w] IN
    /\ At(w, "claim")
    /\ IF Claimable(w, i)
       THEN /\ status' = [status EXCEPT ![i] = "claimed"]
            /\ claim' = [claim EXCEPT ![i] = {w}]
            /\ Move(w, "recheck", i, NoLocals)
       ELSE Stop(w) /\ UNCHANGED deliveries
    /\ UNCHANGED <<op, attempts, entitlement, identity, keys, client, faults>>

Recheck(w) ==
    LET i == on[w] IN
    /\ At(w, "recheck")
    /\ IF Finalized(i)
       THEN /\ IF Own(w, i) THEN SetDelivery(i, "acknowledged") ELSE UNCHANGED deliveries
            /\ Stop(w)
       ELSE Goto(w, "revoke") /\ UNCHANGED deliveries
    /\ UNCHANGED <<op, attempts, entitlement, identity, keys, client, faults>>

Revoke(w) ==
    /\ At(w, "revoke")
    /\ \/ Cleaned(on[w]) /\ Goto(w, "shared")
       \/ CleanupFails(on[w]) /\ Goto(w, "escalate")
    /\ UNCHANGED <<rows, client>>

\* hasOtherLiveOperation, whose row has no operation to exclude
Shared(w) ==
    /\ At(w, "shared")
    /\ Move(w, "complete", on[w], [NoLocals EXCEPT !.shared =
           /\ state # "FAILED"
           /\ \E i \in Attempts : status[i] \in {"pending", "acknowledged"}])
    /\ UNCHANGED <<rows, keys, client, faults>>

Owner(i) == entitlement.ref = i /\ entitlement.status \in {"delivery_pending", "active"}

\* a mutant of Complete: the claim stays on the settled delivery
CompleteKeepsClaim(w) ==
    LET i == on[w] IN
    /\ At(w, "complete") /\ Own(w, i)
    /\ entitlement' = IF Owner(i) THEN [status |-> "none", ref |-> None] ELSE entitlement
    /\ status' = [status EXCEPT ![i] = "expired"] /\ UNCHANGED claim
    /\ Stop(w)
    /\ UNCHANGED <<op, attempts, identity, keys, client, faults>>

\* completeDeliveryCleanup, fenced by the claim
Complete(w) ==
    LET i == on[w] IN
    /\ At(w, "complete")
    /\ IF Own(w, i)
       THEN /\ entitlement' = IF Owner(i) THEN [status |-> "none", ref |-> None] ELSE entitlement
            /\ identity' = IF ~loc[w].shared /\ identity \in {"issuing", "active"}
                           THEN "none" ELSE identity
            /\ SetDelivery(i, "expired")
       ELSE UNCHANGED ledger
    /\ Stop(w)
    /\ UNCHANGED <<op, attempts, keys, client, faults>>

\* markDeliveryCleanupRequired
Escalate(w) ==
    LET i == on[w] IN
    /\ At(w, "escalate")
    /\ IF Own(w, i)
       THEN /\ entitlement' = IF Owner(i) THEN [entitlement EXCEPT !.status = "cleanup_required"]
                                          ELSE entitlement
            /\ identity' = IF identity \in {"issuing", "active"} THEN "cleanup_required" ELSE identity
            /\ SetDelivery(i, "cleanup_required")
       ELSE UNCHANGED ledger
    /\ Stop(w)
    /\ UNCHANGED <<op, attempts, keys, client, faults>>

-----------------------------------------------------------------------------
(* sweepStaleManagedOperations *)

\* the authorization expires after an hour, whatever is under way
Expire ==
    /\ state \notin {"ACTIVE", "FAILED"}
    /\ state' = "FAILED" /\ UNCHANGED <<current, cleanups>>
    /\ UNCHANGED <<attempts, ledger, keys, client, handlers, faults>>

Creating == {"reserve", "reclaim", "rebind", "create", "record", "pend", "deliver", "settle",
             "indeterminate"}

\* five minutes without an update: no handler of the attempt is running
SweepCreating(w) ==
    /\ At(w, "idle")
    /\ state = "CREATING"
    /\ \A v \in Workers : pc[v] \notin Creating
    /\ Transition({"CREATING"}, "CREATE_UNKNOWN")
    /\ UNCHANGED <<attempts, ledger, keys, client, handlers, faults>>

SweepUnsettled(w) ==
    /\ At(w, "idle")
    /\ state \in Unsettled
    /\ Goto(w, "target")
    /\ UNCHANGED <<rows, keys, client, faults>>

\* fifteen minutes after its delivery was created
SweepDelivery(w) ==
    LET a == current IN
    /\ At(w, "idle")
    /\ state = "DELIVERY_PENDING" /\ lapsed[a]
    /\ \/ /\ \E i \in Attempts : status[i] = "acknowledged"
          /\ Transition({"DELIVERY_PENDING"}, "ACTIVE") /\ UNCHANGED handlers
       \/ /\ \A i \in Attempts : status[i] # "acknowledged"
          /\ IF attempts[a].ref = None
             THEN Transition({"DELIVERY_PENDING"}, "CREATE_UNKNOWN") /\ UNCHANGED handlers
             ELSE /\ Move(w, "sweep", a, [NoLocals EXCEPT !.ref = attempts[a].ref])
                  /\ UNCHANGED op
    /\ UNCHANGED <<attempts, ledger, keys, client, faults>>

SweepDelete(w) ==
    /\ At(w, "sweep")
    /\ \/ Cleaned(loc[w].ref) /\ Goto(w, "sweepVerify") /\ UNCHANGED op
       \/ /\ CleanupFails(loc[w].ref)
          /\ Transition({"DELIVERY_PENDING"}, "CLEANUP_REQUIRED") /\ Stop(w)
    /\ UNCHANGED <<attempts, ledger, client>>

SweepVerify(w) ==
    /\ At(w, "sweepVerify")
    /\ \/ /\ keys[on[w]] # "live"
          /\ Move(w, "clean", on[w], [loc[w] EXCEPT !.path = "sweep"])
          /\ UNCHANGED op /\ UNCHANGED faults
       \/ /\ IF keys[on[w]] = "live" THEN UNCHANGED faults ELSE Fault
          /\ Transition({"DELIVERY_PENDING"}, "CLEANUP_REQUIRED") /\ Goto(w, "target")
    /\ UNCHANGED <<attempts, ledger, keys, client>>

-----------------------------------------------------------------------------
(* The environment *)

Lapse(i) ==
    /\ status[i] # "none" /\ ~lapsed[i]
    /\ lapsed' = [lapsed EXCEPT ![i] = TRUE]
    /\ UNCHANGED <<rows, keys, received, requests, handlers, faults>>

Die(w) ==
    /\ ~At(w, "idle") /\ Fault
    /\ Stop(w)
    /\ UNCHANGED <<rows, keys, client>>

RequestStep(w) ==
    \/ ResumeBegin(w) \/ ResumeLatest(w) \/ ResumeExpire(w) \/ ResumeUnknown(w)
    \/ Reconcile(w) \/ Issue(w) \/ Acknowledge(w)

CleanerStep(w) ==
    \/ StaleBegin(w) \/ Claim(w) \/ Recheck(w) \/ Revoke(w) \/ Shared(w) \/ Complete(w)
    \/ Escalate(w)

SweeperStep(w) ==
    \/ SweepCreating(w) \/ SweepUnsettled(w) \/ SweepDelivery(w)
    \/ SweepDelete(w) \/ SweepVerify(w) \/ Reconcile(w)

Next ==
    \/ \E w \in Requests : RequestStep(w)
    \/ \E w \in Scheduled : CleanerStep(w) \/ SweeperStep(w)
    \/ \E w \in Workers : Die(w)
    \/ \E i \in Attempts : Lapse(i)
    \/ Expire

Spec == Init /\ [][Next]_vars

-----------------------------------------------------------------------------
\* The rows, the provider's keys and the handlers hold values of their kind; a
\* delivery names a claim exactly while a scheduled run has it claimed, so a
\* settled delivery can neither be claimed again nor be settled twice
\* (failed_at and failure_reason of managed_key_deliveries).
TypeOK ==
    /\ state \in States /\ current \in Attempts /\ cleanups \in Nat
    /\ attempts \in [Attempts -> [outcome : {"none", "unknown", "created", "cleaned"},
                                  ref : Attempts \cup {None}]]
    /\ keys \in [Attempts -> {"none", "live", "deleted"}]
    /\ status \in [Attempts -> {"none", "pending", "acknowledged", "expired", "claimed",
                              "cleanup_required"}]
    /\ claim \in [Attempts -> SUBSET Scheduled]
    /\ \A i \in Attempts : claim[i] # {} <=> status[i] = "claimed"
    /\ lapsed \in [Attempts -> BOOLEAN] /\ received \subseteq Attempts
    /\ entitlement \in [status : {"none", "issuing", "delivery_pending", "active",
                                  "cleanup_required"},
                        ref : Attempts \cup {None}]
    /\ identity \in {"none", "issuing", "active", "cleanup_required"}
    /\ requests \in 0..MaxRequests /\ faults \in 0..MaxFaults

\* An acknowledged delivery is the one the entitlement of the installation
\* stands for: no retry, cleanup or sweep takes the entitlement from the key
\* whose receipt the client has confirmed (finalizeDiscordManagedKeyDeliveryAck
\* against ensureDiscordRetryReservation and completeDeliveryCleanup).
AcknowledgedOwnsEntitlement ==
    \A i \in Attempts : status[i] = "acknowledged" =>
        entitlement = [status |-> "active", ref |-> i]

\* An operation is ACTIVE only when a delivery of it was acknowledged, whoever
\* made it so: the acknowledgement, a resumption or the sweep
\* (markOperationActiveOnAck and its callers).
ActiveIsAcknowledged ==
    state = "ACTIVE" => \E i \in Attempts : status[i] = "acknowledged"

\* At most one live key belongs to a delivery that is open or confirmed: an
\* attempt is not delivered before the key of the delivery it replaces is gone
\* (reconcileUnknownAttempt before startManagedOperationAttempt).
OneIssuedKey ==
    Cardinality({i \in Attempts : /\ keys[i] = "live"
                                  /\ status[i] \in {"pending", "claimed", "acknowledged"}})
        <= 1

\* One handler at a time takes an attempt from its claim to its delivery,
\* however many resumptions of the operation run (the attempt_count guard of
\* startManagedOperationAttempt).
OneHandlerIssues ==
    \A v, w \in Workers : pc[v] \in Creating /\ pc[w] \in Creating => v = w

\* A confirmed delivery is never taken back: the cleanup of stale deliveries
\* that read it before it was acknowledged leaves it alone
\* (claimStaleManagedKeyDeliveryCleanup).
AcknowledgementIsFinal ==
    [][\A i \in Attempts : status[i] = "acknowledged" =>
           status'[i] = "acknowledged"]_vars

\* A failed operation comes back only through an acknowledged delivery: what
\* was under way when it expired or was refused cannot revive it
\* (the FROM states of transitionManagedOperation and of its callers).
FailedOnlyActivates ==
    [][state = "FAILED" => state' \in {"FAILED", "ACTIVE"}]_vars

\* What a test of reconciliation says ("reconciles an orphan provider key by name,
\* verifies cleanup, then allows attempt two"): the key that a reconciliation has
\* found by the name of its attempt is gone once the cleanup it orders succeeds.
\* The code deletes the credential recorded for the attempt instead, which may be
\* that of the attempt before (see CleanupRef and Reserve).
FoundKeyIsDeleted ==
    [][\A w \in Workers :
           (pc[w] = "delete" /\ loc[w].path = "found" /\ pc'[w] = "verify")
               => keys'[on[w]] # "live"]_vars

=============================================================================
