---------------------------- MODULE SelfCaptureInv ----------------------------
(***************************************************************************)
(* The inductive invariant of SelfCapture.  It is a conjunction of parts    *)
(* that are named for what they say; TLC checks it on the instances of      *)
(* MCSelfCapture, SelfCaptureProofs proves it for every instance.           *)
(***************************************************************************)
EXTENDS SelfCapture

Entry == {"start", "lock"}
Tearing == {"loop", "closing", "debts", "release"}
Starting == {"admission", "replace", "swap", "opening", "lateClose", "ingress",
             "failRelease", "staleRelease"}
Handing == {"handoff", "boundary", "committed"}
Inside == Tearing \cup Starting \cup Handing
Pcs == {"none", "done"} \cup Entry \cup Inside

Intents == {"on", "off", "restart"}
Bodies == {"none", "prepare", "suspend", "close", "fault", "terminal"} \cup Intents

OwnerTypes ==
    [desired : BOOLEAN, generation : Nat,
     state : {"STOPPED", "STARTING", "ADMISSION_PENDING", "RUNNING", "STOPPING",
              "FAULTED"},
     status : {"DETACHED", "PENDING", "READY", "RELEASING", "FAILED"},
     config : Configs \cup {None}, signature : Configs \cup {None},
     token : Calls \cup {None}, closed : BOOLEAN, source : Sources \cup {None},
     loop : Sources \cup {None}, retired : SUBSET Sources]

Locals ==
    [kind : Bodies, gen : Nat, config : Configs \cup {None}, force : BOOLEAN,
     src : Sources \cup Calls \cup {None}, loop : Sources \cup {None},
     debts : SUBSET Sources, failed : BOOLEAN, mode : {"abort", "drain"},
     target : {"STOPPED", "FAULTED"}, preserve : BOOLEAN, release : BOOLEAN,
     then : {"end", "start"}]

RuntimeTypes ==
    [attached : Configs \cup {None}, recorded : Configs \cup {None},
     pending : Calls \cup {None}, idle : BOOLEAN, debt : BOOLEAN]

Typed ==
    /\ owner \in OwnerTypes /\ runtime \in RuntimeTypes
    /\ mic \in [Sources -> {"unused", "open", "closed"}]
    /\ capture \in [Sources -> {"none", "running", "cancelling", "ended"}]
    /\ bound \in [Sources -> Nat]
    /\ queue \in Seq(Tasks) /\ transition \in Calls \cup {None}
    /\ caller \in [Calls -> {"idle", "awaiting", "retiring", "frozen", "returned",
                             "faults", "closed"}]
    /\ waits \in [Calls -> Calls \cup {None}]
    /\ pc \in [Tasks -> Pcs] /\ loc \in [Tasks -> Locals] /\ killed \subseteq Tasks

\* The lock serves each of the tasks past their start once; who is past the lock
\* has it.
LockOK ==
    /\ \A i, j \in DOMAIN queue : queue[i] = queue[j] => i = j
    /\ \A t \in Tasks :
         pc[t] \notin {"none", "start", "done"} <=> \E i \in DOMAIN queue : queue[i] = t
    /\ \A t \in Tasks : pc[t] \in Inside => queue # <<>> /\ queue[1] = t

\* What runs where: calls, the fault tasks of the loops, the callbacks of the
\* provider.
Roles ==
    /\ \A t \in Tasks :
         /\ loc[t].kind = "fault" => t \in Sources
         /\ loc[t].kind = "terminal" => t \in Failures
         /\ pc[t] # "none" => loc[t].kind # "none"
         /\ pc[t] = "none" => t \notin killed
         /\ pc[t] \in Starting => loc[t].kind \in {"on", "restart", "prepare"}
         /\ pc[t] \in Starting \ {"replace", "swap"} => loc[t].kind # "prepare"
         /\ pc[t] \in Handing => loc[t].kind = "on"
         /\ loc[t].then = "start" => loc[t].kind \in {"on", "restart"}
    /\ \A s \in Sources : loc[s].kind \in {"none", "fault"}
    /\ \A x \in Failures : loc[x].kind \in {"none", "terminal"}

\* Where the caller of each call is when its body is not yet or no longer there.
Callers ==
    \A c \in Calls :
        /\ caller[c] \in {"idle", "frozen"} => pc[c] = "none" /\ loc[c].kind = "none"
        /\ caller[c] = "retiring" => pc[c] = "none" /\ loc[c].kind \in {"suspend", "close"}
        /\ caller[c] = "awaiting" => pc[c] # "none"
        /\ caller[c] \in {"returned", "faults", "closed"} => pc[c] = "done"
        /\ caller[c] \in {"faults", "closed"} => loc[c].kind = "close"

\* Only an intent is a transition; it is the last one or it was cancelled.
Transitions ==
    /\ transition # None => loc[transition].kind \in Intents
    /\ \A c \in Calls :
         /\ loc[c].kind \in Intents /\ Live(c) => c = transition \/ c \in killed
         /\ c \in killed => loc[c].kind \in Intents
    /\ owner.closed => transition = None

\* A source is used once, by one loop, whose fault task is made when it ends.
SourceLife ==
    \A s \in Sources :
        /\ mic[s] = "unused" => capture[s] = "none"
        /\ capture[s] # "ended" => pc[s] = "none"

\* The session has a source exactly while it has a loop, and no other loop runs
\* without having been told to stop.  A body that replaces the session has taken
\* both away.
OneSession ==
    /\ owner.source = owner.loop
    /\ owner.state = "RUNNING" => owner.source # None
    /\ \A s \in Sources : capture[s] = "running" => s = owner.loop
    /\ \A t \in Tasks :
         /\ pc[t] \in Tearing \cup (Starting \ {"ingress"}) => owner.source = None
         /\ pc[t] = "ingress" => owner.source # None

\* Who holds a source that is neither the session's nor retired.
Holding ==
    /\ \A t \in Tasks :
         /\ loc[t].src \in Sources => pc[t] \in {"loop", "closing", "lateClose", "done"}
         /\ pc[t] \in {"closing", "lateClose"} => loc[t].src \in Sources
         /\ pc[t] = "loop" => loc[t].src \in Sources \cup {None}
    /\ SourcesAreAccounted

\* A handoff that waits is the one the channel knows of.
PendingHandoff == runtime.pending # None => pc[runtime.pending] = "boundary"

\* Calls in progress have generations of their own.
Generations ==
    /\ \A s \in Sources : bound[s] <= owner.generation
    /\ \A c \in Calls :
         /\ loc[c].gen <= owner.generation
         /\ Live(c) \/ caller[c] = "retiring" => loc[c].gen # 0
         /\ \A d \in Calls : loc[c].gen = loc[d].gen => c = d \/ loc[c].gen = 0
         /\ owner.closed /\ loc[c].kind # "close" => loc[c].gen < owner.generation
         /\ loc[c].kind = "close" => owner.closed

Waiting(c) == caller[c] = "retiring" \/ pc[c] \in Entry
Current(c) == loc[c].gen = owner.generation

\* Loops of earlier sessions are bound to earlier generations; so is the loop that
\* a body of the current generation is about to replace.
Outdated ==
    /\ \A s \in Sources : Running(s) /\ s # owner.loop => bound[s] < owner.generation
    /\ \A c \in Calls : Waiting(c) /\ Current(c) /\ owner.loop # None =>
         \/ bound[owner.loop] < owner.generation
         \/ loc[c].kind = "on" /\ owner.state = "RUNNING"

\* Somebody will look after a session that is not as it should be.
Responsible(c) ==
    \/ caller[c] = "frozen"
    \/ c \notin killed /\ Current(c) /\ (Waiting(c) \/ pc[c] = "ingress")

\* A session with a source runs and is wanted, or somebody is responsible for it.
Attended ==
    /\ owner.source # None =>
         \/ owner.state = "RUNNING" /\ owner.desired
         \/ \E c \in Calls : Responsible(c)
    /\ \A c \in Calls : Live(c) /\ Current(c) =>
         /\ loc[c].kind = "prepare" => owner.source = None
         /\ owner.source # None =>
              (loc[c].kind \in {"on", "restart"} /\ pc[c] \in Entry \cup {"ingress"}
                 => owner.desired)

\* A body that entered the lock after the owner was closed is one of close.  The
\* session of a closed owner is gone or a call of close is about to end it.
Closing ==
    /\ (\E c \in Calls : loc[c].kind = "close" /\ pc[c] \in Inside \cup {"done"})
           => \A t \in Tasks : pc[t] \in Inside => loc[t].kind = "close"
    /\ owner.closed /\ owner.source # None =>
         \E c \in Calls : \/ caller[c] = "frozen"
                          \/ loc[c].kind = "close" /\ Waiting(c) /\ Current(c)

CaptureInv ==
    /\ Typed /\ LockOK /\ Roles /\ Callers /\ Transitions /\ SourceLife
    /\ OneSession /\ Holding /\ PendingHandoff
    /\ Generations /\ Outdated /\ Attended /\ Closing
=============================================================================
