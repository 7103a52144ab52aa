----------------------------- MODULE TurnLedger -----------------------------
(***************************************************************************)
(* What the translation turn owner promises to the rest of the pipeline,   *)
(* without tasks, locks or callbacks: a turn is opened once, each of its   *)
(* parts may be published while it is unfinished, each part is finished    *)
(* once, and the turn closes in the very step that finishes its last part. *)
(* A closed turn is never reopened, published or finished again.           *)
(***************************************************************************)
CONSTANTS
    Turns,      \* the identities a final transcript can carry
    Parts       \* Parts[t]: the children turn t is split into, disjoint

VARIABLES
    open,       \* turns accepted and not closed
    closed,     \* turns closed
    finished,   \* parts with a recorded terminal outcome
    published   \* parts handed to the output port

ledger == <<open, closed, finished, published>>

Init ==
    /\ open = {}
    /\ closed = {}
    /\ finished = {}
    /\ published = {}

\* A new turn is opened; a turn without parts is closed at once.
Open(t) ==
    /\ t \notin open \cup closed
    /\ open' = IF Parts[t] = {} THEN open ELSE open \cup {t}
    /\ closed' = IF Parts[t] = {} THEN closed \cup {t} ELSE closed
    /\ UNCHANGED <<finished, published>>

\* Only an unfinished part of an open turn is published, and only once.
Publish(t, k) ==
    /\ t \in open
    /\ k \in Parts[t] \ (finished \cup published)
    /\ published' = published \cup {k}
    /\ UNCHANGED <<open, closed, finished>>

\* The step that finishes the last part of a turn closes the turn.
Finish(t, k) ==
    /\ t \in open
    /\ k \in Parts[t] \ finished
    /\ finished' = finished \cup {k}
    /\ IF Parts[t] \subseteq finished'
         THEN open' = open \ {t} /\ closed' = closed \cup {t}
         ELSE UNCHANGED <<open, closed>>
    /\ UNCHANGED published

Next ==
    \E t \in Turns :
        \/ Open(t)
        \/ \E k \in Parts[t] : Publish(t, k) \/ Finish(t, k)

Spec == Init /\ [][Next]_ledger
=============================================================================
