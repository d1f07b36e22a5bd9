----------------------------- MODULE EventOrder -----------------------------
(***************************************************************************)
(* What the docker network simulator promises of its events: each one      *)
(* begins once, after all the events it depends on have finished, and then *)
(* finishes or aborts for good; whatever it does to the containers and     *)
(* networks happens in between, and the tear-down after all of them.       *)
(***************************************************************************)
CONSTANTS
    Events,
    DependOn  \* event -> the events that have to finish before it begins

VARIABLES
    started,   \* the events that have begun
    finished,
    aborted,
    world      \* containers and networks

Active == started \ (finished \cup aborted)

Init == started = {} /\ finished = {} /\ aborted = {}

Start(e) ==
    /\ e \notin started
    /\ DependOn[e] \subseteq finished
    /\ started' = started \cup {e}
    /\ UNCHANGED <<finished, aborted, world>>

\* An event that is under way changes the world as it likes.
Act ==
    /\ Active # {}
    /\ UNCHANGED <<started, finished, aborted>>

Finish(e) ==
    /\ e \in Active
    /\ finished' = finished \cup {e}
    /\ UNCHANGED <<started, aborted, world>>

Abort(e) ==
    /\ e \in Active
    /\ aborted' = aborted \cup {e}
    /\ UNCHANGED <<started, finished, world>>

TearDown ==
    /\ finished \cup aborted = Events
    /\ UNCHANGED <<started, finished, aborted>>

Next == Act \/ TearDown \/ \E e \in Events : Start(e) \/ Finish(e) \/ Abort(e)

Spec == Init /\ [][Next]_<<started, finished, aborted, world>>

=============================================================================
