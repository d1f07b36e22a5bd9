----------------------------- MODULE EventEngine -----------------------------
(***************************************************************************)
(* The docker network simulator: src/docker-network-simulator/main.py      *)
(* starts the containers and a thread for every event (eventWorker.py),    *)
(* waits for the threads and tears everything down.                        *)
(***************************************************************************)
EXTENDS TimerActions

CONSTANTS
    DependOn,     \* dependOn: event -> the events it waits for
    Commands,     \* command, commands: event -> how many shell commands it has
    CommandFails, \* the events with a command that may fail
    Do            \* do: event -> its actions, a map without an order

VARIABLES
    threadsFinished,  \* the events whose flag is set
    commands,         \* event -> shell commands still to execute
    todo,             \* event -> actions still to execute
    main              \* what the main thread is at

engineVars == <<threadsFinished, commands, todo, main>>

simulatorVars == <<dockerVars, tableVars, currentTimers>>

vars == <<simulatorVars, pc, frame, engineVars>>

Effects == {"delay", "duplicate", "corrupt", "loss"}

\* The list of a network names a container once, so that its set is its key.
ASSUME EventsAssumption ==
    /\ DependOn \in [Events -> SUBSET Events]
    /\ Commands \in [Events -> Nat]
    /\ CommandFails \subseteq Events
    /\ Do = [e \in Events |-> Do[e]]
    /\ \A e \in Events : \A action \in Do[e] :
           /\ \/ action.name \in {"startTimer", "printTimer", "stopTimer"}
              \/ action.container \in Seq(Containers) \ {<<>>}
           /\ action.name \in {"join", "cut"} \cup Effects => IsInjective(action.container)
           /\ action.name = "join" =>
                 \/ action.mode \in {"cluster", "row"}
                 \/ action.mode = "ring" /\ Len(action.container) > 1
    /\ Unreliable \subseteq Containers

\* After `docker-compose up`, with all threads made.
Init ==
    /\ DockerInit
    /\ NetworkActionsInit
    /\ TimerActionsInit
    /\ pc = [e \in Events |-> "dependOn"]
    /\ threadsFinished = {}
    /\ commands = Commands
    /\ todo = Do
    /\ main = "join"

-----------------------------------------------------------------------------
\* Mutant: it is enough that one of the events has finished.
WaitForOne(e) ==
    /\ pc[e] = "dependOn"
    /\ DependOn[e] = {} \/ DependOn[e] \cap threadsFinished # {}
    /\ Goto(e, "commands")
    /\ UNCHANGED <<simulatorVars, frame, engineVars>>

\* Flags are never reset: to spin on one after the other is to wait for all.
WaitForEvents(e) ==
    /\ pc[e] = "dependOn"
    /\ DependOn[e] \subseteq threadsFinished
    /\ Goto(e, "commands")
    /\ UNCHANGED <<simulatorVars, frame, engineVars>>

\* A command that fails ends the thread; when all have succeeded `do` is next.
Command(e) ==
    /\ pc[e] = "commands"
    /\ \/ /\ commands[e] > 0
          /\ commands' = [commands EXCEPT ![e] = @ - 1]
          /\ UNCHANGED pc
       \/ /\ commands[e] > 0 /\ e \in CommandFails
          /\ Goto(e, "aborted")
          /\ UNCHANGED commands
       \/ /\ commands[e] = 0
          /\ Goto(e, "do")
          /\ UNCHANGED commands
    /\ UNCHANGED <<simulatorVars, frame, threadsFinished, todo, main>>

\* An action goes to its implementation.
executeAction(e, action) ==
    \/ action.name = "join" /\ join(e, action)
    \/ action.name = "cut" /\ cut(e, action)
    \/ action.name \in Effects /\ netem(e, action)
    \/ action.name \in {"startContainer", "stopContainer", "restartContainer"}
          /\ callContainers(e, action)
    \/ action.name \in {"startTimer", "printTimer", "stopTimer"} /\ timer(e, action)

DoAction(e) ==
    /\ pc[e] = "do"
    /\ \E action \in todo[e] :
          /\ todo' = [todo EXCEPT ![e] = @ \ {action}]
          /\ executeAction(e, action)
    /\ UNCHANGED <<simulatorVars, threadsFinished, commands, main>>

Finish(e) ==
    /\ pc[e] = "do"
    /\ todo[e] = {}
    /\ Goto(e, "finished")
    /\ threadsFinished' = threadsFinished \cup {e}
    /\ UNCHANGED <<simulatorVars, frame, commands, todo, main>>

Ended(e) == pc[e] \in {"finished", "aborted"}

\* Mutant: main waits for the flags of all events, not for their threads.
TearDownFlagged ==
    /\ main = "join"
    /\ threadsFinished = Events
    /\ compose_down
    /\ main' = "delete"
    /\ UNCHANGED <<tableVars, currentTimers, pc, frame, threadsFinished, commands, todo>>

\* Mutant: only one of the threads is joined.
TearDownUnjoined ==
    /\ main = "join"
    /\ \E e \in Events : Ended(e)
    /\ compose_down
    /\ main' = "delete"
    /\ UNCHANGED <<tableVars, currentTimers, pc, frame, threadsFinished, commands, todo>>

\* When all threads have ended, `docker-compose down`.
TearDown ==
    /\ main = "join"
    /\ \A e \in Events : Ended(e)
    /\ compose_down
    /\ main' = "delete"
    /\ UNCHANGED <<tableVars, currentTimers, pc, frame, threadsFinished, commands, todo>>

DeleteNetworks ==
    /\ main = "delete"
    /\ deleteAllNetworks
    /\ main' = "ended"
    /\ UNCHANGED <<running, interfaces, qdiscs, tableVars, currentTimers, pc, frame,
                   threadsFinished, commands, todo>>

Worker(e) ==
    \/ WaitForEvents(e) \/ Command(e) \/ DoAction(e) \/ Finish(e)
    \/ NetworkStep(e) /\ UNCHANGED <<currentTimers, engineVars>>
    \/ TimerStep(e) /\ UNCHANGED engineVars

Main == TearDown \/ DeleteNetworks

Next == Main \/ \E e \in Events : Worker(e)

Spec == Init /\ [][Next]_vars

\* Threads are scheduled and the commands they call return.
FairSpec == Spec /\ WF_vars(Main) /\ \A e \in Events : WF_vars(Worker(e))

-----------------------------------------------------------------------------
(***************************************************************************)
(* What a configuration may keep to so that its events do not meet at a    *)
(* container.  The code checks none of it.                                 *)
(***************************************************************************)

\* The lists an event connects and those it cuts, and the keys they have.
Joins(e) == UNION {ToSet(connections(action)) : action \in {a \in Do[e] : a.name = "join"}}
Cuts(e)  == {action.container : action \in {a \in Do[e] : a.name = "cut"}}

JoinKeys(e) == {getMapKey(list) : list \in Joins(e)}
CutKeys(e)  == {getMapKey(list) : list \in Cuts(e)}

\* d has finished when e begins: it is one of those e depends on, near or far.
Before(d, e) ==
    \A S \in SUBSET Events : e \in S /\ (\A f \in S : DependOn[f] \subseteq S) => d \in S

First(d, e) == d # e /\ Before(d, e)

\* Of two events that join the same containers, or that cut the same network,
\* one waits for the other.
OneAtATime ==
    \A d, e \in Events :
        d # e /\ (JoinKeys(d) \cap JoinKeys(e) # {} \/ CutKeys(d) \cap CutKeys(e) # {}) =>
            Before(d, e) \/ Before(e, d)

OfActions(e, names) == UNION {ToSet(a.container) : a \in {b \in Do[e] : b.name \in names}}

\* The containers that an event joins, those it joins, cuts or puts an effect on,
\* and those that it starts or restarts, restarts, stops.
JoinedBy(e)    == UNION JoinKeys(e)
UsedBy(e)      == JoinedBy(e) \cup (UNION CutKeys(e)) \cup OfActions(e, Effects)
BootedBy(e)    == OfActions(e, {"startContainer", "restartContainer"})
RestartedBy(e) == OfActions(e, {"restartContainer"})
StoppedBy(e)   == OfActions(e, {"stopContainer"})

\* s stops c before e, and c is not started again before e has finished.
KeepsOff(s, c, e) ==
    /\ c \in StoppedBy(s)
    /\ First(s, e)
    /\ \A b \in Events : c \in BootedBy(b) => First(b, s) \/ First(e, b)

\* e may start c, in any order with its other actions, and no event stops c meanwhile.
StartsItself(e, c) ==
    /\ c \notin RestartedBy(e)
    /\ \A s \in Events : c \in StoppedBy(s) => First(s, e) \/ First(e, s)

\* An event that joins a container waits for each other that joins, cuts or puts an
\* effect on a network of it, or the other way round; one that starts a container
\* comes before each other that joins it, or finds it stopped till then.
Orderly ==
    /\ OneAtATime
    /\ \A d, e \in Events :
           d # e /\ JoinedBy(d) \cap UsedBy(e) # {} => Before(d, e) \/ Before(e, d)
    /\ \A b, e \in Events : \A c \in BootedBy(b) \cap JoinedBy(e) :
           \/ First(b, e)
           \/ b = e /\ StartsItself(e, c)
           \/ \E s \in Events : KeepsOff(s, c, e)

-----------------------------------------------------------------------------
\* "the execution waits until the events evt2 and evt3 have finished"
\* (README.md:67): no event acts before those it depends on have acted in full.
DependenciesActFirst ==
    \A e \in Events :
        pc[e] \notin {"dependOn", "aborted"} =>
            \A d \in DependOn[e] : pc[d] = "finished" /\ todo[d] = {}

Order == INSTANCE EventOrder WITH
    started  <- {e \in Events : pc[e] # "dependOn"},
    finished <- threadsFinished,
    aborted  <- {e \in Events : pc[e] = "aborted"},
    world    <- dockerVars

\* Threads keep the order of events: docker is changed by events that have begun
\* and not ended, and by the tear-down when none is left (main.py:59-68).
ImplementsEventOrder == Order!Spec

\* Between actions the table lists the networks of docker, each of them once.
TableMatchesDocker ==
    (main = "join" /\ \A e \in Events : frame[e] = NoCall) =>
        /\ {objects[networks[key]].name : key \in DOMAIN networks} = DOMAIN docker
        /\ \A k, l \in DOMAIN networks :
               objects[networks[k]].name = objects[networks[l]].name => k = l

\* "The `network`-key describes the effected network" (README.md:239): tc, where it
\* succeeds, is given an interface of the network that the effect is for.
EffectsHitTheirNetwork ==
    \A e \in Events :
        pc[e] = "tc" /\ tc_succeeds(frame[e].command, current(e), frame[e].interface) =>
            /\ frame[e].interface \in DOMAIN interfaces[current(e)]
            /\ interfaces[current(e)][frame[e].interface] = network(e).name

\* "After a full run of this tool there shouldn't be any artifacts left"
\* (README.md:275): no container runs and no network is left.
NoArtifactsLeft == main = "ended" => running = {} /\ docker = Empty

\* "After executing all events the docker compose environment will be stopped"
\* (README.md:273): the tool comes to its end.
RunEnds == <>(main = "ended")

=============================================================================
