------------------------------- MODULE Docker -------------------------------
(***************************************************************************)
(* The docker daemon as the network simulator uses it                      *)
(* (src/docker-network-simulator/actions): networks, the containers        *)
(* attached to them, and the interfaces and queueing disciplines inside    *)
(* the containers.  Every operator is what one command line does.          *)
(*                                                                         *)
(* Containers start without a network, as the simulator's README advises.  *)
(* Networks are named by the number behind networkPrefix, interfaces by    *)
(* the number behind "eth", of which docker gives out the least; `lo` is   *)
(* there in every container that runs, and `ls` lists it last.             *)
(***************************************************************************)
EXTENDS Integers, FiniteSets, Functions

CONSTANT Containers

VARIABLES
    docker,      \* the networks that exist: name -> the containers attached
    running,     \* the containers that run
    interfaces,  \* container -> its interfaces: interface -> name of the network
    qdiscs       \* <<container, interface>>: disciplines that tc has added

dockerVars == <<docker, running, interfaces, qdiscs>>

Empty == [x \in {} |-> x]

DockerInit ==
    /\ docker = Empty
    /\ running = Containers
    /\ interfaces = [c \in Containers |-> Empty]
    /\ qdiscs = {}

With(f, x, y) == [z \in DOMAIN f \cup {x} |-> IF z = x THEN y ELSE f[z]]

Without(f, x) == Restrict(f, DOMAIN f \ {x})

\* The loopback interface, which belongs to no network.
lo == -1

\* ls /sys/class/net, which a container that does not run does not answer.
ls(c) == IF c \in running THEN DOMAIN interfaces[c] \cup {lo} ELSE {}

\* Below eth10 ls agrees with the numbers.
last_listed(names) ==
    IF lo \in names THEN lo ELSE CHOOSE i \in names : \A j \in names : j <= i

-----------------------------------------------------------------------------
network_inspect(name) == name \in DOMAIN docker

network_create(name) ==
    /\ docker' = With(docker, name, {})
    /\ UNCHANGED <<running, interfaces, qdiscs>>

\* A network with endpoints is not removed.
CanRemove(name) == name \in DOMAIN docker /\ docker[name] = {}

network_rm(name) ==
    /\ docker' = Without(docker, name)
    /\ UNCHANGED <<running, interfaces, qdiscs>>

CanConnect(name, c) == name \in DOMAIN docker /\ c \notin docker[name]

\* A running container gets the first free interface, a stopped one none yet.
network_connect(name, c) ==
    /\ docker' = [docker EXCEPT ![name] = @ \cup {c}]
    /\ interfaces' =
          IF c \notin running THEN interfaces
          ELSE LET free == CHOOSE i \in 0 .. Cardinality(DOMAIN interfaces[c]) :
                             /\ i \notin DOMAIN interfaces[c]
                             /\ 0 .. i - 1 \subseteq DOMAIN interfaces[c]
               IN  [interfaces EXCEPT ![c] = With(@, free, name)]
    /\ UNCHANGED <<running, qdiscs>>

CanDisconnect(name, c) == name \in DOMAIN docker /\ c \in docker[name]

network_disconnect(name, c) ==
    LET gone == {i \in DOMAIN interfaces[c] : interfaces[c][i] = name}
    IN  /\ docker' = [docker EXCEPT ![name] = @ \ {c}]
        /\ interfaces' = [interfaces EXCEPT ![c] = Restrict(@, DOMAIN @ \ gone)]
        /\ qdiscs' = qdiscs \ ({c} \X gone)
        /\ UNCHANGED running

\* A container that stops loses its interfaces and all that was set on them.
stop(c) ==
    /\ running' = running \ {c}
    /\ interfaces' = [interfaces EXCEPT ![c] = Empty]
    /\ qdiscs' = {q \in qdiscs : q[1] # c}
    /\ UNCHANGED docker

\* One that starts gets an interface for each of its networks, in any order.
boot(c) ==
    LET attached == {name \in DOMAIN docker : c \in docker[name]}
    IN  /\ running' = running \cup {c}
        /\ \E f \in Bijection(0 .. Cardinality(attached) - 1, attached) :
              interfaces' = [interfaces EXCEPT ![c] = f]
        /\ qdiscs' = {q \in qdiscs : q[1] # c}
        /\ UNCHANGED docker

start(c) == IF c \in running THEN UNCHANGED dockerVars ELSE boot(c)

restart(c) == boot(c)

\* tc adds a discipline where there is none and changes one that is there.
tc_succeeds(command, c, i) ==
    /\ i \in ls(c)
    /\ command = "add" <=> <<c, i>> \notin qdiscs

tc(c, i) ==
    /\ qdiscs' = qdiscs \cup {<<c, i>>}
    /\ UNCHANGED <<docker, running, interfaces>>

\* docker-compose down: containers are stopped and removed.
compose_down ==
    /\ docker' = [name \in DOMAIN docker |-> {}]
    /\ running' = {}
    /\ interfaces' = [c \in Containers |-> Empty]
    /\ qdiscs' = {}

=============================================================================
