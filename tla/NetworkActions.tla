--------------------------- MODULE NetworkActions ---------------------------
(***************************************************************************)
(* The actions of the docker network simulator on networks and containers, *)
(* src/docker-network-simulator/actions/networkActions.py and              *)
(* containerActions.py, as steps of threads that share the table           *)
(* `networks`.  A step is one command of docker, or one line that reads or *)
(* writes shared state, with what follows in the thread itself; exit codes *)
(* are only printed.                                                       *)
(***************************************************************************)
EXTENDS Docker, SequencesExt

CONSTANTS
    Events,     \* the events of the configuration, each a thread
    Unreliable  \* containers that docker may fail to connect

VARIABLES
    networks,  \* networks: key -> Network object
    objects,   \* the Network objects made so far; an object is its index
    pc,        \* event -> the function its thread is in, or what became of it
    frame      \* event -> the arguments and locals of that function

tableVars == <<networks, objects>>

\* getMapKey: the sorted list of the containers stands for their set.
getMapKey(containerList) == ToSet(containerList)

NoCall == [calls |-> <<>>, left |-> <<>>, name |-> 0, object |-> 0, before |-> {},
           failed |-> FALSE, interface |-> 0, command |-> "none"]

NetworkActionsInit ==
    /\ networks = Empty
    /\ objects = <<>>
    /\ frame = [e \in Events |-> NoCall]

Goto(e, label) == pc' = [pc EXCEPT ![e] = label]

\* Back to the do-block.
Return(e) ==
    /\ Goto(e, "do")
    /\ frame' = [frame EXCEPT ![e] = NoCall]

\* A KeyError ends the thread.
KeyError(e) ==
    /\ Goto(e, "aborted")
    /\ frame' = [frame EXCEPT ![e] = NoCall]

\* join makes the next of its calls of connect, if there is one.
Call(e, calls) ==
    /\ Goto(e, IF calls = <<>> THEN "do" ELSE "connect")
    /\ frame' = [frame EXCEPT ![e] = [NoCall EXCEPT !.calls = calls]]

\* A call of connect returns.
NextCall(e) == Call(e, Tail(frame[e].calls))

containers(e) == Head(frame[e].calls)
mapKey(e)     == getMapKey(containers(e))
current(e)    == Head(frame[e].left)
network(e)    == objects[frame[e].object]

\* The loop over containers goes on at `again`, or ends in After.
Loop(e, f, again, After) ==
    IF Tail(f.left) = <<>> THEN After
    ELSE /\ Goto(e, again)
         /\ frame' = [frame EXCEPT ![e] = [f EXCEPT !.left = Tail(@)]]

-----------------------------------------------------------------------------
(***************************************************************************)
(* join: one call of connect for a cluster, one for each pair of neighbours*)
(* in a row, and one more that closes a ring.                              *)
(***************************************************************************)
connections(action) ==
    LET list == action.container
        row  == [i \in 1 .. Len(list) - 1 |-> SubSeq(list, i, i + 1)]
    IN  CASE action.mode = "cluster" -> <<list>>
          [] action.mode = "row"     -> row
          [] action.mode = "ring"    -> Append(row, <<list[1], Last(list)>>)

\* A row of one container makes no call.
join(e, action) == Call(e, connections(action))

connect(e) ==
    /\ pc[e] = "connect"
    /\ \/ /\ mapKey(e) \in DOMAIN networks
          /\ NextCall(e)
       \/ /\ mapKey(e) \notin DOMAIN networks
          /\ Goto(e, "inspect")
          /\ UNCHANGED frame
    /\ UNCHANGED <<tableVars, dockerVars>>

\* createNetwork looks for the first name that is free ...
InspectNetwork(e) ==
    /\ pc[e] = "inspect"
    /\ \/ /\ network_inspect(frame[e].name)
          /\ frame' = [frame EXCEPT ![e].name = @ + 1]
          /\ UNCHANGED pc
       \/ /\ ~network_inspect(frame[e].name)
          /\ Goto(e, "create")
          /\ UNCHANGED frame
    /\ UNCHANGED <<tableVars, dockerVars>>

\* ... and creates it, unless another thread was faster.
CreateNetwork(e) ==
    /\ pc[e] = "create"
    /\ \/ /\ network_inspect(frame[e].name)
          /\ NextCall(e)
          /\ UNCHANGED dockerVars
       \/ /\ ~network_inspect(frame[e].name)
          /\ network_create(frame[e].name)
          /\ Goto(e, "put")
          /\ UNCHANGED frame
    /\ UNCHANGED tableVars

NewNetwork(name) == [name |-> name, connected |-> Empty, netem |-> {}]

\* A new object goes into the table, in the place of one that came meanwhile.
PutNetwork(e) ==
    /\ pc[e] = "put"
    /\ objects' = Append(objects, NewNetwork(frame[e].name))
    /\ networks' = With(networks, mapKey(e), Len(objects'))
    /\ Goto(e, "before")
    /\ frame' = [frame EXCEPT ![e].left = containers(e)]
    /\ UNCHANGED dockerVars

InterfacesBefore(e) ==
    /\ pc[e] = "before"
    /\ Goto(e, "attach")
    /\ frame' = [frame EXCEPT ![e].before = ls(current(e))]
    /\ UNCHANGED <<tableVars, dockerVars>>

Attach(e) ==
    /\ pc[e] = "attach"
    /\ \/ /\ CanConnect(frame[e].name, current(e))
          /\ network_connect(frame[e].name, current(e))
          /\ frame' = [frame EXCEPT ![e].failed = FALSE]
       \/ /\ ~CanConnect(frame[e].name, current(e)) \/ current(e) \in Unreliable
          /\ frame' = [frame EXCEPT ![e].failed = TRUE]
          /\ UNCHANGED dockerVars
    /\ Goto(e, "after")
    /\ UNCHANGED tableVars

\* Mutant: every interface of the container is taken for new.
all_interfaces(e) == ls(current(e))

new_interfaces(e) == ls(current(e)) \ frame[e].before

\* The last interface that was not there before is taken for the new one.
InterfacesAfter(e) ==
    /\ pc[e] = "after"
    /\ \/ /\ ~frame[e].failed /\ new_interfaces(e) # {}
          /\ Goto(e, "list")
          /\ frame' = [frame EXCEPT ![e].interface = last_listed(new_interfaces(e))]
       \/ /\ frame[e].failed \/ new_interfaces(e) = {}
          /\ Loop(e, frame[e], "before", NextCall(e))
    /\ UNCHANGED <<tableVars, dockerVars>>

\* The interface is listed in the network that the table has then.
ListInterface(e) ==
    LET c == current(e)
    IN  /\ pc[e] = "list"
        /\ \/ /\ mapKey(e) \notin DOMAIN networks
              /\ KeyError(e)
              /\ UNCHANGED objects
           \/ /\ mapKey(e) \in DOMAIN networks
              /\ objects' = [objects EXCEPT
                    ![networks[mapKey(e)]].connected = With(@, c, frame[e].interface),
                    ![networks[mapKey(e)]].netem = @ \ {c}]
              /\ Loop(e, frame[e], "before", NextCall(e))
        /\ UNCHANGED <<networks, dockerVars>>

-----------------------------------------------------------------------------
(***************************************************************************)
(* cut.                                                                    *)
(***************************************************************************)
cut(e, action) ==
    /\ Goto(e, "disconnect")
    /\ frame' = [frame EXCEPT ![e].calls = <<action.container>>]

disconnect(e) ==
    /\ pc[e] = "disconnect"
    /\ \/ /\ mapKey(e) \notin DOMAIN networks
          /\ Return(e)
       \/ /\ mapKey(e) \in DOMAIN networks
          /\ Goto(e, "lookup")
          /\ UNCHANGED frame
    /\ UNCHANGED <<tableVars, dockerVars>>

LookUpNetwork(e) ==
    /\ pc[e] = "lookup"
    /\ \/ /\ mapKey(e) \notin DOMAIN networks
          /\ KeyError(e)
       \/ /\ mapKey(e) \in DOMAIN networks
          /\ Goto(e, "detach")
          /\ frame' = [frame EXCEPT ![e].object = networks[mapKey(e)],
                                    ![e].left = containers(e)]
    /\ UNCHANGED <<tableVars, dockerVars>>

\* The loop over containers goes on; if one has failed the network is kept.
NextContainer(e, f) ==
    Loop(e, f, "detach",
         IF f.failed THEN Return(e)
         ELSE Goto(e, "delete") /\ frame' = [frame EXCEPT ![e] = f])

\* Mutant: a network that was cut in part is forgotten.
DetachAndForget(e) ==
    LET c == current(e)
    IN  /\ pc[e] = "detach"
        /\ \/ /\ CanDisconnect(network(e).name, c)
              /\ network_disconnect(network(e).name, c)
              /\ Goto(e, "unlist")
              /\ UNCHANGED <<frame, networks>>
           \/ /\ ~CanDisconnect(network(e).name, c)
              /\ networks' = Without(networks, mapKey(e))
              /\ Return(e)
              /\ UNCHANGED dockerVars
        /\ UNCHANGED objects

\* Containers are detached one by one ...
Detach(e) ==
    LET c == current(e)
    IN  /\ pc[e] = "detach"
        /\ \/ /\ CanDisconnect(network(e).name, c)
              /\ network_disconnect(network(e).name, c)
              /\ Goto(e, "unlist")
              /\ UNCHANGED frame
           \/ /\ ~CanDisconnect(network(e).name, c)
              /\ NextContainer(e, [frame[e] EXCEPT !.failed = TRUE])
              /\ UNCHANGED dockerVars
        /\ UNCHANGED tableVars

\* ... and each is taken from the object afterwards.
Unlist(e) ==
    /\ pc[e] = "unlist"
    /\ objects' = [objects EXCEPT ![frame[e].object].connected = Without(@, current(e))]
    /\ NextContainer(e, frame[e])
    /\ UNCHANGED <<networks, dockerVars>>

\* Mutant: a network that was removed is not taken from the table.
DeleteOnly(e) ==
    /\ pc[e] = "delete"
    /\ CanRemove(network(e).name)
    /\ network_rm(network(e).name)
    /\ Return(e)
    /\ UNCHANGED tableVars

DeleteNetwork(e) ==
    /\ pc[e] = "delete"
    /\ \/ /\ CanRemove(network(e).name)
          /\ network_rm(network(e).name)
          /\ Goto(e, "pop")
          /\ UNCHANGED frame
       \/ /\ ~CanRemove(network(e).name)
          /\ Return(e)
          /\ UNCHANGED dockerVars
    /\ UNCHANGED tableVars

PopNetwork(e) ==
    /\ pc[e] = "pop"
    /\ networks' = Without(networks, mapKey(e))
    /\ Return(e)
    /\ UNCHANGED <<objects, dockerVars>>

-----------------------------------------------------------------------------
(***************************************************************************)
(* delay, duplicate, corrupt and loss: four effects that differ in their   *)
(* arguments to tc alone.                                                  *)
(***************************************************************************)
netem(e, action) ==
    /\ Goto(e, "netem")
    /\ frame' = [frame EXCEPT ![e].calls = <<action.container>>]

executeNetemCommandsForNetwork(e) ==
    /\ pc[e] = "netem"
    /\ \/ /\ mapKey(e) \notin DOMAIN networks
          /\ KeyError(e)
       \/ /\ mapKey(e) \in DOMAIN networks
          /\ Goto(e, "keys")
          /\ frame' = [frame EXCEPT ![e].object = networks[mapKey(e)]]
    /\ UNCHANGED <<tableVars, dockerVars>>

\* The containers that are listed now, in any order.
ConnectedContainers(e) ==
    /\ pc[e] = "keys"
    /\ \E list \in SetToSeqs(DOMAIN network(e).connected) :
          IF list = <<>> THEN Return(e)
          ELSE /\ Goto(e, "interface")
               /\ frame' = [frame EXCEPT ![e].left = list]
    /\ UNCHANGED <<tableVars, dockerVars>>

\* executeNetemCommand reads the interface and whether there was an effect before ...
ChooseInterface(e) ==
    /\ pc[e] = "interface"
    /\ \/ /\ current(e) \notin DOMAIN network(e).connected
          /\ KeyError(e)
       \/ /\ current(e) \in DOMAIN network(e).connected
          /\ Goto(e, "mode")
          /\ frame' = [frame EXCEPT ![e].interface = network(e).connected[current(e)]]
    /\ UNCHANGED <<tableVars, dockerVars>>

ChooseCommand(e) ==
    /\ pc[e] = "mode"
    /\ Goto(e, "tc")
    /\ frame' = [frame EXCEPT
          ![e].command = IF current(e) \in network(e).netem THEN "change" ELSE "add"]
    /\ UNCHANGED <<tableVars, dockerVars>>

\* ... executes the command ...
Emulate(e) ==
    LET c == current(e)
        i == frame[e].interface
    IN  /\ pc[e] = "tc"
        /\ \/ /\ tc_succeeds(frame[e].command, c, i)
              /\ tc(c, i)
              /\ Goto(e, "initialized")
              /\ UNCHANGED frame
           \/ /\ ~tc_succeeds(frame[e].command, c, i)
              /\ Loop(e, frame[e], "interface", Return(e))
              /\ UNCHANGED dockerVars
        /\ UNCHANGED tableVars

\* ... and, if it succeeded, notes that there is an effect.
SetNetemInitialized(e) ==
    /\ pc[e] = "initialized"
    /\ objects' = [objects EXCEPT ![frame[e].object].netem = @ \cup {current(e)}]
    /\ Loop(e, frame[e], "interface", Return(e))
    /\ UNCHANGED <<networks, dockerVars>>

-----------------------------------------------------------------------------
callContainers(e, action) ==
    /\ Goto(e, "container")
    /\ frame' = [frame EXCEPT ![e].left = action.container, ![e].command = action.name]

\* startContainer, stopContainer, restartContainer: one command for each.
CallContainers(e) ==
    /\ pc[e] = "container"
    /\ \/ frame[e].command = "startContainer"   /\ start(current(e))
       \/ frame[e].command = "stopContainer"    /\ stop(current(e))
       \/ frame[e].command = "restartContainer" /\ restart(current(e))
    /\ Loop(e, frame[e], "container", Return(e))
    /\ UNCHANGED tableVars

\* deleteAllNetworks, when no other thread is left: every network of the table
\* that can be removed is.
deleteAllNetworks ==
    LET listed == {objects[networks[key]].name : key \in DOMAIN networks}
    IN  docker' = Restrict(docker, DOMAIN docker \ {n \in listed : CanRemove(n)})

NetworkStep(e) ==
    \/ connect(e) \/ InspectNetwork(e) \/ CreateNetwork(e) \/ PutNetwork(e)
    \/ InterfacesBefore(e) \/ Attach(e) \/ InterfacesAfter(e) \/ ListInterface(e)
    \/ disconnect(e) \/ LookUpNetwork(e) \/ Detach(e) \/ Unlist(e)
    \/ DeleteNetwork(e) \/ PopNetwork(e)
    \/ executeNetemCommandsForNetwork(e) \/ ConnectedContainers(e) \/ ChooseInterface(e)
    \/ ChooseCommand(e) \/ Emulate(e) \/ SetNetemInitialized(e)
    \/ CallContainers(e)

=============================================================================
