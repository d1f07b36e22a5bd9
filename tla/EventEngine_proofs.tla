------------------------- MODULE EventEngine_proofs -------------------------
(***************************************************************************)
(* The order of events, for any events, dependencies, commands and         *)
(* actions, and whatever docker does; and, where events that would meet at *)
(* a container wait for one another, the table of networks and the         *)
(* interfaces it leads to.                                                 *)
(***************************************************************************)
EXTENDS EventEngine, SequenceTheorems, FiniteSetTheorems, TLAPS

OrderVars == <<{e \in Events : pc[e] # "dependOn"}, threadsFinished,
               {e \in Events : pc[e] = "aborted"}, dockerVars>>

\* The inductive invariant: a flag is set by a thread at its end, and who is
\* past its dependencies, aborted or not, has seen all their flags.
OInv ==
    /\ pc = [e \in Events |-> pc[e]]
    /\ todo = [e \in Events |-> todo[e]]
    /\ threadsFinished = {e \in Events : pc[e] = "finished"}
    /\ \A e \in threadsFinished : todo[e] = {}
    /\ \A e \in Events : pc[e] # "dependOn" => DependOn[e] \subseteq threadsFinished
    /\ main # "join" => \A e \in Events : Ended(e)

\* Inside an action a thread changes no label but its own; only a KeyError ends
\* it, and that changes nothing in docker.
Moves(e) ==
    /\ pc[e] \notin {"dependOn", "finished", "aborted"}
    /\ \E label : label \notin {"dependOn", "finished"} /\ pc' = [pc EXCEPT ![e] = label]
    /\ pc'[e] = "aborted" => UNCHANGED dockerVars

-----------------------------------------------------------------------------
LEMMA EngineInit == Init => OInv
  BY EventsAssumption DEF Init, OInv, Ended

\* The steps of an action.
LEMMA NetworkMoves ==
    ASSUME OInv, NEW e \in Events, NetworkStep(e)
    PROVE  Moves(e)
<1>1. \A label : [pc EXCEPT ![e] = label][e] = label
  BY DEF OInv
<1>2. pc = [pc EXCEPT ![e] = pc[e]]
  BY DEF OInv
<1> USE DEF Moves, Goto, Return, Call, NextCall, Loop
<1>3. CASE connect(e)
  BY <1>1, <1>3 DEF connect
<1>4. CASE InspectNetwork(e)
  BY <1>1, <1>2, <1>4 DEF InspectNetwork
<1>5. CASE CreateNetwork(e)
  BY <1>1, <1>5 DEF CreateNetwork
<1>6. CASE PutNetwork(e)
  BY <1>1, <1>6 DEF PutNetwork
<1>7. CASE InterfacesBefore(e)
  BY <1>1, <1>7 DEF InterfacesBefore
<1>8. CASE Attach(e)
  BY <1>1, <1>8 DEF Attach
<1>9. CASE InterfacesAfter(e)
  BY <1>1, <1>9 DEF InterfacesAfter
<1>10. CASE ListInterface(e)
  BY <1>1, <1>10 DEF ListInterface, KeyError
<1>11. CASE disconnect(e) \/ LookUpNetwork(e)
  BY <1>1, <1>11 DEF disconnect, LookUpNetwork, KeyError
<1>12. CASE Detach(e) \/ Unlist(e)
  BY <1>1, <1>12 DEF Detach, Unlist, NextContainer
<1>13. CASE DeleteNetwork(e) \/ PopNetwork(e)
  BY <1>1, <1>13 DEF DeleteNetwork, PopNetwork
<1>14. CASE executeNetemCommandsForNetwork(e) \/ ConnectedContainers(e)
  BY <1>1, <1>14 DEF executeNetemCommandsForNetwork, ConnectedContainers, KeyError
<1>15. CASE ChooseInterface(e) \/ ChooseCommand(e)
  BY <1>1, <1>15 DEF ChooseInterface, ChooseCommand, KeyError
<1>16. CASE Emulate(e) \/ SetNetemInitialized(e)
  BY <1>1, <1>16 DEF Emulate, SetNetemInitialized
<1>17. CASE CallContainers(e)
  BY <1>1, <1>17 DEF CallContainers
<1> QED
  BY <1>3, <1>4, <1>5, <1>6, <1>7, <1>8, <1>9, <1>10, <1>11, <1>12, <1>13, <1>14,
     <1>15, <1>16, <1>17 DEF NetworkStep

LEMMA TimerMoves ==
    ASSUME OInv, NEW e \in Events, TimerStep(e)
    PROVE  Moves(e) /\ UNCHANGED dockerVars
<1>1. \A label : [pc EXCEPT ![e] = label][e] = label
  BY DEF OInv
<1> USE DEF Moves, Goto, Return, Loop, UntouchedByTimers
<1>2. CASE startTimer(e)
  BY <1>1, <1>2 DEF startTimer
<1>3. CASE LookUpTimer(e)
  BY <1>1, <1>3 DEF LookUpTimer, Printed
<1>4. CASE ReadTimer(e)
  BY <1>1, <1>4 DEF ReadTimer, Printed, KeyError
<1>5. CASE PopTimer(e)
  BY <1>1, <1>5 DEF PopTimer
<1> QED
  BY <1>2, <1>3, <1>4, <1>5 DEF TimerStep

\* An action that is begun.
LEMMA DoMoves ==
    ASSUME OInv, NEW e \in Events, DoAction(e)
    PROVE  /\ Moves(e) /\ UNCHANGED <<dockerVars, threadsFinished, main>>
           /\ todo' = [todo EXCEPT ![e] = todo'[e]]
<1>1. \A label : [pc EXCEPT ![e] = label][e] = label
  BY DEF OInv
<1>2. PICK action \in todo[e] : /\ todo' = [todo EXCEPT ![e] = @ \ {action}]
                                /\ executeAction(e, action)
  BY DEF DoAction
<1>3. pc[e] = "do" /\ UNCHANGED <<dockerVars, threadsFinished, main>>
  BY DEF DoAction, simulatorVars
<1>4. \E label : label \notin {"dependOn", "finished", "aborted"} /\ pc' = [pc EXCEPT ![e] = label]
  BY <1>2 DEF executeAction, join, Call, cut, netem, callContainers, timer, Goto
<1>5. todo' = [todo EXCEPT ![e] = todo'[e]]
  BY <1>2 DEF OInv
<1> QED
  BY <1>1, <1>3, <1>4, <1>5 DEF Moves

-----------------------------------------------------------------------------
(* The two things to know of a step: that it keeps the invariant and that   *)
(* it is one of the abstract order.                                         *)

\* A step inside an action is an Act, an Abort or none.
LEMMA MovesKeep ==
    ASSUME OInv, NEW e \in Events, Moves(e), UNCHANGED <<threadsFinished, main>>,
           todo' = [todo EXCEPT ![e] = todo'[e]]
    PROVE  OInv' /\ [Order!Next]_OrderVars
<1>1. PICK label : label \notin {"dependOn", "finished"} /\ pc' = [pc EXCEPT ![e] = label]
  BY DEF Moves
<1>2. pc'[e] = label /\ \A f \in Events \ {e} : pc'[f] = pc[f]
  BY <1>1 DEF OInv
<1>3. pc' = [f \in Events |-> pc'[f]] /\ todo' = [f \in Events |-> todo'[f]]
  BY <1>1 DEF OInv
<1>4. \A f \in Events \ {e} : todo'[f] = todo[f]
  BY DEF OInv
<1>5. pc[e] \notin {"dependOn", "finished", "aborted"}
  BY DEF Moves
<1>6. e \notin threadsFinished /\ threadsFinished \subseteq Events
  BY <1>5 DEF OInv
<1>7. threadsFinished' = {f \in Events : pc'[f] = "finished"}
  BY <1>1, <1>2, <1>5 DEF OInv
<1>8. \A f \in threadsFinished : todo'[f] = {}
  BY <1>4, <1>6 DEF OInv
<1>9. \A f \in Events : pc'[f] # "dependOn" => DependOn[f] \subseteq threadsFinished
  BY <1>1, <1>2, <1>5 DEF OInv
<1>10. main = "join"
  BY <1>5 DEF OInv, Ended
<1>11. OInv'
  BY <1>3, <1>7, <1>8, <1>9, <1>10 DEF OInv
<1>12. {f \in Events : pc'[f] # "dependOn"} = {f \in Events : pc[f] # "dependOn"}
  BY <1>1, <1>2, <1>5
<1>13. e \in Order!Active
  BY <1>5, <1>6 DEF Order!Active
<1>14. CASE label = "aborted"
  <2>1. {f \in Events : pc'[f] = "aborted"} = {f \in Events : pc[f] = "aborted"} \cup {e}
    BY <1>2, <1>14
  <2>2. UNCHANGED dockerVars
    BY <1>2, <1>14 DEF Moves
  <2>3. Order!Abort(e)
    BY <1>12, <1>13, <2>1, <2>2 DEF Order!Abort
  <2> QED
    BY <1>11, <2>3 DEF Order!Next
<1>15. CASE label # "aborted"
  <2>1. {f \in Events : pc'[f] = "aborted"} = {f \in Events : pc[f] = "aborted"}
    BY <1>2, <1>5, <1>15
  <2>2. Order!Act
    BY <1>12, <1>13, <2>1 DEF Order!Act
  <2> QED
    BY <1>11, <2>2 DEF Order!Next
<1> QED
  BY <1>14, <1>15

LEMMA WaitKeeps ==
    ASSUME OInv, NEW e \in Events, WaitForEvents(e)
    PROVE  OInv' /\ [Order!Next]_OrderVars
<1>1. /\ pc[e] = "dependOn" /\ DependOn[e] \subseteq threadsFinished
      /\ pc' = [pc EXCEPT ![e] = "commands"]
      /\ UNCHANGED <<dockerVars, threadsFinished, todo, main>>
  BY DEF WaitForEvents, Goto, simulatorVars, engineVars
<1>2. pc'[e] = "commands" /\ \A f \in Events \ {e} : pc'[f] = pc[f]
  BY <1>1 DEF OInv
<1>3. pc' = [f \in Events |-> pc'[f]]
  BY <1>1 DEF OInv
<1>4. threadsFinished = {f \in Events : pc'[f] = "finished"}
  BY <1>1, <1>2 DEF OInv
<1>5. \A f \in Events : pc'[f] # "dependOn" => DependOn[f] \subseteq threadsFinished
  BY <1>1, <1>2 DEF OInv
<1>6. main = "join"
  BY <1>1 DEF OInv, Ended
<1>7. OInv'
  BY <1>1, <1>3, <1>4, <1>5, <1>6 DEF OInv
<1>8. /\ {f \in Events : pc'[f] # "dependOn"} = {f \in Events : pc[f] # "dependOn"} \cup {e}
      /\ {f \in Events : pc'[f] = "aborted"} = {f \in Events : pc[f] = "aborted"}
  BY <1>1, <1>2
<1>9. Order!Start(e)
  BY <1>1, <1>8 DEF Order!Start
<1> QED
  BY <1>7, <1>9 DEF Order!Next

LEMMA CommandKeeps ==
    ASSUME OInv, NEW e \in Events, Command(e)
    PROVE  OInv' /\ [Order!Next]_OrderVars
<1>1. /\ pc[e] = "commands"
      /\ UNCHANGED <<dockerVars, threadsFinished, todo, main>>
      /\ \/ UNCHANGED pc
         \/ pc' = [pc EXCEPT ![e] = "aborted"]
         \/ pc' = [pc EXCEPT ![e] = "do"]
  BY DEF Command, Goto, simulatorVars
<1>2. CASE UNCHANGED pc
  BY <1>1, <1>2 DEF OInv, Ended, OrderVars
<1>3. ASSUME NEW label \in {"aborted", "do"}, pc' = [pc EXCEPT ![e] = label]
      PROVE  Moves(e)
  BY <1>1, <1>3 DEF Moves
<1>4. todo' = [todo EXCEPT ![e] = todo'[e]]
  BY <1>1 DEF OInv
<1> QED
  BY <1>1, <1>2, <1>3, <1>4, MovesKeep

LEMMA FinishKeeps ==
    ASSUME OInv, NEW e \in Events, Finish(e)
    PROVE  OInv' /\ [Order!Next]_OrderVars
<1>1. /\ pc[e] = "do" /\ todo[e] = {}
      /\ pc' = [pc EXCEPT ![e] = "finished"]
      /\ threadsFinished' = threadsFinished \cup {e}
      /\ UNCHANGED <<dockerVars, todo, main>>
  BY DEF Finish, Goto, simulatorVars
<1>2. pc'[e] = "finished" /\ \A f \in Events \ {e} : pc'[f] = pc[f]
  BY <1>1 DEF OInv
<1>3. pc' = [f \in Events |-> pc'[f]]
  BY <1>1 DEF OInv
<1>4. threadsFinished' = {f \in Events : pc'[f] = "finished"}
  BY <1>1, <1>2 DEF OInv
<1>5. \A f \in Events : pc'[f] # "dependOn" => DependOn[f] \subseteq threadsFinished'
  BY <1>1, <1>2 DEF OInv
<1>6. main = "join"
  BY <1>1 DEF OInv, Ended
<1>7. OInv'
  BY <1>1, <1>3, <1>4, <1>5, <1>6 DEF OInv
<1>8. /\ {f \in Events : pc'[f] # "dependOn"} = {f \in Events : pc[f] # "dependOn"}
      /\ {f \in Events : pc'[f] = "aborted"} = {f \in Events : pc[f] = "aborted"}
  BY <1>1, <1>2
<1>9. e \in Order!Active
  BY <1>1 DEF OInv, Order!Active
<1>10. Order!Finish(e)
  BY <1>1, <1>8, <1>9 DEF Order!Finish
<1> QED
  BY <1>7, <1>10 DEF Order!Next

LEMMA MainKeeps ==
    ASSUME OInv, Main
    PROVE  OInv' /\ [Order!Next]_OrderVars
<1>1. /\ UNCHANGED <<pc, threadsFinished, todo>>
      /\ \A e \in Events : Ended(e)
  BY DEF Main, TearDown, DeleteNetworks, OInv
<1>2. OInv'
  BY <1>1 DEF OInv, Ended
<1>3. threadsFinished \cup {e \in Events : pc[e] = "aborted"} = Events
  BY <1>1 DEF OInv, Ended
<1>4. Order!TearDown
  BY <1>1, <1>3 DEF Order!TearDown
<1> QED
  BY <1>2, <1>4 DEF Order!Next

LEMMA EngineNext == OInv /\ [Next]_vars => OInv' /\ [Order!Next]_OrderVars
<1> SUFFICES ASSUME OInv, [Next]_vars PROVE OInv' /\ [Order!Next]_OrderVars
  OBVIOUS
<1>1. ASSUME NEW e \in Events, Worker(e)
      PROVE  OInv' /\ [Order!Next]_OrderVars
  <2>1. todo' = todo => todo' = [todo EXCEPT ![e] = todo'[e]]
    BY DEF OInv
  <2>2. CASE NetworkStep(e) /\ UNCHANGED <<currentTimers, engineVars>>
    BY <2>1, <2>2, NetworkMoves, MovesKeep DEF engineVars
  <2>3. CASE TimerStep(e) /\ UNCHANGED engineVars
    BY <2>1, <2>3, TimerMoves, MovesKeep DEF engineVars
  <2>4. CASE DoAction(e)
    BY <2>4, DoMoves, MovesKeep
  <2> QED
    BY <1>1, <2>2, <2>3, <2>4, WaitKeeps, CommandKeeps, FinishKeeps DEF Worker
<1>2. CASE UNCHANGED vars
  BY <1>2 DEF vars, engineVars, simulatorVars, OInv, Ended, OrderVars
<1> QED
  BY <1>1, <1>2, MainKeeps DEF Next

-----------------------------------------------------------------------------
(* The theorems. *)

\* All of the invariant holds in every state of every behaviour.
THEOREM EngineInvariance == Spec => []OInv
  BY EngineInit, EngineNext, PTL DEF Spec

\* No event acts before all it depends on have finished and acted in full.
THEOREM DependenciesFirst == Spec => []DependenciesActFirst
<1>1. OInv => DependenciesActFirst
  BY DEF OInv, DependenciesActFirst
<1> QED
  BY <1>1, EngineInvariance, PTL

\* The threads implement the abstract order of events: every step of one begins,
\* finishes or aborts an event, acts for one that is under way, or tears down.
THEOREM OrderRefinement == Spec => ImplementsEventOrder
<1>1. Init => Order!Init
  BY DEF Init, Order!Init
<1>2. OInv /\ [Next]_vars => [Order!Next]_OrderVars
  BY EngineNext
<1> QED
  BY <1>1, <1>2, EngineInvariance, PTL DEF Spec, ImplementsEventOrder, Order!Spec, OrderVars

-----------------------------------------------------------------------------
(* The table of networks and docker's.                                      *)

Joining == {"connect", "inspect", "create", "put", "before", "attach", "after", "list"}
Cutting == {"disconnect", "lookup", "detach", "unlist", "delete", "pop"}

\* Docker and the table differ by the network of such a thread.
Between == {"put", "pop"}

\* What tells an object of the table from others, and its name, never change.
Shapes ==
    /\ frame = [e \in Events |-> frame[e]]
    /\ \A e \in Events : DOMAIN frame[e] = DOMAIN NoCall
    /\ objects \in Seq(Range(objects))
    /\ \A i \in 1 .. Len(objects) : DOMAIN objects[i] = DOMAIN NewNetwork(0)
    /\ networks = [key \in DOMAIN networks |-> networks[key]]
    /\ \A key \in DOMAIN networks : networks[key] \in 1 .. Len(objects)
    /\ docker = [name \in DOMAIN docker |-> docker[name]]

\* A thread in join or cut works for one of its event's lists; one about to
\* create a network has found none in the table, one about to remove a network
\* has found that one there.
Calling(e) ==
    /\ pc[e] \in Joining => frame[e].calls \in Seq(Joins(e)) /\ frame[e].calls # <<>>
    /\ pc[e] \in Cutting => frame[e].calls \in Seq(Cuts(e)) /\ frame[e].calls # <<>>
    /\ pc[e] \in {"inspect", "create", "put"} => mapKey(e) \notin DOMAIN networks
    /\ pc[e] \in {"detach", "unlist", "delete", "pop"} =>
           mapKey(e) \in DOMAIN networks /\ networks[mapKey(e)] = frame[e].object

\* The keys of networks that are removed but still in the table.
Stale == {mapKey(e) : e \in {f \in Events : pc[f] = "pop"}}

name_of(key) == objects[networks[key]].name

\* The names of networks that are created but not yet in it.
Fresh == {frame[e].name : e \in {f \in Events : pc[f] = "put"}}

\* The other keys of the table, and these names, stand for docker's networks, one
\* for each.
Matching ==
    /\ {name_of(key) : key \in DOMAIN networks \ Stale} \cup Fresh = DOMAIN docker
    /\ \A k, l \in DOMAIN networks \ Stale : name_of(k) = name_of(l) => k = l
    /\ \A key \in DOMAIN networks \ Stale : name_of(key) \notin Fresh
    /\ \A d, e \in Events :
           pc[d] = "put" /\ pc[e] = "put" /\ frame[d].name = frame[e].name => d = e

\* The inductive invariant of the table.
TInv ==
    /\ OInv
    /\ Shapes
    /\ \A e \in Events : todo[e] \subseteq Do[e] /\ Calling(e)
    /\ main \in {"join", "delete", "ended"}
    /\ main # "ended" => Matching
    /\ main # "join" => running = {}
    /\ main = "delete" => \A name \in DOMAIN docker : docker[name] = {}
    /\ main = "ended" => docker = Empty

-----------------------------------------------------------------------------
(* A step that neither creates nor removes a network nor ends its removal.  *)

SameObjects ==
    /\ objects' \in Seq(Range(objects'))
    /\ Len(objects') = Len(objects)
    /\ \A i \in 1 .. Len(objects) : /\ DOMAIN objects'[i] = DOMAIN NewNetwork(0)
                                    /\ objects'[i].name = objects[i].name

Only(e) ==
    /\ \E label : pc' = [pc EXCEPT ![e] = label]
    /\ \E f : frame' = [frame EXCEPT ![e] = f] /\ DOMAIN f = DOMAIN NoCall

SameTable ==
    /\ networks' = networks
    /\ SameObjects
    /\ docker' = [name \in DOMAIN docker |-> docker'[name]]

Quiet(e) ==
    /\ Only(e)
    /\ SameTable
    /\ Calling(e)'
    /\ pc[e] \notin Between /\ pc'[e] \notin Between

\* Whatever is set in an object but its name.
LEMMA SetObject ==
    ASSUME Shapes, NEW i, NEW v, objects' = [objects EXCEPT ![i] = v],
           i \in 1 .. Len(objects) => /\ DOMAIN v = DOMAIN NewNetwork(0)
                                      /\ v.name = objects[i].name
    PROVE  SameObjects
<1>1. objects \in Seq(Range(objects)) /\ \A j \in 1 .. Len(objects) : DOMAIN objects[j] = DOMAIN NewNetwork(0)
  BY DEF Shapes
<1>2. /\ Len(objects) \in Nat /\ DOMAIN objects = 1 .. Len(objects)
      /\ objects = [j \in DOMAIN objects |-> objects[j]]
  BY <1>1, LenProperties
<1>3. CASE i \in 1 .. Len(objects)
  <2> DEFINE S == Range(objects) \cup {v}
  <2>1. objects \in Seq(S)
    BY <1>1, SeqMonotonic
  <2>2. /\ objects' \in Seq(S) /\ Len(objects') = Len(objects)
        /\ \A j \in 1 .. Len(objects) : objects'[j] = IF j = i THEN v ELSE objects[j]
    BY <1>3, <2>1, ExceptSeq
  <2>3. objects' \in Seq(Range(objects'))
    BY <2>2, SeqOfRange
  <2> QED
    BY <1>1, <1>3, <2>2, <2>3 DEF SameObjects
<1>4. CASE i \notin 1 .. Len(objects)
  <2>1. objects' = objects
    BY <1>2, <1>4
  <2> QED
    BY <1>1, <2>1 DEF SameObjects
<1> QED
  BY <1>3, <1>4

LEMMA KeepObjects ==
    ASSUME Shapes, objects' = objects
    PROVE  SameObjects
  BY DEF Shapes, SameObjects

LEMMA QuietKeeps ==
    ASSUME TInv, OInv', NEW e \in Events, Quiet(e), main = "join", main' = "join",
           \A f \in Events : todo'[f] \subseteq todo[f]
    PROVE  TInv'
<1>1. PICK label : pc' = [pc EXCEPT ![e] = label]
  BY DEF Quiet, Only
<1>2. PICK g : frame' = [frame EXCEPT ![e] = g] /\ DOMAIN g = DOMAIN NoCall
  BY DEF Quiet, Only
<1>3. /\ pc = [f \in Events |-> pc[f]] /\ frame = [f \in Events |-> frame[f]]
      /\ \A f \in Events \ {e} : pc'[f] = pc[f] /\ frame'[f] = frame[f]
      /\ frame'[e] = g
  BY <1>1, <1>2 DEF TInv, OInv, Shapes
<1>4. networks' = networks /\ SameObjects /\ Calling(e)' /\ DOMAIN docker' = DOMAIN docker
  BY DEF Quiet, SameTable
<1>5. \A f \in Events \ {e} : Calling(f)'
  BY <1>3, <1>4 DEF TInv, Calling, mapKey, containers
<1>6. Shapes'
  <2>1. frame' = [f \in Events |-> frame'[f]] /\ \A f \in Events : DOMAIN frame'[f] = DOMAIN NoCall
    BY <1>2, <1>3 DEF TInv, Shapes
  <2>2. docker' = [name \in DOMAIN docker' |-> docker'[name]]
    BY DEF Quiet, SameTable
  <2> QED
    BY <1>4, <2>1, <2>2 DEF TInv, Shapes, SameObjects, NewNetwork
<1>7. Stale' = Stale /\ Fresh' = Fresh
  <2>1. /\ {f \in Events : pc'[f] = "pop"} = {f \in Events : pc[f] = "pop"}
        /\ {f \in Events : pc'[f] = "put"} = {f \in Events : pc[f] = "put"}
    BY <1>3 DEF Quiet, Between
  <2>2. \A f \in {h \in Events : pc[h] = "pop"} : mapKey(f)' = mapKey(f)
    BY <1>3 DEF Quiet, Between, mapKey, containers
  <2>3. \A f \in {h \in Events : pc[h] = "put"} : frame'[f].name = frame[f].name
    BY <1>3 DEF Quiet, Between
  <2> QED
    BY <2>1, <2>2, <2>3 DEF Stale, Fresh
<1>8. \A key \in DOMAIN networks : name_of(key)' = name_of(key)
  BY <1>4 DEF TInv, Shapes, SameObjects, name_of
<1>9. \A d \in Events : pc'[d] = "put" => pc[d] = "put" /\ frame'[d].name = frame[d].name
  BY <1>3 DEF Quiet, Between
<1>10. Matching'
  <2>1. \A d, f \in Events : pc'[d] = "put" /\ pc'[f] = "put" /\ frame'[d].name = frame'[f].name => d = f
    BY <1>9 DEF TInv, Matching
  <2> DEFINE Old == DOMAIN networks \ Stale
  <2>2. /\ {name_of(key) : key \in Old} \cup Fresh = DOMAIN docker
        /\ \A k, l \in Old : name_of(k) = name_of(l) => k = l
        /\ \A key \in Old : name_of(key) \notin Fresh
    BY DEF TInv, Matching
  <2>3. DOMAIN networks' \ Stale' = Old /\ \A key \in Old : name_of(key)' = name_of(key)
    BY <1>4, <1>7, <1>8
  <2> HIDE DEF Old
  <2>4. /\ {name_of(key)' : key \in Old} = {name_of(key) : key \in Old}
        /\ \A k, l \in Old : name_of(k)' = name_of(l)' => k = l
        /\ \A key \in Old : name_of(key)' \notin Fresh
    BY <2>2, <2>3
  <2> QED
    BY <1>4, <1>7, <2>1, <2>2, <2>3, <2>4 DEF Matching
<1> QED
  BY <1>4, <1>5, <1>6, <1>10 DEF TInv

-----------------------------------------------------------------------------
(* The steps of join, cut and the rest, for the table.                      *)

\* Active(e): its thread is past the events it depends on and has not ended.
Active(e) == pc[e] \notin {"dependOn", "finished", "aborted"}

\* What is true when one of two events waits for the other.
LEMMA OneIsOver ==
    ASSUME OInv, NEW d \in Events, NEW e \in Events, Before(d, e), d # e, Active(e)
    PROVE  ~Active(d)
<1> DEFINE S == threadsFinished \cup {e}
<1>1. threadsFinished = {f \in Events : pc[f] = "finished"}
  BY DEF OInv
<1>2. \A f \in S : pc[f] # "dependOn" /\ f \in Events
  BY <1>1 DEF Active
<1>3. \A f \in S : DependOn[f] \subseteq S
  BY <1>2 DEF OInv
<1>4. S \in SUBSET Events /\ e \in S
  BY <1>2
<1>5. d \in S
  BY <1>3, <1>4 DEF Before
<1> QED
  BY <1>1, <1>5 DEF Active

\* No two threads work for one key.
LEMMA Apart ==
    ASSUME OneAtATime, TInv, NEW d \in Events, NEW e \in Events, d # e,
           \/ pc[d] \in Joining /\ pc[e] \in Joining
           \/ pc[d] \in Cutting /\ pc[e] \in Cutting
    PROVE  mapKey(d) # mapKey(e)
<1> SUFFICES ASSUME mapKey(d) = mapKey(e) PROVE FALSE
  OBVIOUS
<1>1. Active(d) /\ Active(e)
  BY DEF Active, Joining, Cutting
<1>2. \A f \in Events : Calling(f)
  BY DEF TInv
<1>3. \A f \in Events : pc[f] \in Joining => mapKey(f) \in JoinKeys(f)
  BY <1>2, HeadTailProperties DEF Calling, mapKey, containers, JoinKeys
<1>4. \A f \in Events : pc[f] \in Cutting => mapKey(f) \in CutKeys(f)
  BY <1>2, HeadTailProperties DEF Calling, mapKey, containers, CutKeys
<1>5. Before(d, e) \/ Before(e, d)
  BY <1>3, <1>4 DEF OneAtATime
<1> QED
  BY <1>1, <1>5, OneIsOver DEF TInv

\* The connections of a join are a sequence of lists of its event.
LEMMA ConnectionsOfJoin ==
    ASSUME NEW e \in Events, NEW action \in Do[e], action.name = "join"
    PROVE  connections(action) \in Seq(Joins(e))
<1> DEFINE list == action.container
           row  == [i \in 1 .. Len(list) - 1 |-> SubSeq(list, i, i + 1)]
<1>1. action.mode \in {"cluster", "row", "ring"} /\ list \in Seq(Containers)
  BY EventsAssumption
<1>2. Len(list) \in Nat
  BY <1>1, LenProperties
<1> DEFINE L == {SubSeq(list, i, i + 1) : i \in 1 .. Len(list) - 1}
                  \cup {list, <<list[1], Last(list)>>}
<1>3. connections(action) \in Seq(L)
  <2>1. CASE action.mode = "cluster"
    <3>1. connections(action) = <<list>>
      BY <2>1 DEF connections
    <3>2. list \in L
      OBVIOUS
    <3> HIDE DEF L
    <3> QED
      BY <3>1, <3>2
  <2>2. row \in Seq(L)
    <3>1. CASE Len(list) = 0
      <4>1. row = <<>>
        BY <3>1
      <4> QED
        BY <4>1, EmptySeq
    <3>2. CASE Len(list) # 0
      <4>1. Len(list) - 1 \in Nat
        BY <1>2, <3>2
      <4>2. row \in [1 .. Len(list) - 1 -> L]
        OBVIOUS
      <4> HIDE DEF L, row
      <4> QED
        BY <4>1, <4>2
    <3> QED
      BY <3>1, <3>2
  <2>3. CASE action.mode = "row"
    BY <2>2, <2>3 DEF connections
  <2>4. CASE action.mode = "ring"
    <3>1. connections(action) = Append(row, <<list[1], Last(list)>>)
      BY <2>4 DEF connections
    <3>2. <<list[1], Last(list)>> \in L
      OBVIOUS
    <3> HIDE DEF L, row
    <3> QED
      BY <2>2, <3>1, <3>2, AppendProperties
  <2> QED
    BY <1>1, <2>1, <2>3, <2>4
<1>4. connections(action) \in Seq(Range(connections(action)))
  BY <1>3, SeqOfRange
<1>5. Range(connections(action)) = ToSet(connections(action))
  BY DEF Range, ToSet
<1>6. ToSet(connections(action)) \subseteq Joins(e)
  BY DEF Joins
<1> QED
  BY <1>4, <1>5, <1>6, SeqMonotonic

\* A thread may come to this label, with these locals, without a step between the
\* table and docker.
Follows(e, label, f) ==
    /\ pc[e] \notin Between /\ label \notin Between
    /\ label \in Joining => pc[e] \in Joining /\ f.calls = frame[e].calls
    /\ label \in Cutting => pc[e] \in Cutting /\ f.calls = frame[e].calls
    /\ label \in {"inspect", "create"} => mapKey(e) \notin DOMAIN networks
    /\ label \in {"detach", "unlist", "delete"} =>
           mapKey(e) \in DOMAIN networks /\ networks[mapKey(e)] = f.object

\* A thread goes on with the same list, or leaves join and cut.
LEMMA GoesOn ==
    ASSUME TInv, NEW e \in Events, NEW label, NEW f, SameTable, Follows(e, label, f),
           pc' = [pc EXCEPT ![e] = label],
           frame' = [frame EXCEPT ![e] = f], DOMAIN f = DOMAIN NoCall
    PROVE  Quiet(e)
<1>1. pc'[e] = label /\ frame'[e] = f
  BY DEF TInv, OInv, Shapes
<1>2. networks' = networks
  BY DEF SameTable
<1>3. label \in Joining \cup Cutting => mapKey(e)' = mapKey(e)
  BY <1>1 DEF mapKey, containers, Follows
<1>4. Calling(e)
  BY DEF TInv
<1>5. Calling(e)'
  BY <1>1, <1>2, <1>3, <1>4 DEF Calling, Joining, Cutting, Between, Follows
<1> QED
  BY <1>1, <1>5 DEF Quiet, Only, Follows

\* The next call of connect.
LEMMA CallsNext ==
    ASSUME TInv, NEW e \in Events, pc[e] \notin Between, SameTable,
           NEW calls \in Seq(Joins(e)), Call(e, calls)
    PROVE  Quiet(e)
<1> DEFINE label == IF calls = <<>> THEN "do" ELSE "connect"
           f     == [NoCall EXCEPT !.calls = calls]
<1>1. pc' = [pc EXCEPT ![e] = label] /\ frame' = [frame EXCEPT ![e] = f]
  BY DEF Call, Goto
<1>2. DOMAIN f = DOMAIN NoCall /\ f.calls = calls
  BY DEF NoCall
<1> HIDE DEF f
<1>3. pc'[e] = label /\ frame'[e].calls = calls
  BY <1>1, <1>2 DEF TInv, OInv, Shapes
<1>4. Calling(e)'
  BY <1>3 DEF Calling, Joining, Cutting
<1>5. Only(e)
  BY <1>1, <1>2 DEF Only
<1>6. pc'[e] \notin Between
  BY <1>3 DEF Between
<1> QED
  BY <1>4, <1>5, <1>6 DEF Quiet

LEMMA NextCallQuiet ==
    ASSUME TInv, NEW e \in Events, pc[e] \in Joining \ Between, SameTable, NextCall(e)
    PROVE  Quiet(e)
<1>1. frame[e].calls \in Seq(Joins(e)) /\ frame[e].calls # <<>>
  BY DEF TInv, Calling
<1>2. Tail(frame[e].calls) \in Seq(Joins(e))
  BY <1>1, HeadTailProperties
<1> QED
  BY <1>2, CallsNext DEF NextCall, Joining, Between

\* An action ends, or its thread does.
LEMMA LeavesQuiet ==
    ASSUME TInv, NEW e \in Events, pc[e] \notin Between, SameTable, Return(e) \/ KeyError(e)
    PROVE  Quiet(e)
<1>1. PICK label \in {"do", "aborted"} : /\ pc' = [pc EXCEPT ![e] = label]
                                         /\ frame' = [frame EXCEPT ![e] = NoCall]
  BY DEF Return, KeyError, Goto
<1>20. Follows(e, label, NoCall)
  BY <1>1 DEF Follows, Joining, Cutting, Between
<1> QED
  BY <1>1, <1>20, GoesOn

\* Tables that do not change.
LEMMA TableStays ==
    ASSUME TInv, UNCHANGED <<tableVars, docker>>
    PROVE  SameTable
  BY KeepObjects DEF TInv, Shapes, SameTable, tableVars

-----------------------------------------------------------------------------
\* join.
LEMMA ConnectQuiet ==
    ASSUME TInv, NEW e \in Events, connect(e)
    PROVE  Quiet(e)
<1>1. SameTable /\ pc[e] = "connect"
  BY TableStays DEF connect, dockerVars
<1>2. CASE NextCall(e)
  BY <1>1, <1>2, NextCallQuiet DEF Joining, Between
<1>3. CASE mapKey(e) \notin DOMAIN networks /\ Goto(e, "inspect") /\ UNCHANGED frame
  <2>1. frame' = [frame EXCEPT ![e] = frame[e]] /\ DOMAIN frame[e] = DOMAIN NoCall
    BY <1>3 DEF TInv, Shapes
  <2>20. Follows(e, "inspect", frame[e])
    BY <1>1, <1>3, <2>1 DEF Follows, Joining, Cutting, Between
  <2> QED
    BY <1>1, <1>3, <2>1, <2>20, GoesOn DEF Goto
<1> QED
  BY <1>2, <1>3 DEF connect

LEMMA InspectQuiet ==
    ASSUME TInv, NEW e \in Events, InspectNetwork(e)
    PROVE  Quiet(e)
<1>1. SameTable /\ pc[e] = "inspect"
  BY TableStays DEF InspectNetwork, dockerVars
<1>2. mapKey(e) \notin DOMAIN networks /\ DOMAIN frame[e] = DOMAIN NoCall
  BY <1>1 DEF TInv, Shapes, Calling
<1>3. CASE frame' = [frame EXCEPT ![e].name = @ + 1] /\ UNCHANGED pc
  <2> DEFINE f == [frame[e] EXCEPT !.name = @ + 1]
  <2>1. frame' = [frame EXCEPT ![e] = f] /\ pc' = [pc EXCEPT ![e] = "inspect"]
    BY <1>1, <1>3 DEF TInv, OInv
  <2>2. DOMAIN f = DOMAIN NoCall /\ f.calls = frame[e].calls
    BY <1>2 DEF NoCall
  <2> HIDE DEF f
  <2>20. Follows(e, "inspect", f)
    BY <1>1, <1>2, <2>1, <2>2 DEF Follows, Joining, Cutting, Between
  <2> QED
    BY <1>1, <1>2, <2>1, <2>2, <2>20, GoesOn
<1>4. CASE Goto(e, "create") /\ UNCHANGED frame
  <2>1. frame' = [frame EXCEPT ![e] = frame[e]]
    BY <1>4 DEF TInv, Shapes
  <2>20. Follows(e, "create", frame[e])
    BY <1>1, <1>2, <1>4, <2>1 DEF Follows, Joining, Cutting, Between
  <2> QED
    BY <1>1, <1>2, <1>4, <2>1, <2>20, GoesOn DEF Goto
<1> QED
  BY <1>3, <1>4 DEF InspectNetwork

LEMMA BeforeQuiet ==
    ASSUME TInv, NEW e \in Events, InterfacesBefore(e)
    PROVE  Quiet(e)
<1> DEFINE f == [frame[e] EXCEPT !.before = ls(current(e))]
<1>1. SameTable /\ pc[e] = "before" /\ DOMAIN frame[e] = DOMAIN NoCall
  BY TableStays DEF InterfacesBefore, dockerVars, TInv, Shapes
<1>2. frame' = [frame EXCEPT ![e] = f] /\ pc' = [pc EXCEPT ![e] = "attach"]
  BY DEF InterfacesBefore, Goto
<1>3. DOMAIN f = DOMAIN NoCall /\ f.calls = frame[e].calls
  BY <1>1 DEF NoCall
<1> HIDE DEF f
<1>20. Follows(e, "attach", f)
  BY <1>1, <1>2, <1>3 DEF Follows, Joining, Cutting, Between
<1> QED
  BY <1>1, <1>2, <1>3, <1>20, GoesOn

LEMMA AttachQuiet ==
    ASSUME TInv, NEW e \in Events, Attach(e)
    PROVE  Quiet(e)
<1> DEFINE f(failed) == [frame[e] EXCEPT !.failed = failed]
<1>1. pc[e] = "attach" /\ DOMAIN frame[e] = DOMAIN NoCall
  BY DEF Attach, TInv, Shapes
<1>2. SameTable
  BY KeepObjects DEF Attach, network_connect, dockerVars, tableVars, SameTable, TInv, Shapes
<1>3. PICK failed : frame' = [frame EXCEPT ![e] = f(failed)]
  BY DEF Attach
<1>4. pc' = [pc EXCEPT ![e] = "after"]
  BY DEF Attach, Goto
<1>5. DOMAIN f(failed) = DOMAIN NoCall /\ f(failed).calls = frame[e].calls
  BY <1>1 DEF NoCall
<1> HIDE DEF f
<1>20. Follows(e, "after", f(failed))
  BY <1>1, <1>2, <1>3, <1>4, <1>5 DEF Follows, Joining, Cutting, Between
<1> QED
  BY <1>1, <1>2, <1>3, <1>4, <1>5, <1>20, GoesOn

\* The loop over containers goes on.
LEMMA LoopQuiet ==
    ASSUME TInv, NEW e \in Events, SameTable, pc[e] \notin Between, NEW f, NEW label,
           DOMAIN f = DOMAIN NoCall, f.calls = frame[e].calls, label \notin Between,
           pc' = [pc EXCEPT ![e] = label],
           frame' = [frame EXCEPT ![e] = [f EXCEPT !.left = Tail(@)]],
           label \in Joining => pc[e] \in Joining,
           label \notin {"inspect", "create", "delete"},
           label \in Cutting => /\ pc[e] \in {"detach", "unlist"} /\ f.object = frame[e].object
    PROVE  Quiet(e)
<1> DEFINE g == [f EXCEPT !.left = Tail(@)]
<1>1. DOMAIN g = DOMAIN NoCall /\ g.calls = frame[e].calls /\ g.object = f.object
  BY DEF NoCall
<1>2. pc[e] \in {"detach", "unlist"} =>
          mapKey(e) \in DOMAIN networks /\ networks[mapKey(e)] = frame[e].object
  BY DEF TInv, Calling
<1>3. frame' = [frame EXCEPT ![e] = g]
  OBVIOUS
<1> HIDE DEF g
<1>20. Follows(e, label, g)
  BY <1>1, <1>2, <1>3 DEF Follows, Joining, Cutting, Between
<1> QED
  BY <1>1, <1>2, <1>3, <1>20, GoesOn

\* The next container, or the next call.
LEMMA NextConnectQuiet ==
    ASSUME TInv, NEW e \in Events, pc[e] \in {"after", "list"}, SameTable,
           Loop(e, frame[e], "before", NextCall(e))
    PROVE  Quiet(e)
<1>1. DOMAIN frame[e] = DOMAIN NoCall
  BY DEF TInv, Shapes
<1>2. CASE NextCall(e)
  BY <1>2, NextCallQuiet DEF Joining, Between
<1>3. CASE /\ Goto(e, "before")
           /\ frame' = [frame EXCEPT ![e] = [frame[e] EXCEPT !.left = Tail(@)]]
  BY <1>1, <1>3, LoopQuiet DEF Goto, Joining, Cutting, Between
<1> QED
  BY <1>2, <1>3 DEF Loop

LEMMA AfterQuiet ==
    ASSUME TInv, NEW e \in Events, InterfacesAfter(e)
    PROVE  Quiet(e)
<1>1. SameTable /\ pc[e] = "after" /\ DOMAIN frame[e] = DOMAIN NoCall
  BY TableStays DEF InterfacesAfter, dockerVars, TInv, Shapes
<1>2. CASE /\ Goto(e, "list")
           /\ frame' = [frame EXCEPT ![e].interface = last_listed(new_interfaces(e))]
  <2> DEFINE f == [frame[e] EXCEPT !.interface = last_listed(new_interfaces(e))]
  <2>1. frame' = [frame EXCEPT ![e] = f]
    BY <1>2
  <2>2. DOMAIN f = DOMAIN NoCall /\ f.calls = frame[e].calls
    BY <1>1 DEF NoCall
  <2> HIDE DEF f
  <2>20. Follows(e, "list", f)
    BY <1>1, <1>2, <2>1, <2>2 DEF Follows, Joining, Cutting, Between
  <2> QED
    BY <1>1, <1>2, <2>1, <2>2, <2>20, GoesOn DEF Goto
<1> QED
  BY <1>1, <1>2, NextConnectQuiet DEF InterfacesAfter

LEMMA ListQuiet ==
    ASSUME TInv, NEW e \in Events, ListInterface(e)
    PROVE  Quiet(e)
<1>1. /\ pc[e] = "list" /\ networks' = networks
      /\ docker' = [name \in DOMAIN docker |-> docker'[name]]
  BY DEF ListInterface, TInv, Shapes, dockerVars
<1>2. SameTable
  <2>1. CASE UNCHANGED objects
    BY <1>1, <2>1, KeepObjects DEF SameTable, TInv
  <2>2. CASE /\ mapKey(e) \in DOMAIN networks
             /\ objects' = [objects EXCEPT
                   ![networks[mapKey(e)]].connected = With(@, current(e), frame[e].interface),
                   ![networks[mapKey(e)]].netem = @ \ {current(e)}]
    <3> DEFINE i == networks[mapKey(e)]
               o == objects[i]
    <3>1. i \in 1 .. Len(objects) /\ DOMAIN o = DOMAIN NewNetwork(0)
      BY <2>2 DEF TInv, Shapes
    <3>2. PICK v, w : objects' = [objects EXCEPT ![i].connected = v, ![i].netem = w]
      BY <2>2
    <3> DEFINE v2 == [[o EXCEPT !.connected = v] EXCEPT !.netem = w]
    <3>3. objects' = [objects EXCEPT ![i] = v2]
      BY <3>1, <3>2 DEF TInv, Shapes
    <3>4. DOMAIN v2 = DOMAIN NewNetwork(0) /\ v2.name = o.name
      BY <3>1 DEF NewNetwork
    <3> HIDE DEF v2
    <3>5. SameObjects
      BY <3>3, <3>4, SetObject DEF TInv
    <3> QED
      BY <1>1, <3>5 DEF SameTable
  <2> QED
    BY <2>1, <2>2 DEF ListInterface
<1>3. CASE KeyError(e)
  BY <1>1, <1>2, <1>3, LeavesQuiet DEF Between
<1> QED
  BY <1>1, <1>2, <1>3, NextConnectQuiet DEF ListInterface

-----------------------------------------------------------------------------
\* cut.
LEMMA DisconnectQuiet ==
    ASSUME TInv, NEW e \in Events, disconnect(e)
    PROVE  Quiet(e)
<1>1. SameTable /\ pc[e] = "disconnect" /\ DOMAIN frame[e] = DOMAIN NoCall
  BY TableStays DEF disconnect, dockerVars, TInv, Shapes
<1>2. CASE Return(e)
  BY <1>1, <1>2, LeavesQuiet DEF Between
<1>3. CASE Goto(e, "lookup") /\ UNCHANGED frame
  <2>1. frame' = [frame EXCEPT ![e] = frame[e]]
    BY <1>3 DEF TInv, Shapes
  <2>20. Follows(e, "lookup", frame[e])
    BY <1>1, <1>3, <2>1 DEF Follows, Joining, Cutting, Between
  <2> QED
    BY <1>1, <1>3, <2>1, <2>20, GoesOn DEF Goto
<1> QED
  BY <1>2, <1>3 DEF disconnect

LEMMA LookUpQuiet ==
    ASSUME TInv, NEW e \in Events, LookUpNetwork(e)
    PROVE  Quiet(e)
<1>1. SameTable /\ pc[e] = "lookup" /\ DOMAIN frame[e] = DOMAIN NoCall
  BY TableStays DEF LookUpNetwork, dockerVars, TInv, Shapes
<1>2. CASE KeyError(e)
  BY <1>1, <1>2, LeavesQuiet DEF Between
<1>3. CASE /\ mapKey(e) \in DOMAIN networks
           /\ Goto(e, "detach")
           /\ frame' = [frame EXCEPT ![e].object = networks[mapKey(e)],
                                     ![e].left = containers(e)]
  <2> DEFINE f == [[frame[e] EXCEPT !.object = networks[mapKey(e)]] EXCEPT !.left = containers(e)]
  <2>1. frame' = [frame EXCEPT ![e] = f]
    BY <1>3 DEF TInv, Shapes
  <2>2. /\ DOMAIN f = DOMAIN NoCall /\ f.calls = frame[e].calls
        /\ f.object = networks[mapKey(e)]
    BY <1>1 DEF NoCall
  <2> HIDE DEF f
  <2>20. Follows(e, "detach", f)
    BY <1>1, <1>3, <2>1, <2>2 DEF Follows, Joining, Cutting, Between
  <2> QED
    BY <1>1, <1>3, <2>1, <2>2, <2>20, GoesOn DEF Goto
<1> QED
  BY <1>2, <1>3 DEF LookUpNetwork

\* The next container, the removal of the network, or the end.
LEMMA NextDetachQuiet ==
    ASSUME TInv, NEW e \in Events, pc[e] \in {"detach", "unlist"}, SameTable,
           NEW f, DOMAIN f = DOMAIN NoCall, f.calls = frame[e].calls,
           f.object = frame[e].object, NextContainer(e, f)
    PROVE  Quiet(e)
<1>1. mapKey(e) \in DOMAIN networks /\ networks[mapKey(e)] = frame[e].object
  BY DEF TInv, Calling
<1>2. CASE Return(e)
  BY <1>2, LeavesQuiet DEF Between
<1>3. CASE Goto(e, "delete") /\ frame' = [frame EXCEPT ![e] = f]
  <2>1. Follows(e, "delete", f)
    BY <1>1, <1>3 DEF Follows, Joining, Cutting, Between
  <2> QED
    BY <1>1, <1>3, <2>1, GoesOn DEF Goto
<1>4. CASE Goto(e, "detach") /\ frame' = [frame EXCEPT ![e] = [f EXCEPT !.left = Tail(@)]]
  BY <1>4, LoopQuiet DEF Goto, Joining, Cutting, Between
<1> QED
  BY <1>2, <1>3, <1>4 DEF NextContainer, Loop

LEMMA DetachQuiet ==
    ASSUME TInv, NEW e \in Events, Detach(e)
    PROVE  Quiet(e)
<1>1. pc[e] = "detach" /\ DOMAIN frame[e] = DOMAIN NoCall /\ UNCHANGED tableVars
  BY DEF Detach, TInv, Shapes
<1>2. mapKey(e) \in DOMAIN networks /\ networks[mapKey(e)] = frame[e].object
  BY <1>1 DEF TInv, Calling
<1>3. docker' = [name \in DOMAIN docker |-> docker'[name]]
  BY DEF Detach, network_disconnect, dockerVars, TInv, Shapes
<1>4. SameTable
  BY <1>1, <1>3, KeepObjects DEF SameTable, TInv, tableVars
<1>5. CASE Goto(e, "unlist") /\ UNCHANGED frame
  <2>1. frame' = [frame EXCEPT ![e] = frame[e]]
    BY <1>5 DEF TInv, Shapes
  <2>20. Follows(e, "unlist", frame[e])
    BY <1>1, <1>2, <1>4, <1>5, <2>1 DEF Follows, Joining, Cutting, Between
  <2> QED
    BY <1>1, <1>2, <1>4, <1>5, <2>1, <2>20, GoesOn DEF Goto
<1>6. CASE NextContainer(e, [frame[e] EXCEPT !.failed = TRUE])
  <2> DEFINE f == [frame[e] EXCEPT !.failed = TRUE]
  <2>1. DOMAIN f = DOMAIN NoCall /\ f.calls = frame[e].calls /\ f.object = frame[e].object
    BY <1>1 DEF NoCall
  <2>2. NextContainer(e, f)
    BY <1>6
  <2> HIDE DEF f
  <2> QED
    BY <1>1, <1>4, <2>1, <2>2, NextDetachQuiet
<1> QED
  BY <1>5, <1>6 DEF Detach

LEMMA UnlistQuiet ==
    ASSUME TInv, NEW e \in Events, Unlist(e)
    PROVE  Quiet(e)
<1> DEFINE i == frame[e].object
           v == [objects[i] EXCEPT !.connected = Without(@, current(e))]
<1>1. /\ pc[e] = "unlist" /\ DOMAIN frame[e] = DOMAIN NoCall /\ networks' = networks
      /\ docker' = [name \in DOMAIN docker |-> docker'[name]]
      /\ NextContainer(e, frame[e])
  BY DEF Unlist, TInv, Shapes, dockerVars
<1>2. mapKey(e) \in DOMAIN networks /\ networks[mapKey(e)] = i
  BY <1>1 DEF TInv, Calling
<1>3. DOMAIN objects[i] = DOMAIN NewNetwork(0)
  BY <1>2 DEF TInv, Shapes
<1>4. DOMAIN v = DOMAIN NewNetwork(0) /\ v.name = objects[i].name
  BY <1>3 DEF NewNetwork
<1>5. objects' = [objects EXCEPT ![i] = v]
  BY DEF Unlist
<1> HIDE DEF v, i
<1>6. SameObjects
  BY <1>4, <1>5, SetObject DEF TInv
<1>7. SameTable
  BY <1>1, <1>6 DEF SameTable
<1> QED
  BY <1>1, <1>7, NextDetachQuiet

-----------------------------------------------------------------------------
\* delay and the other effects, and the actions on containers.
LEMMA NetemQuiet ==
    ASSUME TInv, NEW e \in Events, executeNetemCommandsForNetwork(e) \/ ConnectedContainers(e)
    PROVE  Quiet(e)
<1>1. SameTable /\ pc[e] \in {"netem", "keys"} /\ DOMAIN frame[e] = DOMAIN NoCall
  BY TableStays DEF executeNetemCommandsForNetwork, ConnectedContainers, dockerVars, TInv, Shapes
<1>2. CASE Return(e) \/ KeyError(e)
  BY <1>1, <1>2, LeavesQuiet DEF Between
<1>3. CASE /\ Goto(e, "keys")
           /\ frame' = [frame EXCEPT ![e].object = networks[mapKey(e)]]
  <2> DEFINE f == [frame[e] EXCEPT !.object = networks[mapKey(e)]]
  <2>1. DOMAIN f = DOMAIN NoCall /\ frame' = [frame EXCEPT ![e] = f]
    BY <1>1, <1>3 DEF NoCall
  <2> HIDE DEF f
  <2>20. Follows(e, "keys", f)
    BY <1>1, <1>3, <2>1 DEF Follows, Joining, Cutting, Between
  <2> QED
    BY <1>1, <1>3, <2>1, <2>20, GoesOn DEF Goto
<1>4. CASE /\ Goto(e, "interface")
           /\ \E list : frame' = [frame EXCEPT ![e].left = list]
  <2>1. PICK list : frame' = [frame EXCEPT ![e].left = list]
    BY <1>4
  <2> DEFINE f == [frame[e] EXCEPT !.left = list]
  <2>2. DOMAIN f = DOMAIN NoCall /\ frame' = [frame EXCEPT ![e] = f]
    BY <1>1, <2>1 DEF NoCall
  <2> HIDE DEF f
  <2>20. Follows(e, "interface", f)
    BY <1>1, <1>4, <2>2 DEF Follows, Joining, Cutting, Between
  <2> QED
    BY <1>1, <1>4, <2>2, <2>20, GoesOn DEF Goto
<1> QED
  BY <1>2, <1>3, <1>4 DEF executeNetemCommandsForNetwork, ConnectedContainers

LEMMA ChooseQuiet ==
    ASSUME TInv, NEW e \in Events, ChooseInterface(e) \/ ChooseCommand(e)
    PROVE  Quiet(e)
<1>1. SameTable /\ pc[e] \in {"interface", "mode"} /\ DOMAIN frame[e] = DOMAIN NoCall
  BY TableStays DEF ChooseInterface, ChooseCommand, dockerVars, TInv, Shapes
<1>2. CASE KeyError(e)
  BY <1>1, <1>2, LeavesQuiet DEF Between
<1>3. CASE Goto(e, "mode") /\ \E i : frame' = [frame EXCEPT ![e].interface = i]
  <2>1. PICK i : frame' = [frame EXCEPT ![e].interface = i]
    BY <1>3
  <2> DEFINE f == [frame[e] EXCEPT !.interface = i]
  <2>2. DOMAIN f = DOMAIN NoCall /\ frame' = [frame EXCEPT ![e] = f]
    BY <1>1, <2>1 DEF NoCall
  <2> HIDE DEF f
  <2>20. Follows(e, "mode", f)
    BY <1>1, <1>3, <2>2 DEF Follows, Joining, Cutting, Between
  <2> QED
    BY <1>1, <1>3, <2>2, <2>20, GoesOn DEF Goto
<1>4. CASE Goto(e, "tc") /\ \E c : frame' = [frame EXCEPT ![e].command = c]
  <2>1. PICK c : frame' = [frame EXCEPT ![e].command = c]
    BY <1>4
  <2> DEFINE f == [frame[e] EXCEPT !.command = c]
  <2>2. DOMAIN f = DOMAIN NoCall /\ frame' = [frame EXCEPT ![e] = f]
    BY <1>1, <2>1 DEF NoCall
  <2> HIDE DEF f
  <2>20. Follows(e, "tc", f)
    BY <1>1, <1>4, <2>2 DEF Follows, Joining, Cutting, Between
  <2> QED
    BY <1>1, <1>4, <2>2, <2>20, GoesOn DEF Goto
<1> QED
  BY <1>2, <1>3, <1>4 DEF ChooseInterface, ChooseCommand

LEMMA EmulateQuiet ==
    ASSUME TInv, NEW e \in Events, Emulate(e) \/ SetNetemInitialized(e)
    PROVE  Quiet(e)
<1>1. /\ pc[e] \in {"tc", "initialized"} /\ DOMAIN frame[e] = DOMAIN NoCall
      /\ networks' = networks /\ docker' = [name \in DOMAIN docker |-> docker'[name]]
  BY DEF Emulate, SetNetemInitialized, tc, dockerVars, tableVars, TInv, Shapes
<1>2. SameObjects
  <2>1. CASE UNCHANGED objects
    BY <2>1, KeepObjects DEF TInv
  <2>2. CASE objects' = [objects EXCEPT ![frame[e].object].netem = @ \cup {current(e)}]
    <3> DEFINE i == frame[e].object
               v == [objects[i] EXCEPT !.netem = @ \cup {current(e)}]
    <3>1. i \in 1 .. Len(objects) => /\ DOMAIN v = DOMAIN NewNetwork(0)
                                     /\ v.name = objects[i].name
      BY DEF TInv, Shapes, NewNetwork
    <3>2. objects' = [objects EXCEPT ![i] = v]
      BY <2>2
    <3> HIDE DEF v
    <3> QED
      BY <3>1, <3>2, SetObject DEF TInv
  <2> QED
    BY <2>1, <2>2 DEF Emulate, SetNetemInitialized, tableVars
<1>3. SameTable
  BY <1>1, <1>2 DEF SameTable
<1>4. CASE Return(e)
  BY <1>1, <1>3, <1>4, LeavesQuiet DEF Between
<1>5. CASE /\ Goto(e, "interface")
           /\ frame' = [frame EXCEPT ![e] = [frame[e] EXCEPT !.left = Tail(@)]]
  BY <1>1, <1>3, <1>5, LoopQuiet DEF Goto, Joining, Cutting, Between
<1>6. CASE Goto(e, "initialized") /\ UNCHANGED frame
  <2>1. frame' = [frame EXCEPT ![e] = frame[e]]
    BY <1>6 DEF TInv, Shapes
  <2>20. Follows(e, "initialized", frame[e])
    BY <1>1, <1>3, <1>6, <2>1 DEF Follows, Joining, Cutting, Between
  <2> QED
    BY <1>1, <1>3, <1>6, <2>1, <2>20, GoesOn DEF Goto
<1> QED
  BY <1>4, <1>5, <1>6 DEF Emulate, SetNetemInitialized, Loop

LEMMA ContainersQuiet ==
    ASSUME TInv, NEW e \in Events, CallContainers(e)
    PROVE  Quiet(e)
<1>1. /\ pc[e] = "container" /\ DOMAIN frame[e] = DOMAIN NoCall
      /\ UNCHANGED <<tableVars, docker>>
  BY DEF CallContainers, start, stop, restart, boot, dockerVars, TInv, Shapes
<1>2. SameTable
  BY <1>1, TableStays
<1>3. CASE Return(e)
  BY <1>1, <1>2, <1>3, LeavesQuiet DEF Between
<1>4. CASE /\ Goto(e, "container")
           /\ frame' = [frame EXCEPT ![e] = [frame[e] EXCEPT !.left = Tail(@)]]
  BY <1>1, <1>2, <1>4, LoopQuiet DEF Goto, Joining, Cutting, Between
<1> QED
  BY <1>3, <1>4 DEF CallContainers, Loop

LEMMA TimerQuiet ==
    ASSUME TInv, NEW e \in Events, TimerStep(e)
    PROVE  Quiet(e)
<1>1. /\ pc[e] \in {"startTimer", "printTimer", "stopTimer", "readTimer", "popTimer"}
      /\ DOMAIN frame[e] = DOMAIN NoCall /\ UNCHANGED <<tableVars, docker>>
  BY DEF TimerStep, startTimer, LookUpTimer, ReadTimer, PopTimer, UntouchedByTimers,
         dockerVars, TInv, Shapes
<1>2. SameTable
  BY <1>1, TableStays
<1>3. CASE Return(e) \/ KeyError(e)
  BY <1>1, <1>2, <1>3, LeavesQuiet DEF Between
<1>4. ASSUME NEW label \in {"startTimer", "printTimer", "stopTimer"},
             Goto(e, label), frame' = [frame EXCEPT ![e] = [frame[e] EXCEPT !.left = Tail(@)]]
      PROVE  Quiet(e)
  BY <1>1, <1>2, <1>4, LoopQuiet DEF Goto, Joining, Cutting, Between
<1>5. ASSUME NEW label \in {"readTimer", "popTimer"}, Goto(e, label), UNCHANGED frame
      PROVE  Quiet(e)
  <2>1. frame' = [frame EXCEPT ![e] = frame[e]]
    BY <1>5 DEF TInv, Shapes
  <2>20. Follows(e, label, frame[e])
    BY <1>1, <1>2, <1>5, <2>1 DEF Follows, Joining, Cutting, Between
  <2> QED
    BY <1>1, <1>2, <1>5, <2>1, <2>20, GoesOn DEF Goto
<1> QED
  BY <1>3, <1>4, <1>5 DEF TimerStep, startTimer, LookUpTimer, ReadTimer, PopTimer, Printed, Loop

-----------------------------------------------------------------------------
\* The steps between actions.
LEMMA EngineQuiet ==
    ASSUME TInv, NEW e \in Events, WaitForEvents(e) \/ Command(e) \/ Finish(e)
    PROVE  Quiet(e)
<1>1. /\ pc[e] \in {"dependOn", "commands", "do"} /\ DOMAIN frame[e] = DOMAIN NoCall
      /\ UNCHANGED <<tableVars, docker, frame>>
  BY DEF WaitForEvents, Command, Finish, simulatorVars, dockerVars, TInv, Shapes
<1>2. SameTable
  BY <1>1, TableStays
<1>3. PICK label \in {"commands", "aborted", "do", "finished"} : pc' = [pc EXCEPT ![e] = label]
  BY <1>1 DEF WaitForEvents, Command, Finish, Goto, TInv, OInv
<1>4. frame' = [frame EXCEPT ![e] = frame[e]]
  BY <1>1 DEF TInv, Shapes
<1>20. Follows(e, label, frame[e])
  BY <1>1, <1>2, <1>3, <1>4 DEF Follows, Joining, Cutting, Between
<1> QED
  BY <1>1, <1>2, <1>3, <1>4, <1>20, GoesOn

\* An action that is begun, with a list of its event if it is join or cut.
LEMMA DoQuiet ==
    ASSUME TInv, NEW e \in Events, DoAction(e)
    PROVE  Quiet(e)
<1>1. pc[e] = "do" /\ DOMAIN frame[e] = DOMAIN NoCall /\ UNCHANGED <<tableVars, docker>>
  BY DEF DoAction, simulatorVars, dockerVars, TInv, Shapes
<1>2. SameTable
  BY <1>1, TableStays
<1>3. PICK action \in Do[e] : executeAction(e, action)
  BY DEF DoAction, TInv
<1>4. CASE action.name = "join" /\ join(e, action)
  BY <1>1, <1>2, <1>4, ConnectionsOfJoin, CallsNext DEF join, Between
<1>5. CASE action.name = "cut" /\ cut(e, action)
  <2> DEFINE f == [frame[e] EXCEPT !.calls = <<action.container>>]
  <2>1. pc' = [pc EXCEPT ![e] = "disconnect"] /\ frame' = [frame EXCEPT ![e] = f]
    BY <1>5 DEF cut, Goto
  <2>2. DOMAIN f = DOMAIN NoCall /\ f.calls = <<action.container>>
    BY <1>1 DEF NoCall
  <2> HIDE DEF f
  <2>3. action.container \in Cuts(e)
    BY <1>5 DEF Cuts
  <2>4. pc'[e] = "disconnect" /\ frame'[e].calls = <<action.container>>
    BY <2>1, <2>2 DEF TInv, OInv, Shapes
  <2>5. Calling(e)'
    BY <2>3, <2>4 DEF Calling, Joining, Cutting
  <2>6. Only(e)
    BY <2>1, <2>2 DEF Only
  <2> QED
    BY <1>1, <1>2, <2>4, <2>5, <2>6 DEF Quiet, Between
<1>6. CASE \/ netem(e, action)
           \/ callContainers(e, action)
           \/ action.name \in {"startTimer", "printTimer", "stopTimer"} /\ timer(e, action)
  <2>1. PICK label \in {"netem", "container", "startTimer", "printTimer", "stopTimer"} :
               pc' = [pc EXCEPT ![e] = label]
    BY <1>6 DEF netem, callContainers, timer, Goto
  <2>2. CASE netem(e, action)
    <3> DEFINE f == [frame[e] EXCEPT !.calls = <<action.container>>]
    <3>1. DOMAIN f = DOMAIN NoCall /\ frame' = [frame EXCEPT ![e] = f]
      BY <1>1, <2>2 DEF netem
    <3> HIDE DEF f
    <3>20. Follows(e, label, f)
      BY <1>1, <1>2, <2>1, <3>1 DEF Follows, Joining, Cutting, Between
    <3> QED
      BY <1>1, <1>2, <2>1, <3>1, <3>20, GoesOn
  <2>3. CASE callContainers(e, action) \/ timer(e, action)
    <3>1. PICK list, name : frame' = [frame EXCEPT ![e].left = list, ![e].command = name]
      BY <2>3 DEF callContainers, timer
    <3> DEFINE f == [[frame[e] EXCEPT !.left = list] EXCEPT !.command = name]
    <3>2. DOMAIN f = DOMAIN NoCall /\ frame' = [frame EXCEPT ![e] = f]
      BY <1>1, <3>1 DEF TInv, Shapes
    <3> HIDE DEF f
    <3>20. Follows(e, label, f)
      BY <1>1, <1>2, <2>1, <3>2 DEF Follows, Joining, Cutting, Between
    <3> QED
      BY <1>1, <1>2, <2>1, <3>2, <3>20, GoesOn
  <2> QED
    BY <1>6, <2>2, <2>3
<1> QED
  BY <1>3, <1>4, <1>5, <1>6 DEF executeAction

-----------------------------------------------------------------------------
(* A network is created, removed and taken from the table.                  *)

\* A network of a new name is created.
LEMMA CreateKeeps ==
    ASSUME TInv, OInv', NEW e \in Events, CreateNetwork(e),
           main = "join", main' = "join", todo' = todo
    PROVE  TInv'
<1> DEFINE new == frame[e].name
<1>1. pc[e] = "create" /\ UNCHANGED tableVars
  BY DEF CreateNetwork
<1>2. CASE NextCall(e) /\ UNCHANGED dockerVars
  <2>1. Quiet(e)
    BY <1>1, <1>2, TableStays, NextCallQuiet DEF dockerVars, Joining, Between
  <2> QED
    BY <2>1, QuietKeeps
<1>3. CASE /\ ~network_inspect(new) /\ network_create(new)
           /\ Goto(e, "put") /\ UNCHANGED frame
  <2>1. /\ pc'[e] = "put" /\ \A d \in Events \ {e} : pc'[d] = pc[d]
        /\ \A d \in Events : mapKey(d)' = mapKey(d)
    BY <1>3 DEF Goto, TInv, OInv, mapKey, containers
  <2>2. /\ new \notin DOMAIN docker /\ DOMAIN docker' = DOMAIN docker \cup {new}
        /\ docker' = [name \in DOMAIN docker' |-> docker'[name]]
    BY <1>3 DEF network_inspect, network_create, With
  <2>3. Shapes'
    BY <1>1, <1>3, <2>2 DEF TInv, Shapes, tableVars
  <2>4. \A d \in Events : Calling(d)'
    BY <1>1, <1>3, <2>1 DEF TInv, Calling, tableVars, Joining, Cutting
  <2>5. Stale' = Stale
    <3>1. {d \in Events : pc'[d] = "pop"} = {d \in Events : pc[d] = "pop"}
      BY <1>1, <2>1
    <3> QED
      BY <2>1, <3>1 DEF Stale
  <2>6. Fresh' = Fresh \cup {new}
    <3>1. {d \in Events : pc'[d] = "put"} = {d \in Events : pc[d] = "put"} \cup {e}
      BY <1>1, <2>1
    <3> QED
      BY <1>3, <3>1 DEF Fresh
  <2>7. DOMAIN networks' = DOMAIN networks /\ \A k \in DOMAIN networks : name_of(k)' = name_of(k)
    BY <1>1 DEF name_of, tableVars
  <2>8. new \notin Fresh
    BY <2>2 DEF TInv, Matching
  <2>9. \A d, f \in Events : pc'[d] = "put" /\ pc'[f] = "put" /\ frame'[d].name = frame'[f].name => d = f
    BY <1>3, <2>1, <2>8 DEF TInv, Matching, Fresh
  <2>10. Matching'
    <3> DEFINE Old == DOMAIN networks \ Stale
    <3>1. /\ {name_of(k) : k \in Old} \cup Fresh = DOMAIN docker
          /\ \A k, l \in Old : name_of(k) = name_of(l) => k = l
          /\ \A k \in Old : name_of(k) \notin Fresh
      BY DEF TInv, Matching
    <3>2. DOMAIN networks' \ Stale' = Old /\ \A k \in Old : name_of(k)' = name_of(k)
      BY <2>5, <2>7
    <3> HIDE DEF Old, new
    <3>3. /\ {name_of(k)' : k \in Old} = {name_of(k) : k \in Old}
          /\ \A k, l \in Old : name_of(k)' = name_of(l)' => k = l
          /\ \A k \in Old : name_of(k)' \notin Fresh \cup {new}
      BY <2>2, <3>1, <3>2
    <3> QED
      BY <2>2, <2>6, <2>9, <3>1, <3>2, <3>3 DEF Matching
  <2> QED
    BY <2>3, <2>4, <2>10 DEF TInv
<1> QED
  BY <1>2, <1>3 DEF CreateNetwork

\* The new network comes into the table, whose keys do not have its name.
Put(e, key, new, n) ==
    /\ key = mapKey(e) /\ new = frame[e].name /\ n = Len(objects)
    /\ pc[e] = "put" /\ pc'[e] = "before"
    /\ mapKey(e)' = key /\ frame'[e].name = new /\ frame'[e].calls = frame[e].calls
    /\ frame'[e].left = containers(e)
    /\ \A d \in Events \ {e} : pc'[d] = pc[d] /\ frame'[d] = frame[d] /\ mapKey(d)' = mapKey(d)
    /\ n \in Nat /\ Len(objects') = n + 1 /\ objects' \in Seq(Range(objects'))
    /\ \A i \in 1 .. n : objects'[i] = objects[i]
    /\ objects'[n + 1] = NewNetwork(new)
    /\ key \notin DOMAIN networks /\ key \notin Stale /\ Stale' = Stale
    /\ DOMAIN networks' = DOMAIN networks \cup {key} /\ networks'[key] = n + 1
    /\ \A k \in DOMAIN networks : networks'[k] = networks[k]
    /\ networks' = [k \in DOMAIN networks' |-> networks'[k]]
    /\ Fresh = Fresh' \cup {new} /\ new \notin Fresh'
    /\ UNCHANGED dockerVars

LEMMA PutFacts ==
    ASSUME TInv, main = "join", NEW e \in Events, PutNetwork(e)
    PROVE  \E key, new, n : Put(e, key, new, n)
<1>0. PICK key, new, n : key = mapKey(e) /\ new = frame[e].name /\ n = Len(objects)
  OBVIOUS
<1> DEFINE f == [frame[e] EXCEPT !.left = containers(e)]
<1>1. /\ pc[e] = "put"
      /\ objects' = Append(objects, NewNetwork(new))
      /\ networks' = With(networks, key, Len(objects'))
      /\ Goto(e, "before")
      /\ frame' = [frame EXCEPT ![e] = f]
      /\ UNCHANGED dockerVars
  BY <1>0 DEF PutNetwork
<1>2. /\ DOMAIN f = DOMAIN NoCall /\ f.calls = frame[e].calls /\ f.name = new
      /\ f.left = containers(e)
  BY <1>0 DEF NoCall, TInv, Shapes
<1> HIDE DEF f
<1>3. /\ pc'[e] = "before" /\ frame'[e] = f /\ mapKey(e)' = key
      /\ \A d \in Events \ {e} : pc'[d] = pc[d] /\ frame'[d] = frame[d] /\ mapKey(d)' = mapKey(d)
  BY <1>0, <1>1, <1>2 DEF Goto, TInv, OInv, Shapes, mapKey, containers
<1>4. key \notin DOMAIN networks
  BY <1>0, <1>1 DEF TInv, Calling
<1>5. /\ objects' \in Seq(Range(objects')) /\ Len(objects') = n + 1 /\ n \in Nat
      /\ \A i \in 1 .. n : objects'[i] = objects[i]
      /\ objects'[n + 1] = NewNetwork(new)
  <2> DEFINE S == Range(objects) \cup {NewNetwork(new)}
  <2>1. objects \in Seq(S)
    BY SeqMonotonic DEF TInv, Shapes
  <2>2. NewNetwork(new) \in S
    OBVIOUS
  <2> HIDE DEF S
  <2>3. /\ objects' \in Seq(S) /\ Len(objects') = n + 1 /\ n \in Nat
        /\ \A i \in 1 .. n : objects'[i] = objects[i]
        /\ objects'[n + 1] = NewNetwork(new)
    BY <1>0, <1>1, <2>1, <2>2, AppendProperties, LenProperties
  <2> QED
    BY <2>3, SeqOfRange
<1>6. Stale' = Stale /\ key \notin Stale
  <2>1. key \notin Stale
    BY <1>0, <1>4 DEF Stale, TInv, Calling
  <2>2. {d \in Events : pc'[d] = "pop"} = {d \in Events : pc[d] = "pop"}
    BY <1>1, <1>3
  <2> QED
    BY <1>1, <1>3, <2>1, <2>2 DEF Stale
<1>7. /\ DOMAIN networks' = DOMAIN networks \cup {key} /\ networks'[key] = n + 1
      /\ \A k \in DOMAIN networks : networks'[k] = networks[k]
      /\ networks' = [k \in DOMAIN networks' |-> networks'[k]]
  BY <1>1, <1>4, <1>5 DEF With
<1>8. Fresh = Fresh' \cup {new} /\ new \notin Fresh'
  <2>1. {d \in Events : pc[d] = "put"} = {d \in Events : pc'[d] = "put"} \cup {e}
    BY <1>1, <1>3
  <2>2. \A d \in Events : pc'[d] = "put" => d # e /\ pc[d] = "put" /\ frame'[d].name = frame[d].name
    BY <1>3
  <2>3. \A d \in Events : pc'[d] = "put" => frame'[d].name # new
    BY <1>0, <1>1, <2>2 DEF TInv, Matching
  <2> QED
    BY <1>0, <2>1, <2>2, <2>3 DEF Fresh
<1>9. Put(e, key, new, n)
  BY <1>0, <1>1, <1>2, <1>3, <1>4, <1>5, <1>6, <1>7, <1>8 DEF Put
<1> QED
  BY <1>9

LEMMA PutKeeps ==
    ASSUME OneAtATime, TInv, OInv', NEW e \in Events, PutNetwork(e),
           main = "join", main' = "join", todo' = todo
    PROVE  TInv'
<1>1. PICK key, new, n : Put(e, key, new, n)
  BY PutFacts
<1>2. /\ key = mapKey(e) /\ n = Len(objects)
      /\ pc[e] = "put" /\ pc'[e] = "before"
      /\ mapKey(e)' = key /\ frame'[e].calls = frame[e].calls
      /\ \A d \in Events \ {e} : /\ pc'[d] = pc[d] /\ frame'[d] = frame[d]
                                  /\ mapKey(d)' = mapKey(d)
      /\ n \in Nat /\ Len(objects') = n + 1 /\ objects' \in Seq(Range(objects'))
      /\ \A i \in 1 .. n : objects'[i] = objects[i]
      /\ objects'[n + 1] = NewNetwork(new)
      /\ key \notin Stale /\ Stale' = Stale
      /\ DOMAIN networks' = DOMAIN networks \cup {key} /\ networks'[key] = n + 1
      /\ \A k \in DOMAIN networks : networks'[k] = networks[k]
      /\ networks' = [k \in DOMAIN networks' |-> networks'[k]]
      /\ Fresh = Fresh' \cup {new} /\ new \notin Fresh'
      /\ docker' = docker
  BY <1>1 DEF Put, dockerVars
<1>3. /\ frame' = [d \in Events |-> frame'[d]]
      /\ \A d \in Events : DOMAIN frame'[d] = DOMAIN NoCall
  BY DEF PutNetwork, TInv, Shapes
<1>4. Shapes'
  <2>1. \A i \in 1 .. Len(objects') : DOMAIN objects'[i] = DOMAIN NewNetwork(0)
    BY <1>2 DEF TInv, Shapes, NewNetwork
  <2>2. \A k \in DOMAIN networks' : networks'[k] \in 1 .. Len(objects')
    BY <1>2 DEF TInv, Shapes
  <2> QED
    BY <1>2, <1>3, <2>1, <2>2 DEF TInv, Shapes, NewNetwork
<1>5. \A d \in Events : Calling(d)'
  <2>1. Calling(e)'
    BY <1>2 DEF TInv, Calling, Joining, Cutting
  <2>2. ASSUME NEW d \in Events \ {e} PROVE Calling(d)'
    <3>1. Calling(d)
      BY DEF TInv
    <3>2. pc[d] \in {"inspect", "create", "put"} => mapKey(d) # key
      BY <1>2, Apart DEF Joining
    <3> QED
      BY <1>2, <2>2, <3>1, <3>2 DEF Calling
  <2> QED
    BY <2>1, <2>2
<1> DEFINE old     == DOMAIN networks \ Stale
           name(k) == objects'[networks'[k]].name
<1>6. name(key) = new /\ \A k \in old : name(k) = name_of(k)
  <2>1. NewNetwork(new).name = new
    BY DEF NewNetwork
  <2>2. \A k \in DOMAIN networks : networks[k] \in 1 .. n
    BY <1>2 DEF TInv, Shapes
  <2> QED
    BY <1>2, <2>1, <2>2 DEF name_of
<1>7. Matching'
  <2>1. DOMAIN networks' \ Stale' = old \cup {key}
    BY <1>2
  <2>2. /\ {name_of(k) : k \in old} \cup Fresh = DOMAIN docker
        /\ \A k, l \in old : name_of(k) = name_of(l) => k = l
        /\ \A k \in old : name_of(k) \notin Fresh
    BY DEF TInv, Matching
  <2>3. \A d, f \in Events : pc'[d] = "put" /\ pc'[f] = "put" /\ frame'[d].name = frame'[f].name => d = f
    BY <1>2 DEF TInv, Matching
  <2> HIDE DEF old, name
  <2>4. \A k \in old : name(k) # new /\ name(k) \notin Fresh'
    BY <1>2, <1>6, <2>2
  <2>5. {name(k) : k \in old \cup {key}} = {name_of(k) : k \in old} \cup {new}
    BY <1>6
  <2>6. \A k, l \in old \cup {key} : name(k) = name(l) => k = l
    BY <1>6, <2>2, <2>4
  <2>7. /\ {name(k) : k \in DOMAIN networks' \ Stale'} \cup Fresh' = DOMAIN docker'
        /\ \A k, l \in DOMAIN networks' \ Stale' : name(k) = name(l) => k = l
        /\ \A k \in DOMAIN networks' \ Stale' : name(k) \notin Fresh'
    BY <1>2, <1>6, <2>1, <2>2, <2>4, <2>5, <2>6
  <2> QED
    BY <2>3, <2>7 DEF Matching, name_of, name
<1> QED
  BY <1>4, <1>5, <1>7 DEF TInv

\* The network that is removed is the one its key stands for.
LEMMA DeleteKeeps ==
    ASSUME OneAtATime, TInv, OInv', NEW e \in Events, DeleteNetwork(e),
           main = "join", main' = "join", todo' = todo
    PROVE  TInv'
<1> DEFINE key == mapKey(e)
<1>1. pc[e] = "delete" /\ UNCHANGED tableVars
  BY DEF DeleteNetwork
<1>2. CASE Return(e) /\ UNCHANGED dockerVars
  <2>1. Quiet(e)
    BY <1>1, <1>2, TableStays, LeavesQuiet DEF dockerVars, Between
  <2> QED
    BY <2>1, QuietKeeps
<1>3. CASE network_rm(network(e).name) /\ Goto(e, "pop") /\ UNCHANGED frame
  <2>1. /\ pc'[e] = "pop" /\ mapKey(e)' = key
        /\ \A d \in Events \ {e} : pc'[d] = pc[d] /\ mapKey(d)' = mapKey(d)
    BY <1>3 DEF Goto, TInv, OInv, mapKey, containers
  <2>2. key \in DOMAIN networks /\ networks[key] = frame[e].object
    BY <1>1 DEF TInv, Calling
  <2>3. network(e).name = name_of(key)
    BY <2>2 DEF network, name_of
  <2>4. /\ DOMAIN docker' = DOMAIN docker \ {name_of(key)}
        /\ docker' = [name \in DOMAIN docker' |-> docker'[name]]
    BY <1>3, <2>3 DEF network_rm, Without, Restrict
  <2>5. Shapes'
    BY <1>1, <1>3, <2>4 DEF TInv, Shapes, tableVars
  <2>6. \A d \in Events : Calling(d)'
    BY <1>1, <1>3, <2>1 DEF TInv, Calling, tableVars, Joining, Cutting
  <2>7. key \notin Stale
    <3>1. \A d \in Events : pc[d] = "pop" => mapKey(d) # key
      BY <1>1, Apart DEF Cutting
    <3> QED
      BY <3>1 DEF Stale
  <2>8. Stale' = Stale \cup {key}
    <3>1. {d \in Events : pc'[d] = "pop"} = {d \in Events : pc[d] = "pop"} \cup {e}
      BY <1>1, <2>1
    <3>2. \A d \in Events : mapKey(d)' = mapKey(d)
      BY <2>1
    <3> QED
      BY <3>1, <3>2 DEF Stale
  <2>9. \A k \in DOMAIN networks : name_of(k)' = name_of(k)
    BY <1>1 DEF name_of, tableVars
  <2>10. DOMAIN networks' \ Stale' = (DOMAIN networks \ Stale) \ {key}
    BY <1>1, <2>8 DEF tableVars
  <2>11. Fresh' = Fresh /\ \A d \in Events : pc'[d] = "put" => pc[d] = "put" /\ frame'[d] = frame[d]
    <3>1. {d \in Events : pc'[d] = "put"} = {d \in Events : pc[d] = "put"}
      BY <1>1, <2>1
    <3> QED
      BY <1>3, <3>1 DEF Fresh
  <2>12. Matching'
    <3> DEFINE Old == DOMAIN networks \ Stale
    <3>1. /\ {name_of(k) : k \in Old} \cup Fresh = DOMAIN docker
          /\ \A k, l \in Old : name_of(k) = name_of(l) => k = l
          /\ \A k \in Old : name_of(k) \notin Fresh
      BY DEF TInv, Matching
    <3>2. DOMAIN networks' \ Stale' = Old \ {key} /\ key \in Old
      BY <2>2, <2>7, <2>10
    <3>3. \A k \in Old : name_of(k)' = name_of(k)
      BY <2>9
    <3>4. \A d, f \in Events : pc'[d] = "put" /\ pc'[f] = "put" /\ frame'[d].name = frame'[f].name => d = f
      BY <2>11 DEF TInv, Matching
    <3> HIDE DEF Old, key
    <3>5. /\ \A k, l \in Old \ {key} : name_of(k)' = name_of(l)' => k = l
          /\ \A k \in Old \ {key} : name_of(k)' \notin Fresh
          /\ name_of(key) \notin Fresh
      BY <3>1, <3>2, <3>3
    <3>6. {name_of(k)' : k \in Old \ {key}} = {name_of(k) : k \in Old \ {key}}
      BY <3>3
    <3>7. \A k \in Old \ {key} : name_of(k) # name_of(key)
      BY <3>1, <3>2
    <3>8. {name_of(k) : k \in Old \ {key}} = {name_of(k) : k \in Old} \ {name_of(key)}
      BY <3>2, <3>7
    <3>9. {name_of(k)' : k \in Old \ {key}} \cup Fresh = DOMAIN docker \ {name_of(key)}
      BY <3>1, <3>5, <3>6, <3>8
    <3> QED
      BY <2>4, <2>11, <3>2, <3>4, <3>5, <3>9 DEF Matching
  <2> QED
    BY <2>5, <2>6, <2>12 DEF TInv
<1> QED
  BY <1>2, <1>3 DEF DeleteNetwork

\* What is taken from the table has no network any more.
LEMMA PopKeeps ==
    ASSUME OneAtATime, TInv, OInv', NEW e \in Events, PopNetwork(e),
           main = "join", main' = "join", todo' = todo
    PROVE  TInv'
<1> DEFINE key == mapKey(e)
<1>1. /\ pc[e] = "pop" /\ Return(e) /\ UNCHANGED <<objects, docker>>
      /\ networks' = Without(networks, key)
  BY DEF PopNetwork, dockerVars
<1>2. /\ pc'[e] = "do" /\ frame'[e] = NoCall
      /\ \A d \in Events \ {e} : /\ pc'[d] = pc[d] /\ frame'[d] = frame[d]
                                  /\ mapKey(d)' = mapKey(d)
  BY <1>1 DEF Return, Goto, TInv, OInv, Shapes, mapKey, containers
<1>3. /\ DOMAIN networks' = DOMAIN networks \ {key}
      /\ \A k \in DOMAIN networks' : networks'[k] = networks[k]
      /\ networks' = [k \in DOMAIN networks' |-> networks'[k]]
  BY <1>1 DEF Without, Restrict
<1>4. Shapes'
  <2>1. frame' = [d \in Events |-> frame'[d]] /\ \A d \in Events : DOMAIN frame'[d] = DOMAIN NoCall
    BY <1>1, <1>2 DEF Return, TInv, Shapes
  <2> QED
    BY <1>1, <1>3, <2>1 DEF TInv, Shapes
<1>5. \A d \in Events \ {e} : pc[d] \in Cutting => mapKey(d) # key
  BY <1>1, Apart DEF Cutting
<1>6. \A d \in Events : Calling(d)'
  <2>1. Calling(e)'
    BY <1>2 DEF Calling, Joining, Cutting
  <2>2. \A d \in Events \ {e} : Calling(d)'
    BY <1>2, <1>3, <1>5 DEF TInv, Calling, Cutting
  <2> QED
    BY <2>1, <2>2
<1>7. DOMAIN networks' \ Stale' = DOMAIN networks \ Stale
  <2>1. {d \in Events : pc'[d] = "pop"} = {d \in Events : pc[d] = "pop"} \ {e}
    BY <1>1, <1>2
  <2>2. Stale = Stale' \cup {key}
    BY <1>1, <1>2, <2>1 DEF Stale
  <2> QED
    BY <1>3, <2>2
<1>8. \A k \in DOMAIN networks' : name_of(k)' = name_of(k)
  BY <1>1, <1>3 DEF name_of
<1>9. Fresh' = Fresh /\ \A d \in Events : pc'[d] = "put" => pc[d] = "put" /\ frame'[d] = frame[d]
  <2>1. {d \in Events : pc'[d] = "put"} = {d \in Events : pc[d] = "put"}
    BY <1>1, <1>2
  <2> QED
    BY <1>1, <1>2, <2>1 DEF Fresh
<1>10. Matching'
  <2> DEFINE Old == DOMAIN networks \ Stale
  <2>1. /\ {name_of(k) : k \in Old} \cup Fresh = DOMAIN docker
        /\ \A k, l \in Old : name_of(k) = name_of(l) => k = l
        /\ \A k \in Old : name_of(k) \notin Fresh
    BY DEF TInv, Matching
  <2>2. DOMAIN networks' \ Stale' = Old /\ \A k \in Old : name_of(k)' = name_of(k)
    BY <1>7, <1>8
  <2>3. \A d, f \in Events : pc'[d] = "put" /\ pc'[f] = "put" /\ frame'[d].name = frame'[f].name => d = f
    BY <1>9 DEF TInv, Matching
  <2> HIDE DEF Old
  <2>4. /\ {name_of(k)' : k \in Old} = {name_of(k) : k \in Old}
        /\ \A k, l \in Old : name_of(k)' = name_of(l)' => k = l
        /\ \A k \in Old : name_of(k)' \notin Fresh
    BY <2>1, <2>2
  <2> QED
    BY <1>1, <1>9, <2>1, <2>2, <2>3, <2>4 DEF Matching
<1> QED
  BY <1>4, <1>6, <1>10 DEF TInv

-----------------------------------------------------------------------------
\* The tear-down finds every network of docker in the table.
LEMMA TearDownKeeps ==
    ASSUME TInv, OInv', Main
    PROVE  TInv'
<1>1. Stale = {} /\ Fresh = {}
  BY DEF Main, TearDown, DeleteNetworks, TInv, OInv, Ended, Stale, Fresh
<1>2. UNCHANGED <<tableVars, pc, frame, todo>>
  BY DEF Main, TearDown, DeleteNetworks
<1>3. \A e \in Events : Calling(e)'
  BY <1>2 DEF TInv, Calling, mapKey, containers, tableVars
<1>4. CASE TearDown
  <2>1. /\ docker' = [name \in DOMAIN docker |-> {}] /\ running' = {}
        /\ main = "join" /\ main' = "delete"
    BY <1>4 DEF TearDown, compose_down
  <2>2. Shapes'
    BY <1>2, <2>1 DEF TInv, Shapes, tableVars
  <2>3. Stale' = Stale /\ Fresh' = Fresh /\ \A key \in DOMAIN networks : name_of(key)' = name_of(key)
    BY <1>2 DEF Stale, Fresh, name_of, mapKey, containers, tableVars
  <2>4. Matching'
    BY <1>2, <2>1, <2>3 DEF TInv, Matching, tableVars
  <2> QED
    BY <1>2, <1>3, <2>1, <2>2, <2>4 DEF TInv
<1>5. CASE DeleteNetworks
  <2>1. /\ deleteAllNetworks /\ running' = running
        /\ main = "delete" /\ main' = "ended"
    BY <1>5 DEF DeleteNetworks
  <2>2. {objects[networks[key]].name : key \in DOMAIN networks} = DOMAIN docker
    BY <1>1, <2>1 DEF TInv, Matching, name_of
  <2>3. \A name \in DOMAIN docker : CanRemove(name)
    BY <2>1 DEF TInv, CanRemove
  <2>4. docker' = Empty
    <3>1. {n \in DOMAIN docker : CanRemove(n)} = DOMAIN docker
      BY <2>3
    <3>2. docker' = Restrict(docker, {})
      BY <2>1, <2>2, <3>1 DEF deleteAllNetworks
    <3> QED
      BY <3>2 DEF Restrict, Empty
  <2>5. Shapes'
    BY <1>2, <2>4 DEF TInv, Shapes, tableVars, Empty
  <2> QED
    BY <1>2, <1>3, <2>1, <2>4, <2>5 DEF TInv
<1> QED
  BY <1>4, <1>5 DEF Main

LEMMA TableInit == Init => TInv
<1> SUFFICES ASSUME Init PROVE TInv
  OBVIOUS
<1>1. OInv
  BY EngineInit
<1>2. /\ frame = [e \in Events |-> NoCall] /\ objects = <<>> /\ networks = Empty
      /\ docker = Empty /\ main = "join" /\ todo = Do
      /\ pc = [e \in Events |-> "dependOn"]
  BY DEF Init, NetworkActionsInit, DockerInit
<1>3. objects \in Seq(Range(objects)) /\ Len(objects) = 0
  BY <1>2, EmptySeq
<1>4. Shapes
  BY <1>2, <1>3 DEF Shapes, Empty
<1>5. \A e \in Events : Calling(e)
  BY <1>2 DEF Calling, Joining, Cutting
<1>6. Matching
  BY <1>2 DEF Matching, Stale, Fresh, Empty
<1> QED
  BY <1>1, <1>2, <1>4, <1>5, <1>6 DEF TInv

LEMMA TableNext == OneAtATime /\ TInv /\ [Next]_vars => TInv'
<1> SUFFICES ASSUME OneAtATime, TInv, [Next]_vars PROVE TInv'
  OBVIOUS
<1>1. OInv'
  BY EngineNext DEF TInv
<1>2. ASSUME NEW e \in Events, Worker(e) PROVE TInv'
  <2>1. main = "join" /\ main' = "join" /\ \A f \in Events : todo'[f] \subseteq todo[f]
    <3>1. UNCHANGED main
      BY <1>2 DEF Worker, WaitForEvents, Command, DoAction, Finish, engineVars
    <3>2. \A f \in Events : todo'[f] \subseteq todo[f]
      BY <1>2 DEF Worker, WaitForEvents, Command, DoAction, Finish, engineVars, TInv, OInv
    <3>3. ~Ended(e)
      BY <1>2 DEF Worker, WaitForEvents, Command, DoAction, Finish, NetworkStep, connect,
         InspectNetwork, CreateNetwork, PutNetwork, InterfacesBefore, Attach, InterfacesAfter,
         ListInterface, disconnect, LookUpNetwork, Detach, Unlist, DeleteNetwork, PopNetwork,
         executeNetemCommandsForNetwork, ConnectedContainers, ChooseInterface, ChooseCommand,
         Emulate, SetNetemInitialized, CallContainers, TimerStep, startTimer, LookUpTimer,
         ReadTimer, PopTimer, Ended
    <3> QED
      BY <3>1, <3>2, <3>3 DEF TInv, OInv
  <2>2. CASE Quiet(e)
    BY <1>1, <2>1, <2>2, QuietKeeps
  <2>3. CASE NetworkStep(e) /\ UNCHANGED engineVars
    BY <1>1, <2>1, <2>2, <2>3, ConnectQuiet, InspectQuiet, BeforeQuiet, AttachQuiet,
       AfterQuiet, ListQuiet, DisconnectQuiet, LookUpQuiet, DetachQuiet, UnlistQuiet,
       NetemQuiet, ChooseQuiet, EmulateQuiet, ContainersQuiet, CreateKeeps, PutKeeps,
       DeleteKeeps, PopKeeps DEF NetworkStep, engineVars
  <2> QED
    BY <1>2, <2>2, <2>3, EngineQuiet, DoQuiet, TimerQuiet DEF Worker
<1>3. CASE UNCHANGED vars
  BY <1>1, <1>3 DEF vars, simulatorVars, dockerVars, tableVars, engineVars, TInv, Shapes,
                    Calling, Matching, Stale, Fresh, mapKey, containers, name_of
<1> QED
  BY <1>1, <1>2, <1>3, TearDownKeeps DEF Next

-----------------------------------------------------------------------------
(* The theorems on the table. *)

\* Where no two events join the same containers or cut the same network without
\* an order between them, every network of docker is in the table.
THEOREM TableInvariance == OneAtATime => (Spec => []TInv)
<1> SUFFICES ASSUME OneAtATime PROVE Spec => []TInv
  OBVIOUS
<1>1. TInv /\ [Next]_vars => TInv'
  BY TableNext
<1> QED
  BY <1>1, TableInit, PTL DEF Spec

\* Between actions the table then lists docker's networks, each of them once.
THEOREM TableIsDockers == OneAtATime => (Spec => []TableMatchesDocker)
<1>1. TInv => TableMatchesDocker
  <2> SUFFICES ASSUME TInv, main = "join", \A e \in Events : frame[e] = NoCall
               PROVE  /\ {objects[networks[key]].name : key \in DOMAIN networks} = DOMAIN docker
                      /\ \A k, l \in DOMAIN networks :
                             objects[networks[k]].name = objects[networks[l]].name => k = l
    BY DEF TableMatchesDocker
  <2>1. \A e \in Events : pc[e] \notin Between
    BY DEF TInv, Calling, Joining, Cutting, Between, NoCall
  <2>2. Stale = {} /\ Fresh = {}
    BY <2>1 DEF Stale, Fresh, Between
  <2> QED
    BY <2>2 DEF TInv, Matching, name_of
<1> QED
  BY <1>1, TableInvariance, PTL

\* No container runs and no network is left when the simulator has ended.
THEOREM NothingIsLeft == OneAtATime => (Spec => []NoArtifactsLeft)
<1>1. TInv => NoArtifactsLeft
  BY DEF TInv, NoArtifactsLeft
<1> QED
  BY <1>1, TableInvariance, PTL

-----------------------------------------------------------------------------
(* What the objects of networks say of interfaces.                          *)

Attaching == {"before", "attach", "after", "list"}
Affecting == {"keys", "interface", "mode", "tc", "initialized"}

connected(key) == objects[networks[key]].connected

\* Every network of the table has an object of its own, and others list nothing; a
\* container that does not run has no interfaces.
Distinct ==
    /\ \A k, l \in DOMAIN networks : networks[k] = networks[l] => k = l
    /\ \A i \in 1 .. Len(objects) :
           (\A key \in DOMAIN networks : networks[key] # i) => DOMAIN objects[i].connected = {}
    /\ interfaces = [c \in Containers |-> interfaces[c]]
    /\ \A c \in Containers \ running : DOMAIN interfaces[c] = {}
    /\ \A c \in Containers : IsFiniteSet(DOMAIN interfaces[c])
    /\ IsFiniteSet(DOMAIN docker)

\* The containers a thread has left to work on are those of its list.
Working(e) ==
    /\ pc[e] \in Attaching \cup {"detach", "unlist"} =>
           frame[e].left \in Seq(mapKey(e)) /\ frame[e].left # <<>>
    /\ pc[e] = "container" =>
           \E action \in Do[e] : /\ action.name = frame[e].command
                                 /\ frame[e].left \in Seq(ToSet(action.container))
                                 /\ frame[e].left # <<>>
    /\ pc[e] \in Affecting \cup {"netem"} => mapKey(e) \subseteq OfActions(e, Effects)
    /\ pc[e] = "dependOn" => todo[e] = Do[e]

\* A thread that attaches containers does so to the network of its key.
Naming(e) ==
    pc[e] \in Attaching =>
        mapKey(e) \in DOMAIN networks \ Stale /\ name_of(mapKey(e)) = frame[e].name

\* Who may start a container has finished, or will find it running when it does.
Settled(b, c) == pc[b] = "finished" \/ (StartsItself(b, c) /\ c \in running /\ pc[b] # "dependOn")

AllSettled(c) == \A b \in Events : c \in BootedBy(b) => Settled(b, c)

\* The container of a thread is attached to the network of its key ...
Attached(e) == frame[e].name \in DOMAIN docker /\ current(e) \in docker[frame[e].name]

\* ... and has this interface there as long as it runs.
Found(e, i) ==
    /\ i \in Nat
    /\ current(e) \in running => /\ i \in DOMAIN interfaces[current(e)]
                                 /\ interfaces[current(e)][i] = frame[e].name

\* No interface appears in a container beside the one its thread waits for, and no
\* start of the container will change that one.
Watching(e) ==
    /\ pc[e] = "attach" => ls(current(e)) \subseteq frame[e].before
    /\ pc[e] = "after" /\ ~frame[e].failed =>
           Attached(e) /\ \A i \in new_interfaces(e) : Found(e, i) /\ new_interfaces(e) = {i}
    /\ pc[e] = "list" => Attached(e) /\ Found(e, frame[e].interface) /\ AllSettled(current(e))

\* An effect works on the object of its key, if that one is in the table, and on an
\* interface of the network, or on one that is gone and will not be given out.
Aiming(e) ==
    /\ pc[e] \in Affecting =>
           /\ frame[e].object \in 1 .. Len(objects)
           /\ \A key \in DOMAIN networks : networks[key] = frame[e].object => key = mapKey(e)
    /\ pc[e] \in {"mode", "tc"} =>
           /\ current(e) \in Containers \cap OfActions(e, Effects)
           /\ frame[e].interface \in Nat
           /\ frame[e].interface \in DOMAIN interfaces[current(e)] =>
                  interfaces[current(e)][frame[e].interface] = network(e).name
           /\ AllSettled(current(e))

\* A container that is kept off does not run, or its stop is still to come.
Pending(s, c) ==
    \/ pc[s] = "aborted"
    \/ \E action \in todo[s] : action.name = "stopContainer" /\ c \in ToSet(action.container)
    \/ pc[s] = "container" /\ frame[s].command = "stopContainer" /\ c \in ToSet(frame[s].left)

StaysOff ==
    \A s, e \in Events : \A c \in Containers :
        KeepsOff(s, c, e) /\ pc[s] # "dependOn" /\ pc[e] # "finished" =>
            c \notin running \/ Pending(s, c)

\* A container that was detached a moment ago is still listed.
Leaving(key, c) == \E e \in Events : pc[e] = "unlist" /\ mapKey(e) = key /\ current(e) = c

\* One that is attached has the interface it is listed with as long as it runs.
Linked(key, c) ==
    /\ name_of(key) \in DOMAIN docker /\ c \in docker[name_of(key)]
    /\ c \in running => /\ connected(key)[c] \in DOMAIN interfaces[c]
                        /\ interfaces[c][connected(key)[c]] = name_of(key)

\* What is listed in the table.
Listed(key, c) ==
    /\ key \notin Stale
    /\ connected(key)[c] \in Nat
    /\ \/ Linked(key, c)
       \/ Leaving(key, c) /\ connected(key)[c] \notin DOMAIN interfaces[c]
    /\ AllSettled(c)

Listing ==
    \A key \in DOMAIN networks : \A c \in DOMAIN connected(key) :
        c \in key \cap Containers /\ (main = "join" => Listed(key, c))

Links == Distinct /\ Listing /\ \A e \in Events : Naming(e) /\ Watching(e) /\ Aiming(e)

\* The inductive invariant of interfaces.
LInv ==
    /\ TInv
    /\ Links
    /\ \A e \in Events : Working(e)
    /\ StaysOff

-----------------------------------------------------------------------------
(* The lists threads work on.                                               *)

LEMMA ListsOfJoin ==
    ASSUME NEW e \in Events, NEW list \in Joins(e)
    PROVE  list \in Seq(Containers) /\ list # <<>>
<1>1. PICK action \in Do[e] : action.name = "join" /\ list \in ToSet(connections(action))
  BY DEF Joins
<1> DEFINE all == action.container
           row == [i \in 1 .. Len(all) - 1 |-> SubSeq(all, i, i + 1)]
<1>2. /\ all \in Seq(Containers) /\ all # <<>>
      /\ action.mode \in {"cluster", "row", "ring"}
  BY <1>1, EventsAssumption
<1>3. Len(all) \in Nat \ {0} /\ \A i \in 1 .. Len(all) : all[i] \in Containers
  BY <1>2, EmptySeq, ElementOfSeq
<1>4. DOMAIN row = 1 .. Len(all) - 1
  OBVIOUS
<1>5. ASSUME NEW i \in 1 .. Len(all) - 1
      PROVE  row[i] \in Seq(Containers) /\ row[i] # <<>>
  <2>1. row[i] = SubSeq(all, i, i + 1)
    OBVIOUS
  <2>2. \A j \in i .. i + 1 : all[j] \in Containers
    BY <1>3
  <2>3. i \in Int /\ i + 1 \in Int /\ i <= i + 1 /\ (i + 1) - i + 1 = 2
    BY <1>3
  <2>4. SubSeq(all, i, i + 1) \in Seq(Containers) /\ Len(SubSeq(all, i, i + 1)) = 2
    BY <2>2, <2>3, SubSeqProperties
  <2> QED
    BY <2>1, <2>4, EmptySeq
<1>6. CASE action.mode = "cluster"
  <2>1. connections(action) = <<all>>
    BY <1>6 DEF connections
  <2>2. list = all
    BY <1>1, <2>1 DEF ToSet
  <2> QED
    BY <1>2, <2>2
<1>7. CASE action.mode = "row"
  <2>1. connections(action) = row
    BY <1>7 DEF connections
  <2> HIDE DEF row
  <2> QED
    BY <1>1, <1>4, <1>5, <2>1 DEF ToSet
<1>8. CASE action.mode = "ring"
  <2> DEFINE ends == <<all[1], Last(all)>>
             n    == Len(all) - 1
  <2>1. connections(action) = Append(row, ends)
    BY <1>8 DEF connections
  <2>2. ends \in Seq(Containers) /\ ends # <<>>
    <3>1. all[1] \in Containers /\ Last(all) \in Containers
      BY <1>3 DEF Last
    <3>2. Len(ends) = 2
      OBVIOUS
    <3> QED
      BY <3>1, <3>2, EmptySeq
  <2>3. n \in Nat /\ DOMAIN row = 1 .. n
    BY <1>3
  <2>4. row \in Seq(Seq(Containers)) /\ Len(row) = n
    <3>1. row \in [1 .. n -> Seq(Containers)]
      <4> HIDE DEF n
      <4>1. row = [i \in 1 .. n |-> row[i]]
        BY DEF n
      <4> HIDE DEF row
      <4> QED
        BY <1>5, <4>1 DEF n
    <3> HIDE DEF row, n
    <3> QED
      BY <2>3, <3>1, LenProperties
  <2>5. /\ Len(Append(row, ends)) = n + 1
        /\ DOMAIN Append(row, ends) = 1 .. n + 1
        /\ \A i \in 1 .. n : Append(row, ends)[i] = row[i]
        /\ Append(row, ends)[n + 1] = ends
    <3> HIDE DEF row, n, ends
    <3> QED
      BY <2>2, <2>4, AppendProperties, LenProperties
  <2>6. PICK i \in 1 .. n + 1 : list = Append(row, ends)[i]
    BY <1>1, <2>1, <2>5 DEF ToSet
  <2> HIDE DEF row, ends
  <2>7. CASE i \in 1 .. n
    BY <1>5, <2>5, <2>6, <2>7
  <2>8. CASE i = n + 1
    BY <2>2, <2>5, <2>6, <2>8
  <2> QED
    BY <2>3, <2>7, <2>8
<1> QED
  BY <1>2, <1>6, <1>7, <1>8

\* A sequence is one of its elements.
LEMMA OwnElements ==
    ASSUME NEW S, NEW s \in Seq(S)
    PROVE  s \in Seq(ToSet(s)) /\ ToSet(s) \subseteq S
<1>1. ToSet(s) = Range(s)
  BY DEF ToSet, Range
<1>2. ToSet(s) \subseteq S
  BY LenProperties, ElementOfSeq DEF ToSet
<1> QED
  BY <1>1, <1>2, SeqOfRange

LEMMA KeyOfThread ==
    ASSUME TInv, NEW e \in Events, pc[e] \in Joining \cup Cutting
    PROVE  /\ mapKey(e) \subseteq Containers
           /\ pc[e] \in Joining => mapKey(e) \subseteq JoinedBy(e)
           /\ mapKey(e) \subseteq UsedBy(e)
           /\ containers(e) \in Seq(mapKey(e)) /\ containers(e) # <<>>
<1>1. CASE pc[e] \in Joining
  <2>1. containers(e) \in Joins(e)
    BY <1>1, HeadTailProperties DEF TInv, Calling, containers
  <2>2. containers(e) \in Seq(Containers) /\ containers(e) # <<>>
    BY <2>1, ListsOfJoin
  <2>3. mapKey(e) \in JoinKeys(e)
    BY <2>1 DEF JoinKeys, mapKey
  <2> QED
    BY <2>2, <2>3, OwnElements DEF mapKey, getMapKey, JoinedBy, UsedBy
<1>2. CASE pc[e] \in Cutting
  <2>1. containers(e) \in Cuts(e)
    BY <1>2, HeadTailProperties DEF TInv, Calling, containers
  <2>2. containers(e) \in Seq(Containers) /\ containers(e) # <<>>
    BY <2>1, EventsAssumption DEF Cuts
  <2>3. pc[e] \notin Joining
    BY <1>2 DEF Joining, Cutting
  <2>4. mapKey(e) \in CutKeys(e)
    BY <2>1 DEF CutKeys, mapKey
  <2> QED
    BY <2>2, <2>3, <2>4, OwnElements DEF mapKey, getMapKey, UsedBy
<1> QED
  BY <1>1, <1>2

\* The rest of a sequence.
LEMMA RestOf ==
    ASSUME NEW S, NEW s \in Seq(S), s # <<>>
    PROVE  /\ Head(s) \in S /\ Tail(s) \in Seq(S)
           /\ \A x \in ToSet(s) : x # Head(s) => x \in ToSet(Tail(s)) /\ Tail(s) # <<>>
<1>1. /\ Head(s) \in S /\ Tail(s) \in Seq(S) /\ Len(Tail(s)) = Len(s) - 1
      /\ \A i \in 1 .. Len(Tail(s)) : Tail(s)[i] = s[i + 1]
  BY HeadTailProperties
<1>2. /\ Len(s) \in Nat /\ DOMAIN s = 1 .. Len(s) /\ DOMAIN Tail(s) = 1 .. Len(s) - 1
      /\ Head(s) = s[1]
  BY <1>1, LenProperties
<1>3. ASSUME NEW x, x \in ToSet(s)
      PROVE  x # Head(s) => x \in ToSet(Tail(s)) /\ Tail(s) # <<>>
  <2>1. PICK i \in 1 .. Len(s) : x = s[i]
    BY <1>2, <1>3 DEF ToSet
  <2>2. CASE i = 1
    BY <1>2, <2>1, <2>2
  <2>3. CASE i # 1
    <3>1. i - 1 \in 1 .. Len(s) - 1
      BY <1>2, <2>3
    <3>2. Tail(s)[i - 1] = x
      BY <1>1, <1>2, <2>1, <3>1
    <3>3. x \in ToSet(Tail(s))
      BY <1>2, <3>1, <3>2 DEF ToSet
    <3>4. Len(<<>>) = 0 /\ Len(Tail(s)) # 0
      BY <1>1, <1>2, <3>1
    <3> QED
      BY <3>3, <3>4
  <2> QED
    BY <2>2, <2>3
<1> QED
  BY <1>1, <1>3

-----------------------------------------------------------------------------
(* Who may start a container and who may stop it.                           *)

LEMMA HasFinished ==
    ASSUME OInv, NEW d \in Events, NEW e \in Events, First(d, e), pc[e] # "dependOn"
    PROVE  pc[d] = "finished"
<1> DEFINE S == threadsFinished \cup {e}
<1>1. threadsFinished = {f \in Events : pc[f] = "finished"}
  BY DEF OInv
<1>2. \A f \in S : pc[f] # "dependOn" /\ f \in Events
  BY <1>1
<1>3. \A f \in S : DependOn[f] \subseteq S
  BY <1>2 DEF OInv
<1>4. S \in SUBSET Events /\ e \in S
  BY <1>2
<1>5. d \in S
  BY <1>3, <1>4 DEF First, Before
<1> QED
  BY <1>1, <1>5 DEF First

\* Nobody while another event joins it ...
LEMMA NobodyStarts ==
    ASSUME Orderly, OInv, NEW b \in Events, NEW e \in Events, b # e, Active(b), Active(e),
           NEW c \in BootedBy(b) \cap JoinedBy(e)
    PROVE  FALSE
<1>1. First(b, e) \/ \E s \in Events : KeepsOff(s, c, e)
  BY DEF Orderly
<1>2. ~First(b, e) /\ ~First(e, b)
  BY HasFinished DEF Active
<1>3. PICK s \in Events : KeepsOff(s, c, e)
  BY <1>1, <1>2
<1>4. First(b, s) /\ First(s, e)
  BY <1>2, <1>3 DEF KeepsOff
<1>5. pc[s] = "finished"
  BY <1>4, HasFinished DEF Active
<1>6. pc[b] = "finished"
  BY <1>4, <1>5, HasFinished
<1> QED
  BY <1>6 DEF Active

\* ... and, if it runs then, nobody at any time after to any effect.
LEMMA NobodyWillStart ==
    ASSUME Orderly, LInv, NEW e \in Events, Active(e),
           NEW c \in running \cap JoinedBy(e), c \in Containers,
           NEW b \in Events, c \in BootedBy(b)
    PROVE  Settled(b, c)
<1>1. CASE First(b, e)
  BY <1>1, HasFinished DEF Active, LInv, TInv, Settled
<1>2. ASSUME NEW s \in Events, KeepsOff(s, c, e) PROVE FALSE
  <2>1. pc[s] = "finished"
    BY <1>2, HasFinished DEF KeepsOff, Active, LInv, TInv
  <2>2. todo[s] = {}
    BY <2>1 DEF LInv, TInv, OInv
  <2>3. ~Pending(s, c)
    BY <2>1, <2>2 DEF Pending
  <2> QED
    BY <1>2, <2>1, <2>3 DEF LInv, StaysOff, Active
<1>3. CASE b = e /\ StartsItself(e, c)
  BY <1>3 DEF Active, Settled
<1> QED
  BY <1>1, <1>2, <1>3 DEF Orderly

\* While an event joins a container no other one joins, cuts or affects it.
LEMMA NobodyElse ==
    ASSUME Orderly, OInv, NEW d \in Events, NEW e \in Events, d # e, Active(d), Active(e),
           NEW c \in JoinedBy(d), c \in UsedBy(e)
    PROVE  FALSE
  BY OneIsOver DEF Orderly

\* All steps of a thread are its own, and it has not ended.
LEMMA WorkerOnly ==
    ASSUME TInv, NEW e \in Events, Worker(e)
    PROVE  Only(e) /\ ~Ended(e) /\ main = "join" /\ main' = "join"
<1>1. Only(e)
  <2>1. CASE CreateNetwork(e)
    <3>1. CASE NextCall(e) /\ UNCHANGED <<tableVars, dockerVars>>
      BY <2>1, <3>1, TableStays, NextCallQuiet DEF CreateNetwork, dockerVars, Joining, Between, Quiet
    <3>2. UNCHANGED frame => frame' = [frame EXCEPT ![e] = frame[e]] /\ DOMAIN frame[e] = DOMAIN NoCall
      BY DEF TInv, Shapes
    <3>3. CASE Goto(e, "put") /\ UNCHANGED frame
      BY <3>2, <3>3 DEF Goto, Only
    <3> QED
      BY <2>1, <3>1, <3>3 DEF CreateNetwork
  <2>2. CASE PutNetwork(e)
    <3>1. DOMAIN [frame[e] EXCEPT !.left = containers(e)] = DOMAIN NoCall
      BY DEF TInv, Shapes
    <3> QED
      BY <2>2, <3>1 DEF PutNetwork, Goto, Only
  <2>3. CASE DeleteNetwork(e)
    <3>1. UNCHANGED frame => frame' = [frame EXCEPT ![e] = frame[e]] /\ DOMAIN frame[e] = DOMAIN NoCall
      BY DEF TInv, Shapes
    <3> QED
      BY <2>3, <3>1 DEF DeleteNetwork, Return, Goto, Only
  <2>4. CASE PopNetwork(e)
    BY <2>4 DEF PopNetwork, Return, Goto, Only
  <2> QED
    BY <2>1, <2>2, <2>3, <2>4, ConnectQuiet, InspectQuiet, BeforeQuiet, AttachQuiet, AfterQuiet,
       ListQuiet, DisconnectQuiet, LookUpQuiet, DetachQuiet, UnlistQuiet, NetemQuiet, ChooseQuiet,
       EmulateQuiet, ContainersQuiet, EngineQuiet, DoQuiet, TimerQuiet
    DEF Worker, NetworkStep, Quiet
<1>2. UNCHANGED main
  BY DEF Worker, WaitForEvents, Command, DoAction, Finish, engineVars
<1>3. ~Ended(e)
  BY DEF Worker, WaitForEvents, Command, DoAction, Finish, NetworkStep, connect,
     InspectNetwork, CreateNetwork, PutNetwork, InterfacesBefore, Attach, InterfacesAfter,
     ListInterface, disconnect, LookUpNetwork, Detach, Unlist, DeleteNetwork, PopNetwork,
     executeNetemCommandsForNetwork, ConnectedContainers, ChooseInterface, ChooseCommand,
     Emulate, SetNetemInitialized, CallContainers, TimerStep, startTimer, LookUpTimer,
     ReadTimer, PopTimer, Ended
<1> QED
  BY <1>1, <1>2, <1>3 DEF TInv, OInv

\* What no step of e changes of another thread.
LEMMA OthersStay ==
    ASSUME TInv, NEW e \in Events, Only(e), NEW d \in Events \ {e}
    PROVE  /\ pc'[d] = pc[d] /\ frame'[d] = frame[d]
           /\ mapKey(d)' = mapKey(d) /\ current(d)' = current(d)
  BY DEF Only, TInv, OInv, Shapes, mapKey, containers, current

-----------------------------------------------------------------------------
(* The containers a thread has left.                                        *)

Resting == Attaching \cup Affecting \cup {"dependOn", "detach", "unlist", "container", "netem"}

\* A label at which nothing is said of them.
LEMMA WorkingElsewhere ==
    ASSUME NEW e \in Events, pc'[e] \notin Resting
    PROVE  Working(e)'
  BY DEF Working, Resting

LEMMA LabelOf ==
    ASSUME TInv, NEW e \in Events, NEW label, Goto(e, label)
    PROVE  pc'[e] = label
  BY DEF Goto, TInv, OInv

\* Return, KeyError and the next call of connect leave them behind.
LEMMA WorkingLeft ==
    ASSUME TInv, NEW e \in Events, Return(e) \/ KeyError(e) \/ NextCall(e)
    PROVE  /\ Working(e)'
           /\ pc'[e] \in {"do", "aborted", "connect"}
<1>1. pc'[e] \in {"do", "aborted", "connect"}
  BY LabelOf DEF Return, KeyError, NextCall, Call
<1> QED
  BY <1>1, WorkingElsewhere DEF Resting, Attaching, Affecting

\* The loop goes on with the rest of them.
LEMMA WorkingLoop ==
    ASSUME LInv, NEW e \in Events, NEW f, NEW again, f.left = frame[e].left,
           DOMAIN f = DOMAIN NoCall,
           f.calls = frame[e].calls, f.command = frame[e].command,
           Tail(f.left) # <<>>, Goto(e, again),
           frame' = [frame EXCEPT ![e] = [f EXCEPT !.left = Tail(@)]],
           \/ again \in {"before", "detach"} /\ pc[e] \in Attaching \cup {"detach", "unlist"}
           \/ again = "container" /\ pc[e] = "container"
           \/ again = "interface" /\ pc[e] \in Affecting
    PROVE  Working(e)'
<1>1. /\ pc'[e] = again
      /\ frame'[e].left = Tail(frame[e].left) /\ frame'[e].calls = frame[e].calls
      /\ frame'[e].command = frame[e].command
  <2> DEFINE g == [f EXCEPT !.left = Tail(@)]
  <2>1. /\ g.left = Tail(frame[e].left) /\ g.calls = frame[e].calls
        /\ g.command = frame[e].command
    BY DEF NoCall
  <2>2. frame' = [frame EXCEPT ![e] = g]
    OBVIOUS
  <2> HIDE DEF g
  <2>3. frame'[e] = g
    BY <2>2 DEF LInv, TInv, Shapes
  <2> QED
    BY <2>1, <2>3, LabelOf DEF LInv
<1>2. mapKey(e)' = mapKey(e)
  BY <1>1 DEF mapKey, containers
<1>3. CASE again \in {"before", "detach"} /\ pc[e] \in Attaching \cup {"detach", "unlist"}
  <2>1. frame[e].left \in Seq(mapKey(e)) /\ frame[e].left # <<>>
    BY <1>3 DEF LInv, Working
  <2>2. frame'[e].left \in Seq(mapKey(e)) /\ frame'[e].left # <<>>
    BY <1>1, <2>1, RestOf
  <2> QED
    BY <1>1, <1>2, <1>3, <2>2 DEF Working, Affecting
<1>4. CASE again = "container" /\ pc[e] = "container"
  <2>1. PICK action \in Do[e] : /\ action.name = frame[e].command
                                /\ frame[e].left \in Seq(ToSet(action.container))
                                /\ frame[e].left # <<>>
    BY <1>4 DEF LInv, Working
  <2>2. frame'[e].left \in Seq(ToSet(action.container)) /\ frame'[e].left # <<>>
    BY <1>1, <2>1, RestOf
  <2> QED
    BY <1>1, <1>4, <2>1, <2>2 DEF Working, Attaching, Affecting
<1>5. CASE again = "interface" /\ pc[e] \in Affecting
  <2>1. mapKey(e) \subseteq OfActions(e, Effects)
    BY <1>5 DEF LInv, Working
  <2>2. OfActions(e, Effects)' = OfActions(e, Effects)
    BY DEF OfActions
  <2> QED
    BY <1>1, <1>2, <1>5, <2>1, <2>2 DEF Working, Attaching
<1> QED
  BY <1>3, <1>4, <1>5

\* They stay as they are while the thread looks at the first.
LEMMA WorkingOn ==
    ASSUME LInv, NEW e \in Events,
           \/ pc[e] \in Attaching \cup {"detach"} /\ pc'[e] \in Attaching \cup {"unlist"}
              /\ frame'[e].left = frame[e].left
           \/ pc[e] \in Affecting \cup {"netem"} /\ pc'[e] \in Affecting,
           frame'[e].calls = frame[e].calls
    PROVE  Working(e)'
<1>1. mapKey(e)' = mapKey(e)
  BY DEF mapKey, containers
<1>2. CASE /\ pc[e] \in Attaching \cup {"detach"} /\ pc'[e] \in Attaching \cup {"unlist"}
           /\ frame'[e].left = frame[e].left
  BY <1>1, <1>2 DEF LInv, Working, Attaching, Affecting
<1>3. CASE pc[e] \in Affecting \cup {"netem"} /\ pc'[e] \in Affecting
  <2>1. mapKey(e) \subseteq OfActions(e, Effects)
    BY <1>3 DEF LInv, Working
  <2>2. OfActions(e, Effects)' = OfActions(e, Effects)
    BY DEF OfActions
  <2> QED
    BY <1>1, <1>3, <2>1, <2>2 DEF Working, Attaching, Affecting
<1> QED
  BY <1>2, <1>3

\* They are those of the list when the loop begins.
LEMMA WorkingBegins ==
    ASSUME TInv, NEW e \in Events, pc[e] \in Joining \cup Cutting,
           pc'[e] \in {"before", "detach"},
           frame'[e].left = containers(e), frame'[e].calls = frame[e].calls
    PROVE  Working(e)'
<1>1. mapKey(e)' = mapKey(e)
  BY DEF mapKey, containers
<1>2. containers(e) \in Seq(mapKey(e)) /\ containers(e) # <<>>
  BY KeyOfThread
<1> QED
  BY <1>1, <1>2 DEF Working, Affecting

LEMMA WorkingOfJoin ==
    ASSUME LInv, NEW e \in Events,
           \/ connect(e) \/ InspectNetwork(e) \/ CreateNetwork(e) \/ PutNetwork(e)
           \/ InterfacesBefore(e) \/ Attach(e) \/ InterfacesAfter(e) \/ ListInterface(e)
    PROVE  Working(e)'
<1>1. TInv /\ DOMAIN frame[e] = DOMAIN NoCall
  BY DEF LInv, TInv, Shapes
<1>2. \A label : Goto(e, label) => pc'[e] = label
  BY <1>1, LabelOf
<1>3. CASE connect(e) \/ InspectNetwork(e) \/ CreateNetwork(e)
  <2>1. CASE NextCall(e)
    BY <1>1, <2>1, WorkingLeft
  <2>2. CASE pc'[e] \in {"inspect", "create", "put"}
    BY <2>2, WorkingElsewhere DEF Resting, Attaching, Affecting
  <2>3. CASE InspectNetwork(e) /\ UNCHANGED pc
    <3>1. pc'[e] = "inspect"
      BY <2>3 DEF InspectNetwork
    <3> QED
      BY <3>1, WorkingElsewhere DEF Resting, Attaching, Affecting
  <2> QED
    BY <1>2, <1>3, <2>1, <2>2, <2>3 DEF connect, InspectNetwork, CreateNetwork
<1>4. CASE PutNetwork(e)
  <2>1. frame'[e].left = containers(e) /\ frame'[e].calls = frame[e].calls
    BY <1>1, <1>4 DEF PutNetwork, NoCall, TInv, Shapes
  <2>2. pc[e] = "put" /\ pc'[e] = "before"
    BY <1>2, <1>4 DEF PutNetwork
  <2> QED
    BY <1>1, <2>1, <2>2, WorkingBegins DEF Joining
<1>5. CASE InterfacesBefore(e)
  <2>1. frame'[e].left = frame[e].left /\ frame'[e].calls = frame[e].calls
    BY <1>1, <1>5 DEF InterfacesBefore, NoCall, TInv, Shapes
  <2> QED
    BY <1>2, <1>5, <2>1, WorkingOn DEF InterfacesBefore, Attaching
<1>6. CASE Attach(e)
  <2>1. frame'[e].left = frame[e].left /\ frame'[e].calls = frame[e].calls
    BY <1>1, <1>6 DEF Attach, NoCall, TInv, Shapes
  <2> QED
    BY <1>2, <1>6, <2>1, WorkingOn DEF Attach, Attaching
<1>7. CASE InterfacesAfter(e) \/ ListInterface(e)
  <2>1. pc[e] \in Attaching
    BY <1>7 DEF InterfacesAfter, ListInterface, Attaching
  <2>2. CASE KeyError(e) \/ NextCall(e)
    BY <1>1, <2>2, WorkingLeft
  <2>3. CASE /\ Tail(frame[e].left) # <<>> /\ Goto(e, "before")
             /\ frame' = [frame EXCEPT ![e] = [frame[e] EXCEPT !.left = Tail(@)]]
    BY <1>1, <2>1, <2>3, WorkingLoop
  <2>4. CASE Goto(e, "list") /\ \E i : frame' = [frame EXCEPT ![e].interface = i]
    <3>1. frame'[e].left = frame[e].left /\ frame'[e].calls = frame[e].calls
      BY <1>1, <2>4 DEF NoCall, TInv, Shapes
    <3> QED
      BY <1>2, <2>1, <2>4, <3>1, WorkingOn DEF Attaching
  <2> QED
    BY <1>7, <2>2, <2>3, <2>4 DEF InterfacesAfter, ListInterface, Loop
<1> QED
  BY <1>3, <1>4, <1>5, <1>6, <1>7

LEMMA WorkingOfCut ==
    ASSUME LInv, NEW e \in Events,
           \/ disconnect(e) \/ LookUpNetwork(e) \/ Detach(e) \/ Unlist(e)
           \/ DeleteNetwork(e) \/ PopNetwork(e)
    PROVE  Working(e)'
<1>1. TInv /\ DOMAIN frame[e] = DOMAIN NoCall
  BY DEF LInv, TInv, Shapes
<1>2. \A label : Goto(e, label) => pc'[e] = label
  BY <1>1, LabelOf
<1>3. CASE Return(e) \/ KeyError(e)
  BY <1>1, <1>3, WorkingLeft
<1>4. CASE Goto(e, "lookup") \/ Goto(e, "delete") \/ Goto(e, "pop")
  BY <1>2, <1>4, WorkingElsewhere DEF Resting, Attaching, Affecting
<1>5. CASE /\ pc[e] = "lookup" /\ Goto(e, "detach")
           /\ frame' = [frame EXCEPT ![e].object = networks[mapKey(e)], ![e].left = containers(e)]
  <2>1. frame'[e].left = containers(e) /\ frame'[e].calls = frame[e].calls
    BY <1>1, <1>5 DEF NoCall, TInv, Shapes
  <2> QED
    BY <1>1, <1>2, <1>5, <2>1, WorkingBegins DEF Cutting
<1>6. CASE pc[e] = "detach" /\ Goto(e, "unlist") /\ UNCHANGED frame
  BY <1>2, <1>6, WorkingOn
<1>7. CASE /\ pc[e] = "unlist" /\ Tail(frame[e].left) # <<>> /\ Goto(e, "detach")
           /\ frame' = [frame EXCEPT ![e] = [frame[e] EXCEPT !.left = Tail(@)]]
  BY <1>1, <1>7, WorkingLoop
<1>8. CASE pc[e] = "detach" /\ NextContainer(e, [frame[e] EXCEPT !.failed = TRUE])
  <2> DEFINE f == [frame[e] EXCEPT !.failed = TRUE]
  <2>1. /\ f.left = frame[e].left /\ f.calls = frame[e].calls /\ f.command = frame[e].command
        /\ DOMAIN f = DOMAIN NoCall
    BY <1>1 DEF NoCall
  <2>2. \/ Return(e) \/ Goto(e, "delete")
        \/ /\ Tail(f.left) # <<>> /\ Goto(e, "detach")
           /\ frame' = [frame EXCEPT ![e] = [f EXCEPT !.left = Tail(@)]]
    BY <1>8 DEF NextContainer, Loop
  <2> HIDE DEF f
  <2> QED
    BY <1>1, <1>3, <1>4, <1>8, <2>1, <2>2, WorkingLoop
<1>9. CASE disconnect(e) \/ LookUpNetwork(e)
  BY <1>3, <1>4, <1>5, <1>9 DEF disconnect, LookUpNetwork
<1>10. CASE Detach(e)
  BY <1>6, <1>8, <1>10 DEF Detach
<1>11. CASE Unlist(e)
  BY <1>3, <1>4, <1>7, <1>11 DEF Unlist, NextContainer, Loop
<1>12. CASE DeleteNetwork(e) \/ PopNetwork(e)
  BY <1>3, <1>4, <1>12 DEF DeleteNetwork, PopNetwork
<1> QED
  BY <1>9, <1>10, <1>11, <1>12

LEMMA WorkingOfEffects ==
    ASSUME LInv, NEW e \in Events,
           \/ executeNetemCommandsForNetwork(e) \/ ConnectedContainers(e) \/ ChooseInterface(e)
           \/ ChooseCommand(e) \/ Emulate(e) \/ SetNetemInitialized(e)
    PROVE  Working(e)'
<1>1. TInv /\ DOMAIN frame[e] = DOMAIN NoCall /\ frame = [d \in Events |-> frame[d]]
  BY DEF LInv, TInv, Shapes
<1>2. \A label : Goto(e, label) => pc'[e] = label
  BY <1>1, LabelOf
<1>3. pc[e] \in Affecting \cup {"netem"}
  BY DEF executeNetemCommandsForNetwork, ConnectedContainers, ChooseInterface, ChooseCommand,
         Emulate, SetNetemInitialized, Affecting
<1>4. CASE Return(e) \/ KeyError(e)
  BY <1>1, <1>4, WorkingLeft
<1>5. CASE /\ \E label \in Affecting : Goto(e, label)
           /\ frame'[e].calls = frame[e].calls
  BY <1>2, <1>3, <1>5, WorkingOn
<1>6. CASE /\ pc[e] \in Affecting /\ Tail(frame[e].left) # <<>> /\ Goto(e, "interface")
           /\ frame' = [frame EXCEPT ![e] = [frame[e] EXCEPT !.left = Tail(@)]]
  BY <1>1, <1>6, WorkingLoop
<1>7. /\ \A x : frame' = [frame EXCEPT ![e].object = x] => frame'[e].calls = frame[e].calls
      /\ \A x : frame' = [frame EXCEPT ![e].left = x] => frame'[e].calls = frame[e].calls
      /\ \A x : frame' = [frame EXCEPT ![e].interface = x] => frame'[e].calls = frame[e].calls
      /\ \A x : frame' = [frame EXCEPT ![e].command = x] => frame'[e].calls = frame[e].calls
      /\ frame' = frame => frame'[e].calls = frame[e].calls
  BY <1>1 DEF NoCall
<1>8. CASE executeNetemCommandsForNetwork(e) \/ ConnectedContainers(e)
  BY <1>4, <1>5, <1>7, <1>8 DEF executeNetemCommandsForNetwork, ConnectedContainers, Affecting
<1>9. CASE ChooseInterface(e) \/ ChooseCommand(e)
  BY <1>4, <1>5, <1>7, <1>9 DEF ChooseInterface, ChooseCommand, Affecting
<1>10. CASE Emulate(e) \/ SetNetemInitialized(e)
  BY <1>4, <1>5, <1>6, <1>7, <1>10 DEF Emulate, SetNetemInitialized, Loop, Affecting
<1> QED
  BY <1>8, <1>9, <1>10

LEMMA WorkingNext ==
    ASSUME LInv, NEW e \in Events, Worker(e), NEW d \in Events
    PROVE  Working(d)'
<1>1. TInv /\ DOMAIN frame[e] = DOMAIN NoCall /\ Only(e)
  BY WorkerOnly DEF LInv, TInv, Shapes
<1>2. \A label : Goto(e, label) => pc'[e] = label
  BY <1>1, LabelOf
<1>3. CASE d # e
  <2>1. todo'[d] = todo[d]
    BY <1>3 DEF Worker, WaitForEvents, Command, DoAction, Finish, engineVars, LInv, TInv, OInv
  <2>2. OfActions(d, Effects)' = OfActions(d, Effects)
    BY DEF OfActions
  <2> QED
    BY <1>1, <1>3, <2>1, <2>2, OthersStay DEF LInv, Working
<1>4. ASSUME NetworkStep(e) PROVE Working(e)'
  <2>1. CASE CallContainers(e)
    BY <1>1, <2>1, WorkingLeft, WorkingLoop DEF CallContainers, Loop
  <2> QED
    BY <1>4, <2>1, WorkingOfJoin, WorkingOfCut, WorkingOfEffects DEF NetworkStep
<1>5. ASSUME TimerStep(e) PROVE Working(e)'
  <2>1. pc'[e] \in {"startTimer", "printTimer", "stopTimer", "readTimer", "popTimer", "do", "aborted"}
    BY <1>2, <1>5 DEF TimerStep, startTimer, LookUpTimer, ReadTimer, PopTimer, Printed, Loop,
                      Return, KeyError
  <2> QED
    BY <2>1, WorkingElsewhere DEF Resting, Attaching, Affecting
<1>6. ASSUME WaitForEvents(e) \/ Command(e) \/ Finish(e) PROVE Working(e)'
  <2>1. pc'[e] \in {"commands", "aborted", "do", "finished"}
    BY <1>2, <1>6 DEF WaitForEvents, Command, Finish
  <2> QED
    BY <2>1, WorkingElsewhere DEF Resting, Attaching, Affecting
<1>7. ASSUME DoAction(e) PROVE Working(e)'
  <2>1. PICK action \in Do[e] : executeAction(e, action)
    BY <1>1, <1>7 DEF DoAction, TInv
  <2>2. CASE \/ action.name = "join" /\ join(e, action)
             \/ action.name = "cut" /\ cut(e, action)
             \/ action.name \in {"startTimer", "printTimer", "stopTimer"} /\ timer(e, action)
    <3>1. pc'[e] \in {"connect", "do", "disconnect", "startTimer", "printTimer", "stopTimer"}
      BY <1>2, <2>2 DEF join, Call, cut, timer
    <3> QED
      BY <3>1, WorkingElsewhere DEF Resting, Attaching, Affecting
  <2>3. CASE /\ action.name \in {"startContainer", "stopContainer", "restartContainer"}
             /\ callContainers(e, action)
    <3>1. /\ pc'[e] = "container" /\ frame'[e].left = action.container
          /\ frame'[e].command = action.name
      BY <1>1, <1>2, <2>3 DEF callContainers, TInv, Shapes, NoCall
    <3>2. action.container \in Seq(Containers) /\ action.container # <<>>
      BY <2>3, EventsAssumption
    <3>3. action.container \in Seq(ToSet(action.container))
      BY <3>2, OwnElements
    <3> QED
      BY <3>1, <3>2, <3>3 DEF Working, Attaching, Affecting
  <2>4. CASE action.name \in Effects /\ netem(e, action)
    <3>1. pc'[e] = "netem" /\ frame'[e].calls = <<action.container>>
      BY <1>1, <1>2, <2>4 DEF netem, TInv, Shapes, NoCall
    <3>2. mapKey(e)' = ToSet(action.container)
      BY <3>1 DEF mapKey, containers, getMapKey
    <3>3. ToSet(action.container) \subseteq OfActions(e, Effects)'
      BY <2>4 DEF OfActions
    <3> QED
      BY <3>1, <3>2, <3>3 DEF Working, Attaching, Affecting
  <2> QED
    BY <2>1, <2>2, <2>3, <2>4 DEF executeAction
<1> QED
  BY <1>3, <1>4, <1>5, <1>6, <1>7 DEF Worker

-----------------------------------------------------------------------------
(* Containers that are kept off.                                            *)

\* The one container that a step may start is one its event starts.
LEMMA RunningNext ==
    ASSUME LInv, NEW e \in Events, Worker(e)
    PROVE  \A c \in running' \ running : c \in BootedBy(e) /\ pc[e] = "container" /\ c = current(e)
<1>1. CASE CallContainers(e)
  <2>1. PICK action \in Do[e] : /\ action.name = frame[e].command
                                /\ frame[e].left \in Seq(ToSet(action.container))
                                /\ frame[e].left # <<>>
    BY <1>1 DEF CallContainers, LInv, Working
  <2>2. current(e) \in ToSet(action.container)
    BY <2>1, RestOf DEF current
  <2>3. frame[e].command = "stopContainer" => running' \subseteq running
    BY <1>1 DEF CallContainers, stop
  <2>4. running' \subseteq running \cup {current(e)}
    BY <1>1 DEF CallContainers, stop, start, restart, boot, dockerVars
  <2>5. frame[e].command \in {"startContainer", "restartContainer", "stopContainer"}
    BY <1>1 DEF CallContainers
  <2>6. ASSUME NEW c \in running' \ running PROVE c \in BootedBy(e)
    <3>1. action \in {a \in Do[e] : a.name \in {"startContainer", "restartContainer"}}
      BY <2>1, <2>3, <2>5, <2>6
    <3> QED
      BY <2>2, <2>4, <2>6, <3>1 DEF BootedBy, OfActions
  <2> QED
    BY <1>1, <2>4, <2>6 DEF CallContainers
<1>2. CASE ~CallContainers(e)
  BY <1>2 DEF Worker, WaitForEvents, Command, DoAction, Finish, NetworkStep, connect,
     InspectNetwork, CreateNetwork, PutNetwork, InterfacesBefore, Attach, InterfacesAfter,
     ListInterface, disconnect, LookUpNetwork, Detach, Unlist, DeleteNetwork, PopNetwork,
     executeNetemCommandsForNetwork, ConnectedContainers, ChooseInterface, ChooseCommand,
     Emulate, SetNetemInitialized, TimerStep, startTimer, LookUpTimer, ReadTimer, PopTimer,
     UntouchedByTimers, simulatorVars, dockerVars, network_create, network_rm,
     network_connect, network_disconnect, tc
<1> QED
  BY <1>1, <1>2

\* A stop that is still to come is, unless it comes.
LEMMA PendingNext ==
    ASSUME LInv, NEW w \in Events, Worker(w), NEW s \in Events, NEW c \in StoppedBy(s),
           pc'[s] # "dependOn", pc[s] = "dependOn" \/ Pending(s, c)
    PROVE  Pending(s, c)' \/ c \notin running'
<1>1. TInv /\ Only(w) /\ ~Ended(w) /\ DOMAIN frame[w] = DOMAIN NoCall
  BY WorkerOnly DEF LInv, TInv, Shapes
<1>2. CASE s # w
  <2>1. todo'[s] = todo[s]
    BY <1>2 DEF Worker, WaitForEvents, Command, DoAction, Finish, engineVars, LInv, TInv, OInv
  <2> QED
    BY <1>1, <1>2, <2>1, OthersStay DEF Pending
<1>3. CASE s = w /\ WaitForEvents(w)
  <2>1. pc[s] = "dependOn" /\ todo' = todo
    BY <1>3 DEF WaitForEvents, engineVars
  <2>2. todo'[s] = Do[s]
    BY <2>1 DEF LInv, Working
  <2> QED
    BY <2>2 DEF StoppedBy, OfActions, Pending
<1>4. CASE s = w /\ DoAction(w)
  <2>1. pc[s] = "do"
    BY <1>4 DEF DoAction
  <2>2. PICK a \in todo[s] : a.name = "stopContainer" /\ c \in ToSet(a.container)
    BY <2>1 DEF Pending
  <2>3. PICK action \in todo[s] : /\ todo' = [todo EXCEPT ![s] = @ \ {action}]
                                  /\ executeAction(s, action)
    BY <1>4 DEF DoAction
  <2>4. CASE action = a
    <3>1. callContainers(s, a)
      BY <2>2, <2>3, <2>4 DEF executeAction, Effects
    <3>2. /\ pc'[s] = "container" /\ frame'[s].left = a.container
          /\ frame'[s].command = "stopContainer"
      BY <1>1, <1>4, <2>2, <3>1 DEF callContainers, Goto, TInv, OInv, Shapes, NoCall
    <3> QED
      BY <2>2, <3>2 DEF Pending
  <2>5. CASE action # a
    <3>1. a \in todo'[s]
      BY <2>3, <2>5 DEF LInv, TInv, OInv
    <3> QED
      BY <2>2, <3>1 DEF Pending
  <2> QED
    BY <2>4, <2>5
<1>5. CASE s = w /\ CallContainers(w)
  <2>1. pc[s] = "container" /\ todo' = todo
    BY <1>5 DEF CallContainers, Worker, WaitForEvents, Command, DoAction, Finish, TimerStep,
                startTimer, LookUpTimer, ReadTimer, PopTimer, engineVars
  <2>2. CASE \E a \in todo[s] : a.name = "stopContainer" /\ c \in ToSet(a.container)
    BY <2>1, <2>2 DEF Pending
  <2>3. CASE frame[s].command = "stopContainer" /\ c \in ToSet(frame[s].left)
    <3>1. PICK S : frame[s].left \in Seq(S) /\ frame[s].left # <<>>
      BY <2>1 DEF LInv, Working
    <3>2. c # current(s) => c \in ToSet(Tail(frame[s].left)) /\ Tail(frame[s].left) # <<>>
      BY <2>3, <3>1, RestOf DEF current
    <3>3. running' = running \ {current(s)}
      BY <1>5, <2>3 DEF CallContainers, stop
    <3>4. CASE c # current(s)
      <4>1. /\ Goto(s, "container")
            /\ frame' = [frame EXCEPT ![s] = [frame[s] EXCEPT !.left = Tail(@)]]
        BY <1>5, <3>2, <3>4 DEF CallContainers, Loop
      <4>2. /\ pc'[s] = "container" /\ frame'[s].left = Tail(frame[s].left)
            /\ frame'[s].command = "stopContainer"
        BY <1>1, <1>5, <2>3, <4>1 DEF Goto, TInv, OInv, Shapes, NoCall
      <4> QED
        BY <3>2, <3>4, <4>2 DEF Pending
    <3> QED
      BY <3>3, <3>4
  <2> QED
    BY <2>1, <2>2, <2>3 DEF Pending
<1>6. CASE s = w /\ ~WaitForEvents(w) /\ ~DoAction(w) /\ ~CallContainers(w)
  <2>1. todo' = todo /\ pc[s] \notin {"dependOn", "container"}
    BY <1>6 DEF Worker, Command, Finish, NetworkStep, connect,
       InspectNetwork, CreateNetwork, PutNetwork, InterfacesBefore, Attach, InterfacesAfter,
       ListInterface, disconnect, LookUpNetwork, Detach, Unlist, DeleteNetwork, PopNetwork,
       executeNetemCommandsForNetwork, ConnectedContainers, ChooseInterface, ChooseCommand,
       Emulate, SetNetemInitialized, TimerStep, startTimer, LookUpTimer, ReadTimer, PopTimer,
       engineVars
  <2> QED
    BY <1>1, <1>6, <2>1 DEF Pending, Ended
<1> QED
  BY <1>2, <1>3, <1>4, <1>5, <1>6

LEMMA StaysOffNext ==
    ASSUME LInv, NEW w \in Events, Worker(w)
    PROVE  StaysOff'
<1> SUFFICES ASSUME NEW s \in Events, NEW e \in Events, NEW c \in Containers,
                    KeepsOff(s, c, e), pc'[s] # "dependOn", pc'[e] # "finished",
                    c \in running'
             PROVE  Pending(s, c)'
  BY DEF StaysOff, KeepsOff, StoppedBy, BootedBy, OfActions, First, Before
<1>1. OInv /\ TInv /\ Only(w) /\ ~Ended(w)
  BY WorkerOnly DEF LInv, TInv
<1>2. pc[e] # "finished"
  BY <1>1, OthersStay DEF Ended
<1>3. c \in running
  <2> SUFFICES ASSUME c \notin running PROVE FALSE
    OBVIOUS
  <2>1. c \in BootedBy(w) /\ pc[w] = "container"
    BY RunningNext
  <2>2. First(w, s) \/ First(e, w)
    BY <2>1 DEF KeepsOff
  <2>3. CASE First(w, s)
    <3>1. pc[s] = pc'[s]
      BY <1>1, <2>3, OthersStay DEF First
    <3> QED
      BY <1>1, <2>1, <2>3, <3>1, HasFinished
  <2>4. CASE First(e, w)
    BY <1>1, <1>2, <2>1, <2>4, HasFinished
  <2> QED
    BY <2>2, <2>3, <2>4
<1>4. pc[s] = "dependOn" \/ Pending(s, c)
  BY <1>2, <1>3 DEF LInv, StaysOff
<1> QED
  BY <1>4, PendingNext DEF KeepsOff

-----------------------------------------------------------------------------
(* The steps of one thread, for the interfaces of all.                      *)

\* The least natural number that is not in a finite set is at most its size.
LEMMA FreeInterface ==
    ASSUME NEW D, IsFiniteSet(D)
    PROVE  \E i \in 0 .. Cardinality(D) : i \notin D /\ 0 .. i - 1 \subseteq D
<1> DEFINE n == Cardinality(D)
           T == {i \in 0 .. n : i \notin D}
           R == OpToRel(<, Nat)
<1>1. n \in Nat
  BY FS_CardinalityType
<1>2. T # {}
  <2> SUFFICES ASSUME 0 .. n \subseteq D PROVE FALSE
    OBVIOUS
  <2>1. Cardinality(0 .. n) = n + 1
    BY <1>1, FS_Interval
  <2> QED
    BY <1>1, <2>1, FS_Subset
<1>3. PICK i \in T : \A j \in T : <<j, i>> \notin R
  <2>1. T \subseteq Nat
    BY <1>1
  <2>2. IsWellFoundedOn(R, Nat)
    BY NatLessThanWellFounded
  <2> HIDE DEF T, R
  <2> QED
    BY <1>2, <2>1, <2>2, WFMin
<1>4. \A j \in T : ~(j < i)
  <2>1. R = {s \in Nat \X Nat : s[1] < s[2]}
    BY DEF OpToRel
  <2> HIDE DEF R
  <2>2. SUFFICES ASSUME NEW j \in T, j < i PROVE FALSE
    OBVIOUS
  <2>3. <<j, i>> \in Nat \X Nat
    BY <1>1
  <2>4. <<j, i>> \in R
    BY <2>1, <2>2, <2>3
  <2> QED
    BY <1>3, <2>4
<1> QED
  BY <1>1, <1>4

LEMMA StaleStays ==
    ASSUME TInv, NEW e \in Events, Only(e), pc[e] # "pop", pc'[e] # "pop"
    PROVE  Stale' = Stale
<1>1. \A d \in Events \ {e} : pc'[d] = pc[d] /\ mapKey(d)' = mapKey(d)
  BY OthersStay
<1>2. {d \in Events : pc'[d] = "pop"} = {d \in Events : pc[d] = "pop"}
  BY <1>1
<1>3. \A d \in {f \in Events : pc[f] = "pop"} : mapKey(d)' = mapKey(d)
  BY <1>1
<1> QED
  BY <1>2, <1>3 DEF Stale

\* A container that one event joins is in no list of another that works at the time.
LEMMA JoinsApart ==
    ASSUME Orderly, TInv, NEW d \in Events, NEW e \in Events, d # e,
           pc[d] \in Joining, pc[e] \in Joining \cup Cutting
    PROVE  mapKey(d) \cap mapKey(e) = {}
<1>1. Active(d) /\ Active(e) /\ OInv
  BY DEF Active, Joining, Cutting, TInv
<1>2. mapKey(d) \subseteq JoinedBy(d) /\ mapKey(e) \subseteq UsedBy(e)
  BY KeyOfThread
<1> QED
  BY <1>1, <1>2, NobodyElse

LEMMA CurrentInKey ==
    ASSUME LInv, NEW e \in Events, pc[e] \in Attaching \cup {"detach", "unlist"}
    PROVE  /\ current(e) \in mapKey(e) /\ current(e) \in Containers
           /\ Active(e) /\ current(e) \in UsedBy(e)
           /\ pc[e] \in Attaching => current(e) \in JoinedBy(e)
<1>1. current(e) \in mapKey(e)
  BY RestOf DEF LInv, Working, current
<1>2. /\ pc[e] \in Joining \cup Cutting
      /\ pc[e] \in Attaching => pc[e] \in Joining
  BY DEF Joining, Cutting, Attaching
<1>3. Active(e)
  BY DEF Active, Attaching
<1> QED
  BY <1>1, <1>2, <1>3, KeyOfThread DEF LInv

\* The one container that a step may stop is one its event stops.
LEMMA StoppingNext ==
    ASSUME LInv, NEW e \in Events, Worker(e)
    PROVE  \A c \in running \ running' : c \in StoppedBy(e) /\ pc[e] = "container"
<1>1. CASE CallContainers(e)
  <2>1. PICK action \in Do[e] : /\ action.name = frame[e].command
                                /\ frame[e].left \in Seq(ToSet(action.container))
                                /\ frame[e].left # <<>>
    BY <1>1 DEF CallContainers, LInv, Working
  <2>2. current(e) \in ToSet(action.container)
    BY <2>1, RestOf DEF current
  <2>3. frame[e].command # "stopContainer" => running \subseteq running'
    BY <1>1 DEF CallContainers, start, restart, boot, dockerVars
  <2>4. running \subseteq running' \cup {current(e)}
    BY <1>1 DEF CallContainers, stop, start, restart, boot, dockerVars
  <2>5. ASSUME NEW c \in running \ running' PROVE c \in StoppedBy(e)
    <3>1. action \in {a \in Do[e] : a.name \in {"stopContainer"}}
      BY <2>1, <2>3, <2>5
    <3> QED
      BY <2>2, <2>4, <2>5, <3>1 DEF StoppedBy, OfActions
  <2> QED
    BY <1>1, <2>5 DEF CallContainers
<1>2. CASE ~CallContainers(e)
  BY <1>2 DEF Worker, WaitForEvents, Command, DoAction, Finish, NetworkStep, connect,
     InspectNetwork, CreateNetwork, PutNetwork, InterfacesBefore, Attach, InterfacesAfter,
     ListInterface, disconnect, LookUpNetwork, Detach, Unlist, DeleteNetwork, PopNetwork,
     executeNetemCommandsForNetwork, ConnectedContainers, ChooseInterface, ChooseCommand,
     Emulate, SetNetemInitialized, TimerStep, startTimer, LookUpTimer, ReadTimer, PopTimer,
     UntouchedByTimers, simulatorVars, dockerVars, network_create, network_rm,
     network_connect, network_disconnect, tc
<1> QED
  BY <1>1, <1>2

\* A container that its only starter found running is not stopped before that one ends.
LEMMA SettledStays ==
    ASSUME LInv, NEW e \in Events, Worker(e), NEW b \in Events, NEW c, Settled(b, c)
    PROVE  Settled(b, c)'
<1>1. OInv /\ TInv /\ Only(e) /\ ~Ended(e)
  BY WorkerOnly DEF LInv, TInv
<1>2. CASE pc[b] = "finished"
  BY <1>1, <1>2, OthersStay DEF Settled, Ended
<1>3. CASE pc[b] # "finished"
  <2>1. StartsItself(b, c) /\ c \in running /\ pc[b] # "dependOn"
    BY <1>3 DEF Settled
  <2>2. pc'[b] # "dependOn"
    <3>1. [Order!Next]_OrderVars
      BY <1>1, EngineNext DEF Next
    <3>2. {f \in Events : pc[f] # "dependOn"} \subseteq {f \in Events : pc'[f] # "dependOn"}
      BY <3>1 DEF OrderVars, Order!Next, Order!Start, Order!Act, Order!Finish, Order!Abort,
                  Order!TearDown
    <3> QED
      BY <2>1, <3>2
  <2>3. c \in running'
    <3> SUFFICES ASSUME c \notin running' PROVE FALSE
      OBVIOUS
    <3>1. c \in StoppedBy(e) /\ pc[e] = "container"
      BY <2>1, StoppingNext
    <3>2. First(e, b) \/ First(b, e)
      BY <2>1, <3>1 DEF StartsItself
    <3> QED
      BY <1>1, <1>3, <2>1, <3>1, <3>2, HasFinished
  <2>4. StartsItself(b, c)'
    BY <2>1 DEF StartsItself, RestartedBy, StoppedBy, OfActions, First, Before
  <2> QED
    BY <2>2, <2>3, <2>4 DEF Settled
<1> QED
  BY <1>2, <1>3

LEMMA AllSettledStays ==
    ASSUME LInv, NEW e \in Events, Worker(e), NEW c, AllSettled(c)
    PROVE  AllSettled(c)'
  BY SettledStays DEF AllSettled, BootedBy, OfActions

-----------------------------------------------------------------------------
(* What a step of one thread leaves to the others.                          *)

\* Objects keep their names, and what comes into the table is a new one.
OldObjects ==
    /\ Len(objects) \in Nat /\ Len(objects') \in Nat /\ Len(objects) <= Len(objects')
    /\ \A i \in 1 .. Len(objects) : objects'[i].name = objects[i].name
    /\ \A key \in DOMAIN networks' :
           \/ key \in DOMAIN networks /\ networks'[key] = networks[key]
           \/ key \notin DOMAIN networks /\ networks'[key] = Len(objects) + 1

LEMMA SameIsOld ==
    ASSUME TInv, SameTable
    PROVE  OldObjects
<1>1. objects \in Seq(Range(objects)) /\ Len(objects') = Len(objects)
  BY DEF TInv, Shapes, SameTable, SameObjects
<1>2. Len(objects) \in Nat
  BY <1>1, LenProperties
<1> QED
  BY <1>1, <1>2 DEF OldObjects, SameTable, SameObjects

\* A container keeps its interfaces, or is stopped.
Undisturbed(c) ==
    \/ interfaces'[c] = interfaces[c] /\ (c \in running' <=> c \in running)
    \/ DOMAIN interfaces'[c] = {} /\ c \notin running'

\* It gets no interface.
Lessens(c) ==
    \A i \in DOMAIN interfaces'[c] :
        i \in DOMAIN interfaces[c] /\ interfaces'[c][i] = interfaces[c][i]

LEMMA NamingKept ==
    ASSUME LInv, NEW e \in Events, Only(e), OldObjects, NEW d \in Events \ {e},
           pc[d] \in Attaching => mapKey(d) \in DOMAIN networks' \ Stale'
    PROVE  Naming(d)'
<1> SUFFICES ASSUME pc'[d] \in Attaching
             PROVE  /\ mapKey(d)' \in DOMAIN networks' \ Stale'
                    /\ name_of(mapKey(d))' = frame'[d].name
  BY DEF Naming
<1>1. pc'[d] = pc[d] /\ frame'[d] = frame[d] /\ mapKey(d)' = mapKey(d)
  BY OthersStay DEF LInv
<1>2. PICK k : k = mapKey(d)
  OBVIOUS
<1>3. k \in DOMAIN networks /\ name_of(k) = frame[d].name /\ networks[k] \in 1 .. Len(objects)
  BY <1>1, <1>2 DEF LInv, Links, Naming, TInv, Shapes
<1>4. k \in DOMAIN networks' \ Stale'
  BY <1>1, <1>2
<1>5. name_of(k)' = frame[d].name
  BY <1>3, <1>4 DEF OldObjects, name_of
<1> QED
  BY <1>1, <1>2, <1>4, <1>5

LEMMA WatchingKept ==
    ASSUME LInv, NEW e \in Events, Worker(e), Only(e), NEW d \in Events \ {e},
           pc[d] \in {"attach", "after", "list"} => Undisturbed(current(d)),
           pc[d] \in {"after", "list"} /\ Attached(d) =>
               frame[d].name \in DOMAIN docker' /\ current(d) \in docker'[frame[d].name]
    PROVE  Watching(d)'
<1>1. pc'[d] = pc[d] /\ frame'[d] = frame[d] /\ current(d)' = current(d)
  BY OthersStay DEF LInv
<1>2. Watching(d)
  BY DEF LInv, Links
<1>3. PICK c : c = current(d)
  OBVIOUS
<1>4. CASE pc[d] = "attach"
  <2>1. ls(c) \subseteq frame[d].before /\ Undisturbed(c)
    BY <1>2, <1>3, <1>4 DEF Watching
  <2>2. ls(c)' \subseteq ls(c)
    BY <2>1 DEF Undisturbed, ls
  <2> QED
    BY <1>1, <1>3, <1>4, <2>1, <2>2 DEF Watching
<1>5. CASE pc[d] = "after" /\ ~frame[d].failed
  <2>1. /\ Undisturbed(c) /\ Attached(d)
        /\ \A i \in new_interfaces(d) : Found(d, i) /\ new_interfaces(d) = {i}
    BY <1>2, <1>3, <1>5 DEF Watching
  <2>2. Attached(d)'
    BY <1>1, <1>5, <2>1 DEF Attached
  <2>3. CASE interfaces'[c] = interfaces[c] /\ (c \in running' <=> c \in running)
    <3>1. new_interfaces(d)' = new_interfaces(d)
      BY <1>1, <1>3, <2>3 DEF new_interfaces, ls
    <3>2. \A i : Found(d, i) => Found(d, i)'
      BY <1>1, <1>3, <2>3 DEF Found
    <3> QED
      BY <1>1, <1>5, <2>1, <2>2, <3>1, <3>2 DEF Watching
  <2>4. CASE DOMAIN interfaces'[c] = {} /\ c \notin running'
    <3>1. new_interfaces(d)' = {}
      BY <1>1, <1>3, <2>4 DEF new_interfaces, ls
    <3> QED
      BY <1>1, <1>5, <2>2, <3>1 DEF Watching
  <2> QED
    BY <2>1, <2>3, <2>4 DEF Undisturbed
<1>6. CASE pc[d] = "list"
  <2>1. Undisturbed(c) /\ Attached(d) /\ Found(d, frame[d].interface) /\ AllSettled(c)
    BY <1>2, <1>3, <1>6 DEF Watching
  <2>2. Attached(d)' /\ AllSettled(c)'
    BY <1>1, <1>6, <2>1, AllSettledStays DEF Attached
  <2>3. Found(d, frame[d].interface)'
    BY <1>1, <1>3, <2>1 DEF Found, Undisturbed
  <2> QED
    BY <1>1, <1>3, <1>6, <2>2, <2>3 DEF Watching
<1>7. CASE pc[d] \notin {"attach", "list"} /\ ~(pc[d] = "after" /\ ~frame[d].failed)
  BY <1>1, <1>7 DEF Watching
<1> QED
  BY <1>4, <1>5, <1>6, <1>7

LEMMA AimingKept ==
    ASSUME LInv, NEW e \in Events, Worker(e), Only(e), OldObjects, NEW d \in Events \ {e},
           pc[d] \in {"mode", "tc"} => Lessens(current(d))
    PROVE  Aiming(d)'
<1>1. pc'[d] = pc[d] /\ frame'[d] = frame[d] /\ mapKey(d)' = mapKey(d) /\ current(d)' = current(d)
  BY OthersStay DEF LInv
<1>2. CASE pc[d] \notin Affecting
  BY <1>1, <1>2 DEF Aiming, Affecting
<1>3. CASE pc[d] \in Affecting
  <2>1. PICK n, key, c, i : /\ n = frame[d].object /\ key = mapKey(d) /\ c = current(d)
                            /\ i = frame[d].interface
    OBVIOUS
  <2>2. /\ n \in 1 .. Len(objects)
        /\ \A k \in DOMAIN networks : networks[k] = n => k = key
    BY <1>3, <2>1 DEF LInv, Links, Aiming
  <2>3. /\ n \in 1 .. Len(objects') /\ objects'[n].name = objects[n].name
        /\ \A k \in DOMAIN networks' : networks'[k] = n => k = key
    BY <2>2 DEF OldObjects
  <2>4. CASE pc[d] \in {"mode", "tc"}
    <3>1. /\ c \in Containers \cap OfActions(d, Effects) /\ i \in Nat
          /\ i \in DOMAIN interfaces[c] => interfaces[c][i] = objects[n].name
          /\ AllSettled(c)
      BY <2>1, <2>4 DEF LInv, Links, Aiming, network
    <3>2. i \in DOMAIN interfaces'[c] => interfaces'[c][i] = objects'[n].name
      BY <2>1, <2>3, <2>4, <3>1 DEF Lessens
    <3>3. AllSettled(c)'
      BY <3>1, AllSettledStays
    <3>4. c \in Containers \cap OfActions(d, Effects)'
      BY <3>1 DEF OfActions
    <3> QED
      BY <1>1, <2>1, <2>3, <3>1, <3>2, <3>3, <3>4 DEF Aiming, network
  <2>5. CASE pc[d] \notin {"mode", "tc"}
    BY <1>1, <2>1, <2>3, <2>5 DEF Aiming
  <2> QED
    BY <2>4, <2>5
<1> QED
  BY <1>2, <1>3

\* What is listed stays true with its link, or while it is leaving.
LEMMA ListedKept ==
    ASSUME LInv, NEW e \in Events, Worker(e), NEW key, NEW c, Listed(key, c),
           key \notin Stale', connected(key)'[c] = connected(key)[c],
           Linked(key, c) =>
               \/ Linked(key, c)'
               \/ Leaving(key, c)' /\ connected(key)[c] \notin DOMAIN interfaces'[c],
           Leaving(key, c) /\ connected(key)[c] \notin DOMAIN interfaces[c] =>
               Leaving(key, c)' /\ connected(key)[c] \notin DOMAIN interfaces'[c]
    PROVE  Listed(key, c)'
<1>1. AllSettled(c)'
  BY AllSettledStays DEF Listed
<1> QED
  BY <1>1 DEF Listed

\* Who is leaving does so until the line after.
LEMMA LeavingStays ==
    ASSUME LInv, NEW e \in Events, Only(e), pc[e] # "unlist", NEW key, NEW c, Leaving(key, c)
    PROVE  Leaving(key, c)'
<1>1. PICK d \in Events : pc[d] = "unlist" /\ mapKey(d) = key /\ current(d) = c
  BY DEF Leaving
<1>2. pc'[d] = "unlist" /\ mapKey(d)' = key /\ current(d)' = c
  BY <1>1, OthersStay DEF LInv
<1> QED
  BY <1>2 DEF Leaving

\* Nothing is said of a thread that neither attaches nor affects.
LEMMA NothingSaid ==
    ASSUME NEW e \in Events, pc'[e] \notin Attaching \cup Affecting
    PROVE  Naming(e)' /\ Watching(e)' /\ Aiming(e)'
  BY DEF Naming, Watching, Aiming, Attaching, Affecting

\* Names and lists stay as they are, and docker's networks and interfaces.
SameLinks ==
    /\ SameTable
    /\ \A i \in 1 .. Len(objects) : objects'[i].connected = objects[i].connected
    /\ UNCHANGED <<docker, running, interfaces>>

LEMMA LinksOfTable ==
    ASSUME TInv, SameTable,
           \A i \in 1 .. Len(objects) : objects'[i].connected = objects[i].connected
    PROVE  /\ networks' = networks
           /\ \A key \in DOMAIN networks : name_of(key)' = name_of(key) /\ connected(key)' = connected(key)
  BY DEF SameTable, SameObjects, TInv, Shapes, name_of, connected

\* Then all that is left to show is what is said of the thread itself.
LEMMA StillKeeps ==
    ASSUME LInv, NEW e \in Events, Worker(e), pc[e] \notin {"unlist", "pop"}, pc'[e] # "pop",
           SameLinks, Naming(e)', Watching(e)', Aiming(e)'
    PROVE  Links'
<1>1. TInv /\ Only(e)
  BY WorkerOnly DEF LInv
<1>2. Stale' = Stale
  BY <1>1, StaleStays
<1>3. /\ networks' = networks /\ OldObjects
      /\ \A key \in DOMAIN networks : name_of(key)' = name_of(key) /\ connected(key)' = connected(key)
      /\ UNCHANGED <<docker, running, interfaces>>
  BY <1>1, LinksOfTable, SameIsOld DEF SameLinks
<1>4. Distinct'
  <2>1. /\ Len(objects') = Len(objects)
        /\ \A i \in 1 .. Len(objects) : objects'[i].connected = objects[i].connected
    BY DEF SameLinks, SameTable, SameObjects
  <2> QED
    BY <1>3, <2>1 DEF LInv, Links, Distinct
<1>5. Listing'
  <2> SUFFICES ASSUME NEW key \in DOMAIN networks, NEW c \in DOMAIN connected(key)
               PROVE  c \in key \cap Containers /\ (main' = "join" => Listed(key, c)')
    BY <1>3 DEF Listing
  <2>1. c \in key \cap Containers /\ Listed(key, c)
    BY <1>1, WorkerOnly DEF LInv, Links, Listing
  <2>2. key \notin Stale' /\ connected(key)'[c] = connected(key)[c]
    BY <1>2, <1>3, <2>1 DEF Listed
  <2>3. Linked(key, c) => Linked(key, c)'
    BY <1>3 DEF Linked
  <2>4. Leaving(key, c) => Leaving(key, c)'
    BY <1>1, LeavingStays
  <2> QED
    BY <1>3, <2>1, <2>2, <2>3, <2>4, ListedKept
<1>6. ASSUME NEW d \in Events \ {e} PROVE Naming(d)' /\ Watching(d)' /\ Aiming(d)'
  <2>1. Undisturbed(current(d)) /\ Lessens(current(d))
    BY <1>3 DEF Undisturbed, Lessens
  <2>2. pc[d] \in Attaching => mapKey(d) \in DOMAIN networks' \ Stale'
    BY <1>2, <1>3 DEF LInv, Links, Naming
  <2>3. Attached(d) => frame[d].name \in DOMAIN docker' /\ current(d) \in docker'[frame[d].name]
    BY <1>3 DEF Attached
  <2> QED
    BY <1>1, <1>3, <2>1, <2>2, <2>3, NamingKept, WatchingKept, AimingKept
<1> QED
  BY <1>4, <1>5, <1>6 DEF Links

-----------------------------------------------------------------------------
(* The steps that change neither docker nor what is listed.                 *)

LEMMA UnsaidKeeps ==
    ASSUME LInv, NEW e \in Events, Worker(e), pc[e] \notin {"unlist", "pop"},
           pc'[e] \notin Attaching \cup Affecting \cup {"pop"},
           UNCHANGED <<tableVars, docker, running, interfaces>>
    PROVE  Links'
<1>1. SameLinks
  BY TableStays DEF SameLinks, LInv, tableVars
<1> QED
  BY <1>1, NothingSaid, StillKeeps

\* The steps between actions, those of timers, and those at which join and cut
\* look for a network.
LEMMA LookingKeeps ==
    ASSUME LInv, NEW e \in Events, Worker(e),
           \/ connect(e) \/ InspectNetwork(e) \/ disconnect(e) \/ LookUpNetwork(e)
           \/ TimerStep(e) \/ WaitForEvents(e) \/ Command(e) \/ Finish(e) \/ DoAction(e)
    PROVE  Links'
<1>1. TInv
  BY DEF LInv
<1>2. \A label : Goto(e, label) => pc'[e] = label
  BY <1>1, LabelOf
<1>3. UNCHANGED <<tableVars, docker, running, interfaces>>
  BY DEF connect, InspectNetwork, disconnect, LookUpNetwork,
         TimerStep, startTimer, LookUpTimer, ReadTimer, PopTimer, UntouchedByTimers,
         WaitForEvents, Command, Finish, DoAction, simulatorVars, dockerVars
<1>4. pc[e] \notin {"unlist", "pop"}
  BY DEF connect, InspectNetwork, disconnect, LookUpNetwork, TimerStep, startTimer,
         LookUpTimer, ReadTimer, PopTimer, WaitForEvents, Command, Finish, DoAction
<1>5. pc'[e] \notin Attaching \cup Affecting \cup {"pop"}
  <2>1. CASE connect(e) \/ InspectNetwork(e) \/ disconnect(e) \/ LookUpNetwork(e)
    <3>1. pc'[e] \in {"connect", "do", "inspect", "create", "lookup", "detach", "aborted"}
      BY <1>2, <2>1 DEF connect, InspectNetwork, disconnect, LookUpNetwork, NextCall, Call,
                        Return, KeyError
    <3> QED
      BY <3>1 DEF Attaching, Affecting
  <2>2. CASE TimerStep(e)
    <3>1. pc'[e] \in {"startTimer", "printTimer", "stopTimer", "readTimer", "popTimer", "do", "aborted"}
      BY <1>2, <2>2 DEF TimerStep, startTimer, LookUpTimer, ReadTimer, PopTimer, Printed, Loop,
                        Return, KeyError
    <3> QED
      BY <3>1 DEF Attaching, Affecting
  <2>3. CASE WaitForEvents(e) \/ Command(e) \/ Finish(e)
    BY <1>2, <2>3 DEF WaitForEvents, Command, Finish, Attaching, Affecting
  <2>4. CASE DoAction(e)
    <3>1. PICK action \in Do[e] : executeAction(e, action)
      BY <1>1, <2>4 DEF DoAction, TInv
    <3>2. pc'[e] \in {"connect", "do", "disconnect", "netem", "container",
                      "startTimer", "printTimer", "stopTimer"}
      BY <1>2, <3>1 DEF executeAction, join, Call, cut, netem, callContainers, timer
    <3> QED
      BY <3>2 DEF Attaching, Affecting
  <2> QED
    BY <2>1, <2>2, <2>3, <2>4
<1> QED
  BY <1>3, <1>4, <1>5, UnsaidKeeps

\* A thread goes on attaching.
LEMMA NamingOn ==
    ASSUME LInv, NEW e \in Events, Only(e), SameTable, pc[e] \in Attaching, pc'[e] \in Attaching,
           frame'[e].name = frame[e].name, frame'[e].calls = frame[e].calls
    PROVE  Naming(e)' /\ Aiming(e)'
<1>1. mapKey(e)' = mapKey(e)
  BY DEF mapKey, containers
<1>2. networks' = networks /\ \A key \in DOMAIN networks : name_of(key)' = name_of(key)
  BY DEF SameTable, SameObjects, LInv, TInv, Shapes, name_of
<1>3. Stale' = Stale
  BY StaleStays DEF LInv, Attaching
<1>4. mapKey(e) \in DOMAIN networks \ Stale /\ name_of(mapKey(e)) = frame[e].name
  BY DEF LInv, Links, Naming
<1>5. Naming(e)'
  BY <1>1, <1>2, <1>3, <1>4 DEF Naming
<1>6. Aiming(e)'
  BY DEF Aiming, Affecting, Attaching
<1> QED
  BY <1>5, <1>6

\* The interfaces that are there before a container is attached.
LEMMA BeforeLinks ==
    ASSUME LInv, NEW e \in Events, Worker(e), InterfacesBefore(e)
    PROVE  Links'
<1>1. TInv /\ Only(e)
  BY WorkerOnly DEF LInv
<1>2. SameLinks
  BY <1>1, TableStays DEF InterfacesBefore, tableVars, dockerVars, SameLinks
<1>3. /\ pc[e] = "before" /\ pc'[e] = "attach" /\ UNCHANGED <<running, interfaces>>
      /\ frame'[e] = [frame[e] EXCEPT !.before = ls(current(e))]
  BY <1>1, LabelOf DEF InterfacesBefore, dockerVars, TInv, Shapes
<1>4. /\ frame'[e].name = frame[e].name /\ frame'[e].calls = frame[e].calls
      /\ frame'[e].left = frame[e].left
      /\ frame'[e].before = ls(current(e))
  BY <1>1, <1>3 DEF TInv, Shapes, NoCall
<1>5. Watching(e)'
  BY <1>3, <1>4 DEF Watching, current, ls
<1>6. Naming(e)' /\ Aiming(e)'
  BY <1>1, <1>2, <1>3, <1>4, NamingOn DEF Attaching, SameLinks
<1> QED
  BY <1>2, <1>3, <1>5, <1>6, StillKeeps

\* After the last interface of a container, the next one, or the next call.
LEMMA NextConnectSays ==
    ASSUME LInv, NEW e \in Events, Only(e), SameTable, pc[e] \in {"after", "list"},
           Loop(e, frame[e], "before", NextCall(e))
    PROVE  Naming(e)' /\ Watching(e)' /\ Aiming(e)' /\ pc'[e] # "pop"
<1>1. TInv
  BY DEF LInv
<1>2. CASE NextCall(e)
  <2>1. pc'[e] \in {"do", "connect"}
    BY <1>1, <1>2, LabelOf DEF NextCall, Call
  <2> QED
    BY <2>1, NothingSaid DEF Attaching, Affecting
<1>3. CASE /\ Goto(e, "before")
           /\ frame' = [frame EXCEPT ![e] = [frame[e] EXCEPT !.left = Tail(@)]]
  <2>1. pc'[e] = "before"
    BY <1>1, <1>3, LabelOf
  <2>2. frame'[e].name = frame[e].name /\ frame'[e].calls = frame[e].calls
    BY <1>1, <1>3 DEF TInv, Shapes, NoCall
  <2>3. Naming(e)' /\ Aiming(e)'
    BY <2>1, <2>2, NamingOn DEF Attaching
  <2> QED
    BY <2>1, <2>3 DEF Watching
<1> QED
  BY <1>2, <1>3 DEF Loop

\* The interface that is found is the one the thread waited for.
LEMMA AfterLinks ==
    ASSUME Orderly, LInv, NEW e \in Events, Worker(e), InterfacesAfter(e)
    PROVE  Links'
<1>1. TInv /\ Only(e)
  BY WorkerOnly DEF LInv
<1>2. SameLinks /\ pc[e] = "after"
  BY <1>1, TableStays DEF InterfacesAfter, tableVars, dockerVars, SameLinks
<1>3. CASE Loop(e, frame[e], "before", NextCall(e))
  <2>1. Naming(e)' /\ Watching(e)' /\ Aiming(e)' /\ pc'[e] # "pop"
    BY <1>1, <1>2, <1>3, NextConnectSays DEF SameLinks
  <2> QED
    BY <1>2, <2>1, StillKeeps
<1>4. CASE /\ ~frame[e].failed /\ new_interfaces(e) # {} /\ Goto(e, "list")
           /\ frame' = [frame EXCEPT ![e].interface = last_listed(new_interfaces(e))]
  <2>1. PICK i \in new_interfaces(e) : /\ Found(e, i) /\ new_interfaces(e) = {i} /\ Attached(e)
    BY <1>2, <1>4 DEF LInv, Links, Watching
  <2>2. i \in Nat /\ i # lo
    BY <2>1 DEF Found, lo
  <2>3. last_listed(new_interfaces(e)) = i
    BY <2>1, <2>2 DEF last_listed
  <2>4. /\ pc'[e] = "list" /\ frame'[e].interface = i /\ frame'[e].left = frame[e].left
        /\ frame'[e].name = frame[e].name /\ frame'[e].calls = frame[e].calls
    BY <1>1, <1>4, <2>3, LabelOf DEF TInv, Shapes, NoCall
  <2>5. Naming(e)' /\ Aiming(e)'
    BY <1>1, <1>2, <2>4, NamingOn DEF Attaching, SameLinks
  <2>6. current(e) \in running
    BY <2>1 DEF new_interfaces, ls
  <2>7. Active(e) /\ current(e) \in running \cap JoinedBy(e) /\ current(e) \in Containers
    BY <1>2, <2>6, CurrentInKey DEF Attaching
  <2>8. AllSettled(current(e))
    BY <2>7, NobodyWillStart DEF AllSettled
  <2>9. AllSettled(current(e))'
    BY <2>4, <2>8, AllSettledStays DEF current
  <2>10. Attached(e)' /\ Found(e, frame[e].interface)'
    BY <1>2, <2>1, <2>4 DEF SameLinks, Attached, Found, current
  <2>11. Watching(e)'
    BY <2>4, <2>9, <2>10 DEF Watching
  <2> QED
    BY <1>2, <2>4, <2>5, <2>11, StillKeeps
<1> QED
  BY <1>3, <1>4 DEF InterfacesAfter

-----------------------------------------------------------------------------
(* The steps of effects.                                                    *)

\* A thread goes on with its effect on the same object, or leaves it.
LEMMA AffectsOn ==
    ASSUME LInv, NEW e \in Events, Worker(e), pc[e] \in Affecting, SameLinks,
           \/ Return(e) \/ KeyError(e)
           \/ \E label \in Affecting \ {"mode", "tc"} : \E f :
                 /\ Goto(e, label) /\ frame' = [frame EXCEPT ![e] = f]
                 /\ f.object = frame[e].object /\ f.calls = frame[e].calls
    PROVE  Links'
<1>1. TInv
  BY DEF LInv
<1>2. pc[e] \notin {"unlist", "pop"}
  BY DEF Affecting
<1>3. CASE Return(e) \/ KeyError(e)
  <2>1. pc'[e] \in {"do", "aborted"}
    BY <1>1, <1>3, LabelOf DEF Return, KeyError
  <2> QED
    BY <1>2, <2>1, NothingSaid, StillKeeps DEF Attaching, Affecting
<1>4. ASSUME NEW label \in Affecting \ {"mode", "tc"}, NEW f,
             Goto(e, label), frame' = [frame EXCEPT ![e] = f],
             f.object = frame[e].object, f.calls = frame[e].calls
      PROVE  Links'
  <2>1. pc'[e] = label /\ frame'[e] = f
    BY <1>1, <1>4, LabelOf DEF TInv, Shapes
  <2>2. frame'[e].object = frame[e].object /\ mapKey(e)' = mapKey(e)
    BY <1>4, <2>1 DEF mapKey, containers
  <2>3. networks' = networks /\ Len(objects') = Len(objects)
    BY DEF SameLinks, SameTable, SameObjects
  <2>4. Aiming(e)'
    BY <1>4, <2>1, <2>2, <2>3 DEF LInv, Links, Aiming
  <2>5. label \notin Attaching \cup {"pop"}
    BY <1>4 DEF Attaching, Affecting
  <2>6. Naming(e)' /\ Watching(e)'
    BY <2>1, <2>5 DEF Naming, Watching, Attaching
  <2> QED
    BY <1>2, <2>1, <2>4, <2>5, <2>6, StillKeeps
<1> QED
  BY <1>3, <1>4

\* It begins with the object of its key.
LEMMA NetemLinks ==
    ASSUME LInv, NEW e \in Events, Worker(e), executeNetemCommandsForNetwork(e)
    PROVE  Links'
<1>1. TInv
  BY DEF LInv
<1>2. pc[e] = "netem" /\ UNCHANGED <<tableVars, docker, running, interfaces>>
  BY DEF executeNetemCommandsForNetwork, dockerVars
<1>3. CASE KeyError(e)
  <2>1. pc'[e] = "aborted"
    BY <1>1, <1>3, LabelOf DEF KeyError
  <2> QED
    BY <1>2, <2>1, UnsaidKeeps DEF Attaching, Affecting
<1>4. CASE /\ mapKey(e) \in DOMAIN networks /\ Goto(e, "keys")
           /\ frame' = [frame EXCEPT ![e].object = networks[mapKey(e)]]
  <2>1. PICK key : key = mapKey(e)
    OBVIOUS
  <2>2. SameLinks
    BY <1>1, <1>2, TableStays DEF SameLinks, tableVars
  <2>3. /\ pc'[e] = "keys" /\ frame'[e].object = networks[key]
        /\ frame'[e].calls = frame[e].calls
    BY <1>1, <1>4, <2>1, LabelOf DEF TInv, Shapes, NoCall
  <2>4. mapKey(e)' = key
    BY <2>1, <2>3 DEF mapKey, containers
  <2>5. /\ networks[key] \in 1 .. Len(objects)
        /\ \A k \in DOMAIN networks : networks[k] = networks[key] => k = key
    BY <1>1, <1>4, <2>1 DEF LInv, Links, Distinct, TInv, Shapes
  <2>6. Aiming(e)'
    BY <1>2, <2>3, <2>4, <2>5 DEF Aiming, tableVars
  <2>7. Naming(e)' /\ Watching(e)'
    BY <2>3 DEF Naming, Watching, Attaching
  <2> QED
    BY <1>2, <2>2, <2>3, <2>6, <2>7, StillKeeps
<1> QED
  BY <1>3, <1>4 DEF executeNetemCommandsForNetwork

LEMMA KeysLinks ==
    ASSUME LInv, NEW e \in Events, Worker(e), ConnectedContainers(e)
    PROVE  Links'
<1>1. TInv /\ DOMAIN frame[e] = DOMAIN NoCall
  BY DEF LInv, TInv, Shapes
<1>2. pc[e] \in Affecting /\ UNCHANGED <<tableVars, docker, running, interfaces>>
  BY DEF ConnectedContainers, dockerVars, Affecting
<1>3. SameLinks
  BY <1>1, <1>2, TableStays DEF SameLinks, tableVars
<1>4. ASSUME NEW list, Goto(e, "interface"), frame' = [frame EXCEPT ![e].left = list]
      PROVE  Links'
  <2>1. PICK f : f = [frame[e] EXCEPT !.left = list]
    OBVIOUS
  <2>2. f.object = frame[e].object /\ f.calls = frame[e].calls
    BY <1>1, <2>1 DEF NoCall
  <2>3. frame' = [frame EXCEPT ![e] = f]
    BY <1>4, <2>1
  <2>4. "interface" \in Affecting \ {"mode", "tc"}
    BY DEF Affecting
  <2> QED
    BY <1>2, <1>3, <1>4, <2>2, <2>3, <2>4, AffectsOn
<1>5. CASE Return(e)
  BY <1>2, <1>3, <1>5, AffectsOn
<1> QED
  BY <1>4, <1>5 DEF ConnectedContainers

\* The interface that is listed is the network's.
LEMMA ChooseLinks ==
    ASSUME LInv, NEW e \in Events, Worker(e), ChooseInterface(e)
    PROVE  Links'
<1>1. TInv /\ Only(e) /\ main = "join"
  BY WorkerOnly DEF LInv
<1>2. pc[e] = "interface" /\ UNCHANGED <<tableVars, docker, running, interfaces>>
  BY DEF ChooseInterface, dockerVars
<1>3. SameLinks
  BY <1>1, <1>2, TableStays DEF SameLinks, tableVars
<1>4. CASE KeyError(e)
  BY <1>2, <1>3, <1>4, AffectsOn DEF Affecting
<1>5. CASE /\ current(e) \in DOMAIN network(e).connected /\ Goto(e, "mode")
           /\ frame' = [frame EXCEPT ![e].interface = network(e).connected[current(e)]]
  <2>1. PICK n, key, c : n = frame[e].object /\ key = mapKey(e) /\ c = current(e)
    OBVIOUS
  <2>2. PICK i : i = objects[n].connected[c]
    OBVIOUS
  <2>3. c \in DOMAIN objects[n].connected
    BY <1>5, <2>1 DEF network
  <2>4. /\ n \in 1 .. Len(objects)
        /\ \A k \in DOMAIN networks : networks[k] = n => k = key
    BY <1>2, <2>1 DEF LInv, Links, Aiming, Affecting
  <2>5. key \in DOMAIN networks /\ networks[key] = n
    BY <2>3, <2>4 DEF LInv, Links, Distinct
  <2>6. c \in DOMAIN connected(key) /\ i = connected(key)[c] /\ name_of(key) = objects[n].name
    BY <2>2, <2>3, <2>5 DEF connected, name_of
  <2>7. c \in key \cap Containers /\ Listed(key, c)
    BY <1>1, <2>5, <2>6 DEF LInv, Links, Listing
  <2>8. key \subseteq OfActions(e, Effects)
    BY <1>2, <2>1 DEF LInv, Working, Affecting
  <2>9. i \in Nat /\ AllSettled(c)
    BY <2>6, <2>7 DEF Listed
  <2>10. i \in DOMAIN interfaces[c] => interfaces[c][i] = objects[n].name
    <3>1. c \in running \/ DOMAIN interfaces[c] = {}
      BY <2>7 DEF LInv, Links, Distinct
    <3> QED
      BY <2>6, <2>7, <3>1 DEF Listed, Linked
  <2>11. /\ pc'[e] = "mode" /\ frame'[e].interface = i
         /\ frame'[e].object = n /\ frame'[e].calls = frame[e].calls
         /\ frame'[e].left = frame[e].left
    <3>1. frame' = [frame EXCEPT ![e].interface = i]
      BY <1>5, <2>1, <2>2 DEF network
    <3> QED
      BY <1>1, <1>5, <2>1, <3>1, LabelOf DEF TInv, Shapes, NoCall
  <2>12. mapKey(e)' = key /\ current(e)' = c
    BY <2>1, <2>11 DEF mapKey, containers, current
  <2>13. AllSettled(c)'
    BY <2>9, AllSettledStays
  <2>14. c \in Containers \cap OfActions(e, Effects)'
    BY <2>7, <2>8 DEF OfActions
  <2>15. network(e)'.name = objects[n].name /\ UNCHANGED <<networks, objects, interfaces>>
    BY <1>2, <2>11 DEF network, tableVars
  <2>16. Aiming(e)'
    BY <2>4, <2>9, <2>10, <2>11, <2>12, <2>13, <2>14, <2>15 DEF Aiming
  <2>17. Naming(e)' /\ Watching(e)'
    BY <2>11 DEF Naming, Watching, Attaching
  <2> QED
    BY <1>2, <1>3, <2>11, <2>16, <2>17, StillKeeps
<1> QED
  BY <1>4, <1>5 DEF ChooseInterface

LEMMA ModeLinks ==
    ASSUME LInv, NEW e \in Events, Worker(e), ChooseCommand(e)
    PROVE  Links'
<1>1. TInv
  BY DEF LInv
<1>2. pc[e] = "mode" /\ UNCHANGED <<tableVars, docker, running, interfaces>>
  BY DEF ChooseCommand, dockerVars
<1>3. SameLinks
  BY <1>1, <1>2, TableStays DEF SameLinks, tableVars
<1>4. PICK command : frame' = [frame EXCEPT ![e].command = command]
  BY DEF ChooseCommand
<1>5. /\ pc'[e] = "tc" /\ frame'[e].interface = frame[e].interface
      /\ frame'[e].object = frame[e].object /\ frame'[e].calls = frame[e].calls
      /\ frame'[e].left = frame[e].left
  BY <1>1, <1>4, LabelOf DEF ChooseCommand, TInv, Shapes, NoCall
<1>6. /\ mapKey(e)' = mapKey(e) /\ current(e)' = current(e) /\ network(e)' = network(e)
      /\ UNCHANGED <<networks, objects, interfaces>>
  BY <1>2, <1>5 DEF mapKey, containers, current, network, tableVars
<1>7. Aiming(e)'
  <2>1. PICK n, key, c, i, name : /\ n = frame[e].object /\ key = mapKey(e) /\ c = current(e)
                                  /\ i = frame[e].interface /\ name = network(e).name
    OBVIOUS
  <2>2. /\ n \in 1 .. Len(objects)
        /\ \A k \in DOMAIN networks : networks[k] = n => k = key
        /\ c \in Containers \cap OfActions(e, Effects) /\ i \in Nat
        /\ i \in DOMAIN interfaces[c] => interfaces[c][i] = name
        /\ AllSettled(c)
    BY <1>2, <2>1 DEF LInv, Links, Aiming, Affecting
  <2>3. AllSettled(c)'
    BY <2>2, AllSettledStays
  <2>4. c \in Containers \cap OfActions(e, Effects)'
    BY <2>2 DEF OfActions
  <2> QED
    BY <1>5, <1>6, <2>1, <2>2, <2>3, <2>4 DEF Aiming
<1>8. Naming(e)' /\ Watching(e)'
  BY <1>5 DEF Naming, Watching, Attaching
<1> QED
  BY <1>2, <1>3, <1>5, <1>7, <1>8, StillKeeps

\* tc changes no interface, and what is noted of it nothing that is listed.
LEMMA EmulateLinks ==
    ASSUME LInv, NEW e \in Events, Worker(e), Emulate(e) \/ SetNetemInitialized(e)
    PROVE  Links'
<1>1. SameTable /\ TInv /\ DOMAIN frame[e] = DOMAIN NoCall
  BY EmulateQuiet DEF LInv, Quiet, TInv, Shapes
<1>2. pc[e] \in Affecting /\ UNCHANGED <<docker, running, interfaces>>
  BY DEF Emulate, SetNetemInitialized, tc, dockerVars, Affecting
<1>3. \A i \in 1 .. Len(objects) : objects'[i].connected = objects[i].connected
  <2>1. CASE UNCHANGED objects
    BY <2>1
  <2>2. CASE objects' = [objects EXCEPT ![frame[e].object].netem = @ \cup {current(e)}]
    <3> SUFFICES ASSUME NEW i \in 1 .. Len(objects)
                 PROVE  objects'[i].connected = objects[i].connected
      OBVIOUS
    <3>1. DOMAIN objects[i] = DOMAIN NewNetwork(0) /\ i \in DOMAIN objects
      BY <1>1, LenProperties DEF TInv, Shapes
    <3> QED
      BY <2>2, <3>1 DEF NewNetwork
  <2> QED
    BY <2>1, <2>2 DEF Emulate, SetNetemInitialized, tableVars
<1>4. SameLinks
  BY <1>1, <1>2, <1>3 DEF SameLinks
<1>5. CASE Return(e)
  BY <1>2, <1>4, <1>5, AffectsOn
<1>6. CASE Goto(e, "initialized") /\ UNCHANGED frame
  <2>1. frame' = [frame EXCEPT ![e] = frame[e]]
    BY <1>1, <1>6 DEF TInv, Shapes
  <2>2. "initialized" \in Affecting \ {"mode", "tc"}
    BY DEF Affecting
  <2> QED
    BY <1>2, <1>4, <1>6, <2>1, <2>2, AffectsOn
<1>7. CASE /\ Goto(e, "interface")
           /\ frame' = [frame EXCEPT ![e] = [frame[e] EXCEPT !.left = Tail(@)]]
  <2>1. PICK f : f = [frame[e] EXCEPT !.left = Tail(@)]
    OBVIOUS
  <2>2. f.object = frame[e].object /\ f.calls = frame[e].calls
    BY <1>1, <2>1 DEF NoCall
  <2>3. frame' = [frame EXCEPT ![e] = f]
    BY <1>7, <2>1
  <2>4. "interface" \in Affecting \ {"mode", "tc"}
    BY DEF Affecting
  <2> QED
    BY <1>2, <1>4, <1>7, <2>2, <2>3, <2>4, AffectsOn
<1> QED
  BY <1>5, <1>6, <1>7 DEF Emulate, SetNetemInitialized, Loop

-----------------------------------------------------------------------------
(* The steps that write what is listed, or attach.                          *)

\* What is said of the other threads where docker stays as it is.
LEMMA OthersKept ==
    ASSUME LInv, NEW e \in Events, Worker(e), OldObjects, UNCHANGED <<docker, running, interfaces>>,
           NEW d \in Events \ {e},
           pc[d] \in Attaching => mapKey(d) \in DOMAIN networks' \ Stale'
    PROVE  Naming(d)' /\ Watching(d)' /\ Aiming(d)'
<1>1. Only(e)
  BY WorkerOnly DEF LInv
<1>2. Undisturbed(current(d)) /\ Lessens(current(d))
  BY DEF Undisturbed, Lessens
<1>3. Attached(d) => frame[d].name \in DOMAIN docker' /\ current(d) \in docker'[frame[d].name]
  BY DEF Attached
<1> QED
  BY <1>1, <1>2, <1>3, NamingKept, WatchingKept, AimingKept

\* The thread writes what it has found, in the network of its key.
LEMMA ListLinks ==
    ASSUME LInv, NEW e \in Events, Worker(e), ListInterface(e)
    PROVE  Links'
<1>1. TInv /\ Only(e) /\ SameTable /\ main = "join" /\ main' = "join"
  BY WorkerOnly, ListQuiet DEF LInv, Quiet
<1>2. pc[e] = "list" /\ UNCHANGED <<networks, docker, running, interfaces>>
  BY DEF ListInterface, dockerVars
<1>3. CASE KeyError(e) /\ UNCHANGED objects
  <2>1. pc'[e] = "aborted"
    BY <1>1, <1>3, LabelOf DEF KeyError
  <2> QED
    BY <1>2, <1>3, <2>1, UnsaidKeeps DEF Attaching, Affecting, tableVars
<1>4. CASE /\ mapKey(e) \in DOMAIN networks
           /\ objects' = [objects EXCEPT
                 ![networks[mapKey(e)]].connected = With(@, current(e), frame[e].interface),
                 ![networks[mapKey(e)]].netem = @ \ {current(e)}]
           /\ Loop(e, frame[e], "before", NextCall(e))
  <2>1. PICK key, c, i, name : /\ key = mapKey(e) /\ c = current(e) /\ i = frame[e].interface
                               /\ name = frame[e].name
    OBVIOUS
  <2>2. Naming(e)' /\ Watching(e)' /\ Aiming(e)' /\ pc'[e] # "pop"
    BY <1>1, <1>2, <1>4, NextConnectSays
  <2>3. Stale' = Stale /\ OldObjects
    BY <1>1, <1>2, <2>2, StaleStays, SameIsOld
  <2>4. /\ key \in DOMAIN networks \ Stale /\ name_of(key) = name
        /\ name \in DOMAIN docker /\ c \in docker[name]
        /\ i \in Nat /\ (c \in running => i \in DOMAIN interfaces[c] /\ interfaces[c][i] = name)
        /\ AllSettled(c)
    BY <1>2, <2>1 DEF LInv, Links, Naming, Watching, Attached, Found, Attaching
  <2>5. c \in key /\ c \in Containers
    BY <1>2, <2>1, CurrentInKey DEF Attaching
  <2>6. PICK n : n = networks[key]
    OBVIOUS
  <2>7. n \in DOMAIN objects /\ DOMAIN objects[n] = DOMAIN NewNetwork(0)
    BY <1>1, <2>4, <2>6, LenProperties DEF TInv, Shapes
  <2>8. PICK w : objects' = [objects EXCEPT ![n].connected = With(objects[n].connected, c, i),
                                            ![n].netem = w]
    BY <1>4, <2>1, <2>6
  <2>9. /\ objects'[n].connected = With(objects[n].connected, c, i)
        /\ \A m \in DOMAIN objects : m # n => objects'[m] = objects[m]
    BY <2>7, <2>8 DEF NewNetwork
  <2>10. \A k \in DOMAIN networks : networks[k] \in DOMAIN objects /\ (k # key => networks[k] # n)
    BY <1>1, <2>4, <2>6, LenProperties DEF LInv, Links, Distinct, TInv, Shapes
  <2>11. /\ connected(key)' = With(connected(key), c, i)
         /\ \A k \in DOMAIN networks : k # key => connected(k)' = connected(k)
    BY <1>2, <2>4, <2>6, <2>9, <2>10 DEF connected
  <2>12. \A k \in DOMAIN networks : name_of(k)' = name_of(k)
    BY <1>1, <1>2 DEF SameTable, SameObjects, TInv, Shapes, name_of
  <2>13. Distinct'
    <3>1. Len(objects') = Len(objects) /\ 1 .. Len(objects) = DOMAIN objects
      BY <1>1, LenProperties DEF SameTable, SameObjects, TInv, Shapes
    <3>2. ASSUME NEW m \in 1 .. Len(objects), \A k \in DOMAIN networks : networks[k] # m
          PROVE  DOMAIN objects'[m].connected = {}
      <4>1. m # n /\ DOMAIN objects[m].connected = {}
        BY <2>4, <2>6, <3>2 DEF LInv, Links, Distinct
      <4> QED
        BY <2>9, <3>1, <4>1
    <3> QED
      BY <1>2, <3>1, <3>2 DEF LInv, Links, Distinct
  <2>14. Listed(key, c)'
    <3>1. connected(key)'[c] = i
      BY <2>11 DEF With
    <3>2. AllSettled(c)'
      BY <2>4, AllSettledStays
    <3>3. name_of(key)' = name
      BY <2>4, <2>12
    <3>4. Linked(key, c)'
      BY <1>2, <2>4, <3>1, <3>3 DEF Linked
    <3> QED
      BY <2>3, <2>4, <3>1, <3>2, <3>4 DEF Listed
  <2>15. Listing'
    <3> SUFFICES ASSUME NEW k \in DOMAIN networks, NEW d \in DOMAIN connected(k)', k # key \/ d # c
                 PROVE  d \in k \cap Containers /\ Listed(k, d)'
      BY <1>2, <2>5, <2>14 DEF Listing
    <3>1. d \in DOMAIN connected(k) /\ connected(k)'[d] = connected(k)[d]
      BY <2>11 DEF With
    <3>2. d \in k \cap Containers /\ Listed(k, d)
      BY <1>1, <3>1 DEF LInv, Links, Listing
    <3>3. Linked(k, d) => Linked(k, d)'
      BY <1>2, <2>12, <3>1 DEF Linked
    <3>4. Leaving(k, d) => Leaving(k, d)'
      BY <1>1, <1>2, LeavingStays
    <3>5. k \notin Stale'
      BY <2>3, <3>2 DEF Listed
    <3> QED
      BY <1>2, <3>1, <3>2, <3>3, <3>4, <3>5, ListedKept
  <2>16. ASSUME NEW d \in Events \ {e} PROVE Naming(d)' /\ Watching(d)' /\ Aiming(d)'
    <3>1. pc[d] \in Attaching => mapKey(d) \in DOMAIN networks' \ Stale'
      BY <1>2, <2>3 DEF LInv, Links, Naming
    <3> QED
      BY <1>2, <2>3, <3>1, OthersKept
  <2> QED
    BY <2>2, <2>13, <2>15, <2>16 DEF Links
<1> QED
  BY <1>3, <1>4 DEF ListInterface

\* A container that is attached gets one interface, if it runs.
LEMMA ConnectFacts ==
    ASSUME LInv, NEW name, NEW c \in Containers, CanConnect(name, c), network_connect(name, c)
    PROVE  /\ name \in DOMAIN docker /\ DOMAIN docker' = DOMAIN docker /\ running' = running
           /\ \A n \in DOMAIN docker : docker[n] \subseteq docker'[n]
           /\ c \in docker'[name]
           /\ interfaces' = [d \in Containers |-> interfaces'[d]]
           /\ \A d \in Containers : /\ d # c \/ c \notin running => interfaces'[d] = interfaces[d]
                                    /\ \A i \in DOMAIN interfaces[d] :
                                           /\ i \in DOMAIN interfaces'[d]
                                           /\ interfaces'[d][i] = interfaces[d][i]
           /\ c \in running => \E i \in Nat : /\ i \notin DOMAIN interfaces[c]
                                              /\ DOMAIN interfaces'[c] = DOMAIN interfaces[c] \cup {i}
                                              /\ interfaces'[c][i] = name
<1>1. /\ interfaces = [d \in Containers |-> interfaces[d]]
      /\ IsFiniteSet(DOMAIN interfaces[c])
      /\ docker = [n \in DOMAIN docker |-> docker[n]]
  BY DEF LInv, Links, Distinct, TInv, Shapes
<1>2. /\ name \in DOMAIN docker /\ running' = running
      /\ docker' = [docker EXCEPT ![name] = @ \cup {c}]
  BY DEF CanConnect, network_connect
<1>3. /\ DOMAIN docker' = DOMAIN docker /\ c \in docker'[name]
      /\ \A n \in DOMAIN docker : docker[n] \subseteq docker'[n]
  BY <1>1, <1>2
<1>4. CASE c \notin running
  BY <1>1, <1>2, <1>3, <1>4 DEF network_connect
<1>5. CASE c \in running
  <2> DEFINE IsFree(i) == i \notin DOMAIN interfaces[c] /\ 0 .. i - 1 \subseteq DOMAIN interfaces[c]
             D == 0 .. Cardinality(DOMAIN interfaces[c])
  <2>1. PICK free : /\ free = CHOOSE i \in D : IsFree(i)
                    /\ interfaces' = [interfaces EXCEPT ![c] = With(@, free, name)]
    BY <1>5 DEF network_connect
  <2>2. \E i \in D : IsFree(i)
    BY <1>1, FreeInterface
  <2>3. free \in D /\ IsFree(free)
    <3> HIDE DEF IsFree, D
    <3> QED
      BY <2>1, <2>2
  <2>4. free \in Nat /\ free \notin DOMAIN interfaces[c]
    BY <1>1, <2>3, FS_CardinalityType
  <2>5. /\ interfaces' = [d \in Containers |-> interfaces'[d]]
        /\ \A d \in Containers : d # c => interfaces'[d] = interfaces[d]
        /\ interfaces'[c] = With(interfaces[c], free, name)
    BY <1>1, <2>1
  <2>6. /\ DOMAIN interfaces'[c] = DOMAIN interfaces[c] \cup {free}
        /\ interfaces'[c][free] = name
        /\ \A i \in DOMAIN interfaces[c] : interfaces'[c][i] = interfaces[c][i]
    BY <2>4, <2>5 DEF With
  <2> QED
    BY <1>2, <1>3, <1>5, <2>4, <2>5, <2>6
<1> QED
  BY <1>4, <1>5

\* Effects under way work on no container that another thread attaches.
LEMMA AimedElsewhere ==
    ASSUME Orderly, LInv, NEW e \in Events, NEW d \in Events \ {e}, Active(e), NEW c \in JoinedBy(e),
           pc[d] \in {"mode", "tc"}
    PROVE  current(d) # c /\ current(d) \in Containers
<1>1. current(d) \in Containers /\ current(d) \in OfActions(d, Effects)
  BY DEF LInv, Links, Aiming
<1>2. OfActions(d, Effects) \subseteq UsedBy(d)
  BY DEF UsedBy
<1>3. Active(d)
  BY DEF Active
<1> QED
  BY <1>1, <1>2, <1>3, NobodyElse DEF LInv, TInv

\* A container is attached for one thread at a time.
LEMMA AttachedElsewhere ==
    ASSUME Orderly, LInv, NEW e \in Events, NEW d \in Events \ {e}, Active(e), NEW c \in UsedBy(e),
           pc[d] \in Attaching
    PROVE  current(d) # c /\ current(d) \in Containers
  BY CurrentInKey, NobodyElse DEF LInv, TInv

LEMMA AttachLinks ==
    ASSUME Orderly, LInv, NEW e \in Events, Worker(e), Attach(e)
    PROVE  Links'
<1>1. TInv /\ Only(e) /\ SameTable /\ main = "join" /\ main' = "join"
  BY WorkerOnly, AttachQuiet DEF LInv, Quiet
<1>2. pc[e] = "attach" /\ pc'[e] = "after" /\ UNCHANGED tableVars
  BY <1>1, LabelOf DEF Attach
<1>3. PICK failed \in BOOLEAN : /\ frame' = [frame EXCEPT ![e].failed = failed]
                                /\ failed => UNCHANGED dockerVars
                                /\ ~failed => /\ CanConnect(frame[e].name, current(e))
                                              /\ network_connect(frame[e].name, current(e))
  BY DEF Attach
<1>4. /\ frame'[e].name = frame[e].name /\ frame'[e].calls = frame[e].calls
      /\ frame'[e].left = frame[e].left /\ frame'[e].before = frame[e].before
      /\ frame'[e].failed = failed
  BY <1>1, <1>3 DEF TInv, Shapes, NoCall
<1>5. Naming(e)' /\ Aiming(e)'
  BY <1>1, <1>2, <1>4, NamingOn DEF Attaching
<1>6. CASE failed
  <2>1. Watching(e)'
    BY <1>2, <1>4, <1>6 DEF Watching
  <2>2. SameLinks
    BY <1>1, <1>2, <1>3, <1>6, TableStays DEF SameLinks, tableVars, dockerVars
  <2> QED
    BY <1>2, <1>5, <2>1, <2>2, StillKeeps
<1>7. CASE ~failed
  <2>1. PICK c, name : c = current(e) /\ name = frame[e].name
    OBVIOUS
  <2>2. c \in Containers /\ Active(e) /\ c \in UsedBy(e) /\ c \in JoinedBy(e)
    BY <1>2, <2>1, CurrentInKey DEF Attaching
  <2>3. /\ name \in DOMAIN docker /\ DOMAIN docker' = DOMAIN docker /\ running' = running
        /\ \A n \in DOMAIN docker : docker[n] \subseteq docker'[n]
        /\ c \in docker'[name]
        /\ interfaces' = [d \in Containers |-> interfaces'[d]]
        /\ \A d \in Containers : /\ d # c \/ c \notin running => interfaces'[d] = interfaces[d]
                                 /\ \A i \in DOMAIN interfaces[d] :
                                        /\ i \in DOMAIN interfaces'[d]
                                        /\ interfaces'[d][i] = interfaces[d][i]
        /\ c \in running => \E i \in Nat : /\ i \notin DOMAIN interfaces[c]
                                           /\ DOMAIN interfaces'[c] = DOMAIN interfaces[c] \cup {i}
                                           /\ interfaces'[c][i] = name
    BY <1>3, <1>7, <2>1, <2>2, ConnectFacts
  <2>4. Stale' = Stale /\ OldObjects
    BY <1>1, <1>2, StaleStays, SameIsOld
  <2>5. \A l \in DOMAIN networks : name_of(l)' = name_of(l) /\ connected(l)' = connected(l)
    BY <1>2 DEF name_of, connected, tableVars
  <2>6. Distinct'
    <3>1. ASSUME NEW d \in Containers PROVE IsFiniteSet(DOMAIN interfaces'[d])
      <4>1. IsFiniteSet(DOMAIN interfaces[d])
        BY DEF LInv, Links, Distinct
      <4>2. CASE d # c \/ c \notin running
        BY <2>3, <4>1, <4>2
      <4>3. CASE d = c /\ c \in running
        BY <2>3, <4>1, <4>3, FS_AddElement
      <4> QED
        BY <4>2, <4>3
    <3>2. \A d \in Containers \ running' : DOMAIN interfaces'[d] = {}
      BY <2>3 DEF LInv, Links, Distinct
    <3> QED
      BY <1>2, <2>3, <3>1, <3>2 DEF LInv, Links, Distinct, tableVars
  <2>7. Listing'
    <3> SUFFICES ASSUME NEW key \in DOMAIN networks, NEW d \in DOMAIN connected(key)
                 PROVE  d \in key \cap Containers /\ Listed(key, d)'
      BY <1>2, <2>5 DEF Listing, tableVars
    <3>1. d \in key \cap Containers /\ Listed(key, d)
      BY <1>1 DEF LInv, Links, Listing
    <3>2. PICK n, i : n = name_of(key) /\ i = connected(key)[d]
      OBVIOUS
    <3>3. name_of(key)' = n /\ connected(key)'[d] = i /\ key \notin Stale'
      BY <2>4, <2>5, <3>1, <3>2 DEF Listed
    <3>4. Linked(key, d) => Linked(key, d)'
      BY <2>3, <3>1, <3>2, <3>3 DEF Linked
    <3>5. Leaving(key, d) => Leaving(key, d)'
      BY <1>1, <1>2, LeavingStays
    <3>6. ASSUME Leaving(key, d), i \notin DOMAIN interfaces[d]
          PROVE  i \notin DOMAIN interfaces'[d]
      <4>1. PICK b \in Events : pc[b] = "unlist" /\ current(b) = d
        BY <3>6 DEF Leaving
      <4>2. b # e /\ Active(b) /\ d \in UsedBy(b)
        BY <1>2, <4>1, CurrentInKey
      <4>3. d # c
        BY <1>1, <2>2, <4>2, NobodyElse DEF TInv
      <4> QED
        BY <2>3, <3>1, <3>6, <4>3
    <3> QED
      BY <3>1, <3>2, <3>3, <3>4, <3>5, <3>6, ListedKept
  <2>8. Watching(e)'
    <3>1. ls(c) \subseteq frame[e].before
      BY <1>2, <2>1 DEF LInv, Links, Watching
    <3>2. current(e)' = c /\ new_interfaces(e)' = ls(c)' \ frame[e].before
      BY <1>4, <2>1 DEF current, new_interfaces
    <3>3. Attached(e)'
      BY <1>4, <2>1, <2>3, <3>2 DEF Attached
    <3>4. CASE c \notin running
      <4>1. new_interfaces(e)' = {}
        BY <2>3, <3>2, <3>4 DEF ls
      <4> QED
        BY <1>2, <3>3, <4>1 DEF Watching
    <3>5. CASE c \in running
      <4>1. PICK i \in Nat : /\ DOMAIN interfaces'[c] = DOMAIN interfaces[c] \cup {i}
                             /\ interfaces'[c][i] = name
        BY <2>3, <3>5
      <4>2. new_interfaces(e)' \subseteq {i}
        BY <2>3, <3>1, <3>2, <3>5, <4>1 DEF ls
      <4>3. Found(e, i)'
        BY <1>4, <2>1, <3>2, <4>1 DEF Found
      <4> QED
        BY <1>2, <3>3, <4>2, <4>3 DEF Watching
    <3> QED
      BY <3>4, <3>5
  <2>9. ASSUME NEW d \in Events \ {e} PROVE Naming(d)' /\ Watching(d)' /\ Aiming(d)'
    <3>1. pc[d] \in Attaching => mapKey(d) \in DOMAIN networks' \ Stale'
      BY <1>2, <2>4 DEF LInv, Links, Naming, tableVars
    <3>2. pc[d] \in {"attach", "after", "list"} => Undisturbed(current(d))
      <4> SUFFICES ASSUME pc[d] \in {"attach", "after", "list"} PROVE Undisturbed(current(d))
        OBVIOUS
      <4>1. current(d) # c /\ current(d) \in Containers
        BY <2>2, AttachedElsewhere DEF Attaching
      <4> QED
        BY <2>3, <4>1 DEF Undisturbed
    <3>3. pc[d] \in {"mode", "tc"} => Lessens(current(d))
      <4> SUFFICES ASSUME pc[d] \in {"mode", "tc"} PROVE Lessens(current(d))
        OBVIOUS
      <4>1. current(d) # c /\ current(d) \in Containers
        BY <2>2, AimedElsewhere
      <4> QED
        BY <2>3, <4>1 DEF Lessens
    <3>4. Attached(d) => frame[d].name \in DOMAIN docker' /\ current(d) \in docker'[frame[d].name]
      BY <2>3 DEF Attached
    <3> QED
      BY <1>1, <2>4, <3>1, <3>2, <3>3, <3>4, NamingKept, WatchingKept, AimingKept
  <2> QED
    BY <1>5, <2>6, <2>7, <2>8, <2>9 DEF Links
<1> QED
  BY <1>6, <1>7

-----------------------------------------------------------------------------
(* The steps that create a network and take it to pieces.                   *)

LEMMA CreateLinks ==
    ASSUME LInv, NEW e \in Events, Worker(e), CreateNetwork(e)
    PROVE  Links'
<1>1. TInv /\ Only(e) /\ main = "join" /\ main' = "join"
  BY WorkerOnly DEF LInv
<1>2. pc[e] = "create" /\ UNCHANGED tableVars
  BY DEF CreateNetwork
<1>3. CASE NextCall(e) /\ UNCHANGED dockerVars
  <2>1. pc'[e] \in {"do", "connect"}
    BY <1>1, <1>3, LabelOf DEF NextCall, Call
  <2> QED
    BY <1>2, <1>3, <2>1, UnsaidKeeps DEF Attaching, Affecting, dockerVars
<1>4. CASE /\ ~network_inspect(frame[e].name) /\ network_create(frame[e].name)
           /\ Goto(e, "put")
  <2>1. PICK new : new = frame[e].name
    OBVIOUS
  <2>2. /\ new \notin DOMAIN docker /\ docker' = With(docker, new, {})
        /\ UNCHANGED <<running, interfaces>>
    BY <1>4, <2>1 DEF network_inspect, network_create
  <2>3. /\ DOMAIN docker' = DOMAIN docker \cup {new}
        /\ \A m \in DOMAIN docker : docker'[m] = docker[m]
        /\ docker' = [m \in DOMAIN docker' |-> docker'[m]]
    BY <2>2 DEF With
  <2>4. pc'[e] = "put"
    BY <1>1, <1>4, LabelOf
  <2>5. Stale' = Stale
    BY <1>1, <1>2, <2>4, StaleStays
  <2>6. OldObjects
    <3>1. Len(objects) \in Nat /\ UNCHANGED <<networks, objects>>
      BY <1>1, <1>2, LenProperties DEF TInv, Shapes, tableVars
    <3> QED
      BY <3>1 DEF OldObjects
  <2>7. \A k \in DOMAIN networks : name_of(k)' = name_of(k) /\ connected(k)' = connected(k)
    BY <1>2 DEF name_of, connected, tableVars
  <2>8. Distinct'
    <3>1. IsFiniteSet(DOMAIN docker')
      BY <2>3, FS_AddElement DEF LInv, Links, Distinct
    <3> QED
      BY <1>2, <2>2, <3>1 DEF LInv, Links, Distinct, tableVars
  <2>9. Listing'
    <3> SUFFICES ASSUME NEW k \in DOMAIN networks, NEW d \in DOMAIN connected(k)
                 PROVE  d \in k \cap Containers /\ Listed(k, d)'
      BY <1>2, <2>7 DEF Listing, tableVars
    <3>1. d \in k \cap Containers /\ Listed(k, d)
      BY <1>1 DEF LInv, Links, Listing
    <3>2. k \notin Stale' /\ connected(k)'[d] = connected(k)[d]
      BY <2>5, <2>7, <3>1 DEF Listed
    <3>3. Linked(k, d) => Linked(k, d)'
      BY <2>2, <2>3, <2>7 DEF Linked
    <3>4. Leaving(k, d) => Leaving(k, d)'
      BY <1>1, <1>2, LeavingStays
    <3> QED
      BY <2>2, <3>1, <3>2, <3>3, <3>4, ListedKept
  <2>10. ASSUME NEW d \in Events \ {e} PROVE Naming(d)' /\ Watching(d)' /\ Aiming(d)'
    <3>1. Undisturbed(current(d)) /\ Lessens(current(d))
      BY <2>2 DEF Undisturbed, Lessens
    <3>2. pc[d] \in Attaching => mapKey(d) \in DOMAIN networks' \ Stale'
      BY <1>2, <2>5 DEF LInv, Links, Naming, tableVars
    <3>3. Attached(d) => frame[d].name \in DOMAIN docker' /\ current(d) \in docker'[frame[d].name]
      BY <2>3 DEF Attached
    <3> QED
      BY <1>1, <2>6, <3>1, <3>2, <3>3, NamingKept, WatchingKept, AimingKept
  <2>11. Naming(e)' /\ Watching(e)' /\ Aiming(e)'
    BY <2>4, NothingSaid DEF Attaching, Affecting
  <2> QED
    BY <2>8, <2>9, <2>10, <2>11 DEF Links
<1> QED
  BY <1>3, <1>4 DEF CreateNetwork

\* The new object lists nothing yet.
LEMMA PutLinks ==
    ASSUME LInv, NEW e \in Events, Worker(e), PutNetwork(e)
    PROVE  Links'
<1>1. TInv /\ Only(e) /\ main = "join" /\ main' = "join"
  BY WorkerOnly DEF LInv
<1>2. PICK key, new, n : Put(e, key, new, n)
  BY <1>1, PutFacts
<1>3. /\ n = Len(objects) /\ n \in Nat /\ Len(objects') = n + 1
      /\ pc[e] = "put" /\ pc'[e] = "before"
      /\ mapKey(e)' = key /\ frame'[e].name = new
      /\ \A i \in 1 .. n : objects'[i] = objects[i]
      /\ objects'[n + 1] = NewNetwork(new)
      /\ key \notin DOMAIN networks /\ key \notin Stale /\ Stale' = Stale
      /\ DOMAIN networks' = DOMAIN networks \cup {key} /\ networks'[key] = n + 1
      /\ \A k \in DOMAIN networks : networks'[k] = networks[k]
      /\ UNCHANGED <<docker, running, interfaces>>
  BY <1>1, <1>2 DEF Put, dockerVars
<1>4. frame'[e].name = new
  BY <1>3
<1>5. \A k \in DOMAIN networks : networks[k] \in 1 .. n
  BY <1>1, <1>3 DEF TInv, Shapes
<1>6. /\ \A k \in DOMAIN networks : name_of(k)' = name_of(k) /\ connected(k)' = connected(k)
      /\ name_of(key)' = new /\ connected(key)' = Empty
  BY <1>3, <1>5 DEF name_of, connected, NewNetwork
<1>7. OldObjects
  BY <1>3 DEF OldObjects
<1>8. Distinct'
  <2>1. \A k, l \in DOMAIN networks' : networks'[k] = networks'[l] => k = l
    BY <1>3, <1>5 DEF LInv, Links, Distinct
  <2>2. ASSUME NEW i \in 1 .. n + 1, \A k \in DOMAIN networks' : networks'[k] # i
        PROVE  DOMAIN objects'[i].connected = {}
    <3>1. i \in 1 .. n
      BY <1>3, <2>2
    <3>2. \A k \in DOMAIN networks : networks[k] # i
      BY <1>3, <2>2
    <3> QED
      BY <1>3, <3>1, <3>2 DEF LInv, Links, Distinct
  <2> QED
    BY <1>3, <2>1, <2>2 DEF LInv, Links, Distinct
<1>9. Listing'
  <2> SUFFICES ASSUME NEW k \in DOMAIN networks', NEW d \in DOMAIN connected(k)'
               PROVE  d \in k \cap Containers /\ Listed(k, d)'
    BY DEF Listing
  <2>1. k \in DOMAIN networks
    BY <1>3, <1>6 DEF Empty
  <2>2. d \in DOMAIN connected(k) /\ connected(k)'[d] = connected(k)[d] /\ name_of(k)' = name_of(k)
    BY <1>6, <2>1
  <2>3. d \in k \cap Containers /\ Listed(k, d)
    BY <1>1, <2>1, <2>2 DEF LInv, Links, Listing
  <2>4. k \notin Stale'
    BY <1>3, <2>3 DEF Listed
  <2>5. Linked(k, d) => Linked(k, d)'
    BY <1>3, <2>2 DEF Linked
  <2>6. Leaving(k, d) => Leaving(k, d)'
    BY <1>1, <1>3, LeavingStays
  <2> QED
    BY <1>3, <2>2, <2>3, <2>4, <2>5, <2>6, ListedKept
<1>10. Naming(e)' /\ Watching(e)' /\ Aiming(e)'
  BY <1>3, <1>4, <1>6 DEF Naming, Watching, Aiming, Attaching, Affecting
<1>11. ASSUME NEW d \in Events \ {e} PROVE Naming(d)' /\ Watching(d)' /\ Aiming(d)'
  <2>1. pc[d] \in Attaching => mapKey(d) \in DOMAIN networks' \ Stale'
    BY <1>3 DEF LInv, Links, Naming
  <2> QED
    BY <1>3, <1>7, <2>1, OthersKept
<1> QED
  BY <1>8, <1>9, <1>10, <1>11 DEF Links

\* A container that is detached loses the interfaces of that network alone.
LEMMA DisconnectFacts ==
    ASSUME LInv, NEW name, NEW c \in Containers, CanDisconnect(name, c),
           network_disconnect(name, c)
    PROVE  /\ DOMAIN docker' = DOMAIN docker /\ running' = running
           /\ \A n \in DOMAIN docker : /\ docker[n] \ {c} \subseteq docker'[n]
                                       /\ n # name => docker'[n] = docker[n]
           /\ interfaces' = [d \in Containers |-> interfaces'[d]]
           /\ \A d \in Containers :
                  /\ d # c => interfaces'[d] = interfaces[d]
                  /\ \A i \in DOMAIN interfaces'[d] :
                         i \in DOMAIN interfaces[d] /\ interfaces'[d][i] = interfaces[d][i]
           /\ \A i \in DOMAIN interfaces[c] :
                  i \in DOMAIN interfaces'[c] <=> interfaces[c][i] # name
<1>1. /\ interfaces = [d \in Containers |-> interfaces[d]]
      /\ docker = [n \in DOMAIN docker |-> docker[n]]
  BY DEF LInv, Links, Distinct, TInv, Shapes
<1>2. PICK gone : gone = {i \in DOMAIN interfaces[c] : interfaces[c][i] = name}
  OBVIOUS
<1>3. /\ name \in DOMAIN docker /\ running' = running
      /\ docker' = [docker EXCEPT ![name] = @ \ {c}]
      /\ interfaces' = [interfaces EXCEPT ![c] = Restrict(@, DOMAIN @ \ gone)]
  BY <1>2 DEF CanDisconnect, network_disconnect
<1>4. /\ interfaces' = [d \in Containers |-> interfaces'[d]]
      /\ \A d \in Containers : d # c => interfaces'[d] = interfaces[d]
      /\ interfaces'[c] = Restrict(interfaces[c], DOMAIN interfaces[c] \ gone)
  BY <1>1, <1>3
<1>5. /\ DOMAIN interfaces'[c] = DOMAIN interfaces[c] \ gone
      /\ \A i \in DOMAIN interfaces'[c] : interfaces'[c][i] = interfaces[c][i]
  BY <1>4 DEF Restrict
<1> QED
  BY <1>1, <1>2, <1>3, <1>4, <1>5

\* What is listed of a container that was detached is of no use to anyone.
LEMMA DetachLinks ==
    ASSUME Orderly, LInv, NEW e \in Events, Worker(e), Detach(e)
    PROVE  Links'
<1>1. TInv /\ Only(e) /\ SameTable /\ main = "join" /\ main' = "join"
  BY WorkerOnly, DetachQuiet DEF LInv, Quiet
<1>2. pc[e] = "detach" /\ UNCHANGED tableVars
  BY DEF Detach
<1>3. \A label : Goto(e, label) => pc'[e] = label
  BY <1>1, LabelOf
<1>4. CASE NextContainer(e, [frame[e] EXCEPT !.failed = TRUE]) /\ UNCHANGED dockerVars
  <2>1. pc'[e] \in {"detach", "do", "delete"}
    BY <1>3, <1>4 DEF NextContainer, Loop, Return
  <2> QED
    BY <1>2, <1>4, <2>1, UnsaidKeeps DEF Attaching, Affecting, dockerVars
<1>5. CASE /\ CanDisconnect(network(e).name, current(e))
           /\ network_disconnect(network(e).name, current(e))
           /\ Goto(e, "unlist") /\ UNCHANGED frame
  <2>1. PICK key, c, name : key = mapKey(e) /\ c = current(e) /\ name = network(e).name
    OBVIOUS
  <2>2. key \in DOMAIN networks /\ networks[key] = frame[e].object
    BY <1>1, <1>2, <2>1 DEF TInv, Calling
  <2>3. name = name_of(key) /\ c \in key /\ c \in Containers /\ Active(e) /\ c \in UsedBy(e)
    BY <1>2, <2>1, <2>2, CurrentInKey DEF network, name_of
  <2>4. key \notin Stale
    BY <1>1, <1>2, <2>1, Apart DEF Stale, Cutting, Orderly
  <2>5. /\ DOMAIN docker' = DOMAIN docker /\ running' = running
        /\ \A n \in DOMAIN docker : /\ docker[n] \ {c} \subseteq docker'[n]
                                    /\ n # name => docker'[n] = docker[n]
        /\ interfaces' = [d \in Containers |-> interfaces'[d]]
        /\ \A d \in Containers :
               /\ d # c => interfaces'[d] = interfaces[d]
               /\ \A i \in DOMAIN interfaces'[d] :
                      i \in DOMAIN interfaces[d] /\ interfaces'[d][i] = interfaces[d][i]
        /\ \A i \in DOMAIN interfaces[c] :
               i \in DOMAIN interfaces'[c] <=> interfaces[c][i] # name
    BY <1>5, <2>1, <2>3, DisconnectFacts
  <2>6. pc'[e] = "unlist" /\ mapKey(e)' = key /\ current(e)' = c
    BY <1>3, <1>5, <2>1 DEF mapKey, containers, current
  <2>7. Stale' = Stale /\ OldObjects
    BY <1>1, <1>2, <2>6, StaleStays, SameIsOld
  <2>8. \A k \in DOMAIN networks : name_of(k)' = name_of(k) /\ connected(k)' = connected(k)
    BY <1>2 DEF name_of, connected, tableVars
  <2>9. Distinct'
    <3>1. ASSUME NEW d \in Containers
          PROVE  IsFiniteSet(DOMAIN interfaces'[d]) /\ (d \notin running => DOMAIN interfaces'[d] = {})
      <4>1. IsFiniteSet(DOMAIN interfaces[d]) /\ (d \notin running => DOMAIN interfaces[d] = {})
        BY DEF LInv, Links, Distinct
      <4>2. DOMAIN interfaces'[d] \subseteq DOMAIN interfaces[d]
        BY <2>5
      <4> QED
        BY <4>1, <4>2, FS_Subset
    <3> QED
      BY <1>2, <2>5, <3>1 DEF LInv, Links, Distinct, tableVars
  <2>10. Listing'
    <3> SUFFICES ASSUME NEW k \in DOMAIN networks, NEW d \in DOMAIN connected(k)
                 PROVE  d \in k \cap Containers /\ Listed(k, d)'
      BY <1>2, <2>8 DEF Listing, tableVars
    <3>1. d \in k \cap Containers /\ Listed(k, d)
      BY <1>1 DEF LInv, Links, Listing
    <3>2. PICK n, i : n = name_of(k) /\ i = connected(k)[d]
      OBVIOUS
    <3>3. name_of(k)' = n /\ connected(k)'[d] = i /\ k \notin Stale /\ k \notin Stale'
      BY <2>7, <2>8, <3>1, <3>2 DEF Listed
    <3>4. Leaving(k, d) /\ i \notin DOMAIN interfaces[d] => Leaving(k, d)' /\ i \notin DOMAIN interfaces'[d]
      BY <1>1, <1>2, <2>5, <3>1, LeavingStays
    <3>5. CASE k = key /\ d = c
      <4>1. Leaving(k, d)'
        BY <2>6, <3>5 DEF Leaving
      <4>2. Linked(k, d) => i \notin DOMAIN interfaces'[d]
        <5> SUFFICES ASSUME Linked(k, d), i \in DOMAIN interfaces'[d] PROVE FALSE
          OBVIOUS
        <5>1. i \in DOMAIN interfaces[c]
          BY <2>3, <2>5, <3>5
        <5>2. c \in running
          BY <2>3, <5>1 DEF LInv, Links, Distinct
        <5>3. interfaces[c][i] = name
          BY <2>3, <3>2, <3>5, <5>2 DEF Linked
        <5> QED
          BY <2>5, <3>5, <5>1, <5>3
      <4> QED
        BY <3>1, <3>2, <3>3, <3>4, <4>1, <4>2, ListedKept
    <3>6. CASE ~(k = key /\ d = c)
      <4>1. d = c => n # name
        <5> SUFFICES ASSUME d = c, n = name PROVE FALSE
          OBVIOUS
        <5>1. k # key
          BY <3>6
        <5> QED
          BY <1>1, <2>2, <2>3, <2>4, <3>2, <3>3, <5>1 DEF TInv, Matching
      <4>2. Linked(k, d) => Linked(k, d)'
        <5> SUFFICES ASSUME Linked(k, d) PROVE Linked(k, d)'
          OBVIOUS
        <5>1. /\ n \in DOMAIN docker /\ d \in docker[n]
              /\ d \in running => i \in DOMAIN interfaces[d] /\ interfaces[d][i] = n
          BY <3>2 DEF Linked
        <5>2. n \in DOMAIN docker' /\ d \in docker'[n]
          BY <2>5, <4>1, <5>1
        <5>3. d \in running => i \in DOMAIN interfaces'[d] /\ interfaces'[d][i] = n
          BY <2>5, <3>1, <4>1, <5>1
        <5> QED
          BY <2>5, <3>3, <5>2, <5>3 DEF Linked
      <4> QED
        BY <3>1, <3>2, <3>3, <3>4, <4>2, ListedKept
    <3> QED
      BY <3>5, <3>6
  <2>11. ASSUME NEW d \in Events \ {e} PROVE Naming(d)' /\ Watching(d)' /\ Aiming(d)'
    <3>1. pc[d] \in Attaching => mapKey(d) \in DOMAIN networks' \ Stale'
      BY <1>2, <2>7 DEF LInv, Links, Naming, tableVars
    <3>2. pc[d] \in Attaching => current(d) # c /\ current(d) \in Containers
      BY <2>3, AttachedElsewhere
    <3>3. pc[d] \in {"attach", "after", "list"} => Undisturbed(current(d))
      BY <2>5, <3>2 DEF Undisturbed, Attaching
    <3>4. pc[d] \in {"mode", "tc"} => Lessens(current(d))
      <4> SUFFICES ASSUME pc[d] \in {"mode", "tc"} PROVE Lessens(current(d))
        OBVIOUS
      <4>1. current(d) \in Containers
        BY DEF LInv, Links, Aiming
      <4> QED
        BY <2>5, <4>1 DEF Lessens
    <3>5. pc[d] \in Attaching /\ Attached(d) =>
              frame[d].name \in DOMAIN docker' /\ current(d) \in docker'[frame[d].name]
      BY <2>5, <3>2 DEF Attached
    <3>6. pc[d] \in {"after", "list"} => pc[d] \in Attaching
      BY DEF Attaching
    <3> QED
      BY <1>1, <2>7, <3>1, <3>3, <3>4, <3>5, <3>6, NamingKept, WatchingKept, AimingKept
  <2>12. Naming(e)' /\ Watching(e)' /\ Aiming(e)'
    BY <2>6, NothingSaid DEF Attaching, Affecting
  <2> QED
    BY <2>9, <2>10, <2>11, <2>12 DEF Links
<1> QED
  BY <1>4, <1>5 DEF Detach

LEMMA UnlistLinks ==
    ASSUME LInv, NEW e \in Events, Worker(e), Unlist(e)
    PROVE  Links'
<1>1. TInv /\ Only(e) /\ SameTable /\ main = "join" /\ main' = "join"
  BY WorkerOnly, UnlistQuiet DEF LInv, Quiet
<1>2. pc[e] = "unlist" /\ UNCHANGED <<networks, docker, running, interfaces>>
  BY DEF Unlist, dockerVars
<1>3. pc'[e] \in {"detach", "do", "delete"}
  <2>1. \A label : Goto(e, label) => pc'[e] = label
    BY <1>1, LabelOf
  <2> QED
    BY <2>1 DEF Unlist, NextContainer, Loop, Return
<1>4. Stale' = Stale /\ OldObjects
  BY <1>1, <1>2, <1>3, StaleStays, SameIsOld
<1>5. PICK key, c : key = mapKey(e) /\ c = current(e)
  OBVIOUS
<1>6. key \in DOMAIN networks /\ networks[key] = frame[e].object
  BY <1>1, <1>2, <1>5 DEF TInv, Calling
<1>7. PICK n : n = networks[key]
  OBVIOUS
<1>8. n \in DOMAIN objects /\ DOMAIN objects[n] = DOMAIN NewNetwork(0)
  BY <1>1, <1>6, <1>7, LenProperties DEF TInv, Shapes
<1>9. objects' = [objects EXCEPT ![n].connected = Without(@, c)]
  BY <1>5, <1>6, <1>7 DEF Unlist
<1>10. /\ objects'[n].connected = Without(objects[n].connected, c)
       /\ \A m \in DOMAIN objects : m # n => objects'[m] = objects[m]
  BY <1>8, <1>9 DEF NewNetwork
<1>11. \A k \in DOMAIN networks : networks[k] \in DOMAIN objects /\ (k # key => networks[k] # n)
  BY <1>1, <1>6, <1>7, LenProperties DEF LInv, Links, Distinct, TInv, Shapes
<1>12. /\ connected(key)' = Without(connected(key), c)
       /\ \A k \in DOMAIN networks : k # key => connected(k)' = connected(k)
  BY <1>2, <1>6, <1>7, <1>10, <1>11 DEF connected
<1>13. \A k \in DOMAIN networks : name_of(k)' = name_of(k)
  BY <1>1, <1>2 DEF SameTable, SameObjects, TInv, Shapes, name_of
<1>14. Distinct'
  <2>1. Len(objects') = Len(objects) /\ 1 .. Len(objects) = DOMAIN objects
    BY <1>1, LenProperties DEF SameTable, SameObjects, TInv, Shapes
  <2>2. ASSUME NEW m \in 1 .. Len(objects), \A k \in DOMAIN networks : networks[k] # m
        PROVE  DOMAIN objects'[m].connected = {}
    <3>1. m # n /\ DOMAIN objects[m].connected = {}
      BY <1>6, <1>7, <2>2 DEF LInv, Links, Distinct
    <3> QED
      BY <1>10, <2>1, <3>1
  <2> QED
    BY <1>2, <2>1, <2>2 DEF LInv, Links, Distinct
<1>15. Listing'
  <2> SUFFICES ASSUME NEW k \in DOMAIN networks, NEW d \in DOMAIN connected(k)'
               PROVE  d \in k \cap Containers /\ Listed(k, d)'
    BY <1>2 DEF Listing
  <2>1. /\ d \in DOMAIN connected(k) /\ connected(k)'[d] = connected(k)[d]
        /\ k # key \/ d # c
    BY <1>12 DEF Without, Restrict
  <2>2. d \in k \cap Containers /\ Listed(k, d)
    BY <1>1, <2>1 DEF LInv, Links, Listing
  <2>3. k \notin Stale'
    BY <1>4, <2>2 DEF Listed
  <2>4. Linked(k, d) => Linked(k, d)'
    BY <1>2, <1>13, <2>1 DEF Linked
  <2>5. Leaving(k, d) => Leaving(k, d)'
    <3> SUFFICES ASSUME NEW b \in Events, pc[b] = "unlist", mapKey(b) = k, current(b) = d
                 PROVE  Leaving(k, d)'
      BY DEF Leaving
    <3>1. b # e
      BY <1>5, <2>1
    <3>2. pc'[b] = "unlist" /\ mapKey(b)' = k /\ current(b)' = d
      BY <1>1, <3>1, OthersStay
    <3> QED
      BY <3>2 DEF Leaving
  <2> QED
    BY <1>2, <2>1, <2>2, <2>3, <2>4, <2>5, ListedKept
<1>16. ASSUME NEW d \in Events \ {e} PROVE Naming(d)' /\ Watching(d)' /\ Aiming(d)'
  <2>1. pc[d] \in Attaching => mapKey(d) \in DOMAIN networks' \ Stale'
    BY <1>2, <1>4 DEF LInv, Links, Naming
  <2> QED
    BY <1>2, <1>4, <2>1, OthersKept
<1>17. Naming(e)' /\ Watching(e)' /\ Aiming(e)'
  BY <1>3, NothingSaid DEF Attaching, Affecting
<1> QED
  BY <1>14, <1>15, <1>16, <1>17 DEF Links

\* A network is removed when nothing is attached to it, and then lists nothing.
LEMMA DeleteLinks ==
    ASSUME Orderly, LInv, NEW e \in Events, Worker(e), DeleteNetwork(e)
    PROVE  Links'
<1>1. TInv /\ Only(e) /\ main = "join" /\ main' = "join"
  BY WorkerOnly DEF LInv
<1>2. pc[e] = "delete" /\ UNCHANGED tableVars
  BY DEF DeleteNetwork
<1>3. CASE Return(e) /\ UNCHANGED dockerVars
  <2>1. pc'[e] = "do"
    BY <1>1, <1>3, LabelOf DEF Return
  <2> QED
    BY <1>2, <1>3, <2>1, UnsaidKeeps DEF Attaching, Affecting, dockerVars
<1>4. CASE /\ CanRemove(network(e).name) /\ network_rm(network(e).name)
           /\ Goto(e, "pop") /\ UNCHANGED frame
  <2>1. PICK key, name : key = mapKey(e) /\ name = network(e).name
    OBVIOUS
  <2>2. key \in DOMAIN networks /\ networks[key] = frame[e].object
    BY <1>1, <1>2, <2>1 DEF TInv, Calling
  <2>3. name = name_of(key)
    BY <2>1, <2>2 DEF network, name_of
  <2>4. pc'[e] = "pop" /\ mapKey(e)' = key
    BY <1>1, <1>4, <2>1, LabelOf DEF mapKey, containers
  <2>5. Stale' = Stale \cup {key}
    <3>1. \A d \in Events : mapKey(d)' = mapKey(d)
      BY <1>4 DEF mapKey, containers
    <3>2. {d \in Events : pc'[d] = "pop"} = {d \in Events : pc[d] = "pop"} \cup {e}
      BY <1>1, <2>4, OthersStay
    <3> QED
      BY <2>1, <3>1, <3>2 DEF Stale
  <2>6. /\ docker[name] = {} /\ DOMAIN docker' = DOMAIN docker \ {name}
        /\ \A n \in DOMAIN docker' : docker'[n] = docker[n]
        /\ UNCHANGED <<running, interfaces>>
    BY <1>4, <2>1 DEF CanRemove, network_rm, Without, Restrict
  <2>7. ASSUME NEW d \in DOMAIN connected(key) PROVE FALSE
    <3>1. Listed(key, d)
      BY <1>1, <2>2 DEF LInv, Links, Listing
    <3>2. ~Linked(key, d)
      BY <2>3, <2>6 DEF Linked
    <3>3. PICK b \in Events : pc[b] = "unlist" /\ mapKey(b) = key
      BY <3>1, <3>2 DEF Listed, Leaving
    <3>4. b # e /\ pc[b] \in Cutting /\ pc[e] \in Cutting
      BY <1>2, <3>3 DEF Cutting
    <3> QED
      BY <1>1, <2>1, <3>3, <3>4, Apart DEF Orderly
  <2>8. \A k \in DOMAIN networks : name_of(k)' = name_of(k) /\ connected(k)' = connected(k)
    BY <1>2 DEF name_of, connected, tableVars
  <2>9. OldObjects
    <3>1. Len(objects) \in Nat /\ UNCHANGED <<networks, objects>>
      BY <1>1, <1>2, LenProperties DEF TInv, Shapes, tableVars
    <3> QED
      BY <3>1 DEF OldObjects
  <2>10. Distinct'
    <3>1. IsFiniteSet(DOMAIN docker')
      BY <2>6, FS_Subset DEF LInv, Links, Distinct
    <3> QED
      BY <1>2, <2>6, <3>1 DEF LInv, Links, Distinct, tableVars
  <2>11. Listing'
    <3> SUFFICES ASSUME NEW k \in DOMAIN networks, NEW d \in DOMAIN connected(k)
                 PROVE  d \in k \cap Containers /\ Listed(k, d)'
      BY <1>2, <2>8 DEF Listing, tableVars
    <3>1. d \in k \cap Containers /\ Listed(k, d)
      BY <1>1 DEF LInv, Links, Listing
    <3>2. k \notin Stale' /\ connected(k)'[d] = connected(k)[d]
      BY <2>5, <2>7, <2>8, <3>1 DEF Listed
    <3>3. Linked(k, d) => Linked(k, d)'
      <4> SUFFICES ASSUME Linked(k, d) PROVE Linked(k, d)'
        OBVIOUS
      <4>1. name_of(k) \in DOMAIN docker' /\ docker'[name_of(k)] = docker[name_of(k)]
        BY <2>6 DEF Linked
      <4> QED
        BY <2>6, <2>8, <4>1 DEF Linked
    <3>4. Leaving(k, d) => Leaving(k, d)'
      BY <1>1, <1>2, LeavingStays
    <3> QED
      BY <2>6, <3>1, <3>2, <3>3, <3>4, ListedKept
  <2>12. ASSUME NEW d \in Events \ {e} PROVE Naming(d)' /\ Watching(d)' /\ Aiming(d)'
    <3>1. Undisturbed(current(d)) /\ Lessens(current(d))
      BY <2>6 DEF Undisturbed, Lessens
    <3>2. pc[d] \in Attaching => mapKey(d) # key
      <4> SUFFICES ASSUME pc[d] \in Attaching PROVE mapKey(d) # key
        OBVIOUS
      <4>1. pc[d] \in Joining
        BY DEF Attaching, Joining
      <4>2. pc[e] \in Cutting
        BY <1>2 DEF Cutting
      <4>3. mapKey(d) \cap key = {}
        BY <1>1, <2>1, <4>1, <4>2, JoinsApart
      <4>4. current(d) \in mapKey(d)
        BY CurrentInKey
      <4> QED
        BY <4>3, <4>4
    <3>3. pc[d] \in Attaching => mapKey(d) \in DOMAIN networks' \ Stale'
      BY <1>2, <2>5, <3>2 DEF LInv, Links, Naming, tableVars
    <3>4. Attached(d) => frame[d].name \in DOMAIN docker' /\ current(d) \in docker'[frame[d].name]
      BY <2>6 DEF Attached
    <3> QED
      BY <1>1, <2>9, <3>1, <3>3, <3>4, NamingKept, WatchingKept, AimingKept
  <2>13. Naming(e)' /\ Watching(e)' /\ Aiming(e)'
    BY <2>4, NothingSaid DEF Attaching, Affecting
  <2> QED
    BY <2>10, <2>11, <2>12, <2>13 DEF Links
<1> QED
  BY <1>3, <1>4 DEF DeleteNetwork

LEMMA PopLinks ==
    ASSUME LInv, NEW e \in Events, Worker(e), PopNetwork(e)
    PROVE  Links'
<1>1. TInv /\ Only(e) /\ main = "join" /\ main' = "join"
  BY WorkerOnly DEF LInv
<1>2. PICK key : key = mapKey(e)
  OBVIOUS
<1>3. /\ pc[e] = "pop" /\ Return(e) /\ UNCHANGED <<objects, docker, running, interfaces>>
      /\ networks' = Without(networks, key)
  BY <1>2 DEF PopNetwork, dockerVars
<1>4. /\ DOMAIN networks' = DOMAIN networks \ {key}
      /\ \A k \in DOMAIN networks' : networks'[k] = networks[k]
  BY <1>3 DEF Without, Restrict
<1>5. pc'[e] = "do"
  BY <1>1, <1>3, LabelOf DEF Return
<1>6. Stale = Stale' \cup {key}
  <2>1. {d \in Events : pc'[d] = "pop"} = {d \in Events : pc[d] = "pop"} \ {e}
    BY <1>1, <1>5, OthersStay
  <2>2. \A d \in Events \ {e} : mapKey(d)' = mapKey(d)
    BY <1>1, OthersStay
  <2> QED
    BY <1>2, <1>3, <2>1, <2>2 DEF Stale
<1>7. \A k \in DOMAIN networks' : name_of(k)' = name_of(k) /\ connected(k)' = connected(k)
  BY <1>3, <1>4 DEF name_of, connected
<1>8. OldObjects
  <2>1. Len(objects) \in Nat
    BY <1>1, LenProperties DEF TInv, Shapes
  <2> QED
    BY <1>3, <1>4, <2>1 DEF OldObjects
<1>9. key \in DOMAIN networks => DOMAIN connected(key) = {}
  BY <1>1, <1>6 DEF LInv, Links, Listing, Listed
<1>10. Distinct'
  <2>1. ASSUME NEW i \in 1 .. Len(objects), \A k \in DOMAIN networks' : networks'[k] # i
        PROVE  DOMAIN objects[i].connected = {}
    <3>1. CASE key \in DOMAIN networks /\ networks[key] = i
      BY <1>9, <3>1 DEF connected
    <3>2. CASE ~(key \in DOMAIN networks /\ networks[key] = i)
      <4>1. \A k \in DOMAIN networks : networks[k] # i
        BY <1>4, <2>1, <3>2
      <4> QED
        BY <4>1 DEF LInv, Links, Distinct
    <3> QED
      BY <3>1, <3>2
  <2> QED
    BY <1>3, <1>4, <2>1 DEF LInv, Links, Distinct
<1>11. Listing'
  <2> SUFFICES ASSUME NEW k \in DOMAIN networks', NEW d \in DOMAIN connected(k)'
               PROVE  d \in k \cap Containers /\ Listed(k, d)'
    BY DEF Listing
  <2>1. k \in DOMAIN networks /\ d \in DOMAIN connected(k)
    BY <1>4, <1>7
  <2>2. d \in k \cap Containers /\ Listed(k, d)
    BY <1>1, <2>1 DEF LInv, Links, Listing
  <2>3. k \notin Stale' /\ connected(k)'[d] = connected(k)[d]
    BY <1>6, <1>7, <2>2 DEF Listed
  <2>4. Linked(k, d) => Linked(k, d)'
    BY <1>3, <1>7 DEF Linked
  <2>5. Leaving(k, d) => Leaving(k, d)'
    BY <1>1, <1>3, LeavingStays
  <2> QED
    BY <1>3, <2>2, <2>3, <2>4, <2>5, ListedKept
<1>12. ASSUME NEW d \in Events \ {e} PROVE Naming(d)' /\ Watching(d)' /\ Aiming(d)'
  <2>1. pc[d] \in Attaching => mapKey(d) \in DOMAIN networks' \ Stale'
    BY <1>4, <1>6 DEF LInv, Links, Naming
  <2> QED
    BY <1>3, <1>8, <2>1, OthersKept
<1>13. Naming(e)' /\ Watching(e)' /\ Aiming(e)'
  BY <1>5, NothingSaid DEF Attaching, Affecting
<1> QED
  BY <1>10, <1>11, <1>12, <1>13 DEF Links

\* The container a thread starts or stops, and what that changes.
LEMMA ContainerFacts ==
    ASSUME LInv, NEW e \in Events, CallContainers(e), ~UNCHANGED dockerVars
    PROVE  \E c \in Containers :
               /\ c = current(e) /\ docker' = docker
               /\ interfaces' = [d \in Containers |-> interfaces'[d]]
               /\ \A d \in Containers : d # c => interfaces'[d] = interfaces[d]
               /\ IsFiniteSet(DOMAIN interfaces'[c])
               /\ \/ running' = running \ {c} /\ interfaces'[c] = Empty
                  \/ /\ running' = running \cup {c} /\ c \in BootedBy(e)
                     /\ c \notin running \/ c \in RestartedBy(e)
<1>1. PICK action \in Do[e] : /\ action.name = frame[e].command
                              /\ frame[e].left \in Seq(ToSet(action.container))
                              /\ frame[e].left # <<>>
  BY DEF CallContainers, LInv, Working
<1>2. PICK c : c = current(e)
  OBVIOUS
<1>3. frame[e].command \in {"startContainer", "restartContainer", "stopContainer"}
  BY DEF CallContainers
<1>4. c \in ToSet(action.container) /\ c \in Containers
  BY <1>1, <1>2, <1>3, RestOf, OwnElements, EventsAssumption DEF current
<1>5. interfaces = [d \in Containers |-> interfaces[d]] /\ IsFiniteSet(DOMAIN docker)
  BY DEF LInv, Links, Distinct
<1>6. CASE frame[e].command = "stopContainer"
  <2>1. stop(c)
    BY <1>2, <1>6 DEF CallContainers
  <2>2. /\ docker' = docker /\ running' = running \ {c}
        /\ interfaces' = [interfaces EXCEPT ![c] = Empty]
    BY <2>1 DEF stop
  <2>3. /\ interfaces' = [d \in Containers |-> interfaces'[d]]
        /\ \A d \in Containers : d # c => interfaces'[d] = interfaces[d]
        /\ interfaces'[c] = Empty
    BY <1>4, <1>5, <2>2
  <2>4. IsFiniteSet(DOMAIN interfaces'[c])
    BY <2>3, FS_EmptySet DEF Empty
  <2> QED
    BY <1>2, <1>4, <2>2, <2>3, <2>4
<1>7. CASE frame[e].command # "stopContainer"
  <2> DEFINE attached == {n \in DOMAIN docker : c \in docker[n]}
             size     == Cardinality(attached)
  <2>1. boot(c)
    BY <1>2, <1>7 DEF CallContainers, start, restart
  <2>2. PICK f \in Bijection(0 .. size - 1, attached) :
            interfaces' = [interfaces EXCEPT ![c] = f]
    BY <2>1 DEF boot
  <2>3. docker' = docker /\ running' = running \cup {c}
    BY <2>1 DEF boot
  <2>4. size \in Nat
    <3>1. attached \subseteq DOMAIN docker
      OBVIOUS
    <3> HIDE DEF attached
    <3> QED
      BY <1>5, <3>1, FS_Subset, FS_CardinalityType
  <2>5. DOMAIN f = 0 .. size - 1
    <3> HIDE DEF attached, size
    <3> QED
      BY DEF Bijection, Injection, Surjection
  <2>6. IsFiniteSet(DOMAIN f)
    <3> HIDE DEF size
    <3> QED
      BY <2>4, <2>5, FS_Interval
  <2>7. /\ interfaces' = [d \in Containers |-> interfaces'[d]]
        /\ \A d \in Containers : d # c => interfaces'[d] = interfaces[d]
        /\ interfaces'[c] = f
    <3> HIDE DEF attached, size
    <3> QED
      BY <1>4, <1>5, <2>2
  <2>8. c \in BootedBy(e)
    <3>1. action \in {a \in Do[e] : a.name \in {"startContainer", "restartContainer"}}
      BY <1>1, <1>3, <1>7
    <3> QED
      BY <1>4, <3>1 DEF BootedBy, OfActions
  <2>9. c \notin running \/ c \in RestartedBy(e)
    <3>1. CASE frame[e].command = "restartContainer"
      <4>1. action \in {a \in Do[e] : a.name \in {"restartContainer"}}
        BY <1>1, <3>1
      <4> QED
        BY <1>4, <4>1 DEF RestartedBy, OfActions
    <3>2. CASE frame[e].command = "startContainer"
      BY <1>2, <3>2 DEF CallContainers, start
    <3> QED
      BY <1>3, <1>7, <3>1, <3>2
  <2> QED
    BY <1>2, <1>4, <2>3, <2>6, <2>7, <2>8, <2>9
<1> QED
  BY <1>6, <1>7

\* Nobody starts a container that is listed, watched or aimed at.
LEMMA ContainersLinks ==
    ASSUME Orderly, LInv, NEW e \in Events, Worker(e), CallContainers(e)
    PROVE  Links'
<1>1. TInv /\ Only(e) /\ SameTable /\ main = "join" /\ main' = "join"
  BY WorkerOnly, ContainersQuiet DEF LInv, Quiet
<1>2. pc[e] = "container" /\ UNCHANGED tableVars
  BY DEF CallContainers
<1>3. pc'[e] \in {"container", "do"}
  <2>1. \A label : Goto(e, label) => pc'[e] = label
    BY <1>1, LabelOf
  <2> QED
    BY <2>1 DEF CallContainers, Loop, Return
<1>4. CASE UNCHANGED dockerVars
  BY <1>2, <1>3, <1>4, UnsaidKeeps DEF Attaching, Affecting, dockerVars
<1>5. CASE ~UNCHANGED dockerVars
  <2>1. PICK c \in Containers :
               /\ c = current(e) /\ docker' = docker
               /\ interfaces' = [d \in Containers |-> interfaces'[d]]
               /\ \A d \in Containers : d # c => interfaces'[d] = interfaces[d]
               /\ IsFiniteSet(DOMAIN interfaces'[c])
               /\ \/ running' = running \ {c} /\ interfaces'[c] = Empty
                  \/ /\ running' = running \cup {c} /\ c \in BootedBy(e)
                     /\ c \notin running \/ c \in RestartedBy(e)
    BY <1>5, ContainerFacts
  <2>2. Stale' = Stale /\ OldObjects
    BY <1>1, <1>2, <1>3, StaleStays, SameIsOld
  <2>3. \A l \in DOMAIN networks : name_of(l)' = name_of(l) /\ connected(l)' = connected(l)
    BY <1>2 DEF name_of, connected, tableVars
  <2>4. ASSUME NEW d \in Containers, d \notin BootedBy(e) \/ AllSettled(d)
        PROVE  Undisturbed(d) /\ Lessens(d)
    <3>1. d = c => running' = running \ {c} /\ interfaces'[c] = Empty
      BY <1>2, <2>1, <2>4 DEF AllSettled, Settled, StartsItself
    <3>2. CASE d = c
      BY <3>1, <3>2 DEF Undisturbed, Lessens, Empty
    <3>3. CASE d # c
      <4>1. interfaces'[d] = interfaces[d]
        BY <2>1, <3>3
      <4>2. d \in running' <=> d \in running
        BY <2>1, <3>3
      <4> QED
        BY <4>1, <4>2 DEF Undisturbed, Lessens
    <3> QED
      BY <3>2, <3>3
  <2>5. Distinct'
    <3>1. \A d \in Containers : IsFiniteSet(DOMAIN interfaces'[d])
      BY <2>1 DEF LInv, Links, Distinct
    <3>2. \A d \in Containers \ running' : DOMAIN interfaces'[d] = {}
      BY <2>1 DEF LInv, Links, Distinct, Empty
    <3> QED
      BY <1>2, <2>1, <3>1, <3>2 DEF LInv, Links, Distinct, tableVars
  <2>6. Listing'
    <3> SUFFICES ASSUME NEW k \in DOMAIN networks, NEW d \in DOMAIN connected(k)
                 PROVE  d \in k \cap Containers /\ Listed(k, d)'
      BY <1>2, <2>3 DEF Listing, tableVars
    <3>1. d \in k \cap Containers /\ Listed(k, d)
      BY <1>1 DEF LInv, Links, Listing
    <3>2. Undisturbed(d) /\ Lessens(d)
      BY <2>4, <3>1 DEF Listed
    <3>3. k \notin Stale' /\ connected(k)'[d] = connected(k)[d]
      BY <2>2, <2>3, <3>1 DEF Listed
    <3>4. Linked(k, d) => Linked(k, d)'
      BY <2>1, <2>3, <3>2 DEF Linked, Undisturbed
    <3>5. Leaving(k, d) => Leaving(k, d)'
      BY <1>1, <1>2, LeavingStays
    <3>6. \A i : i \notin DOMAIN interfaces[d] => i \notin DOMAIN interfaces'[d]
      BY <3>2 DEF Lessens
    <3> QED
      BY <3>1, <3>3, <3>4, <3>5, <3>6, ListedKept
  <2>7. ASSUME NEW d \in Events \ {e} PROVE Naming(d)' /\ Watching(d)' /\ Aiming(d)'
    <3>1. pc[d] \in Attaching => mapKey(d) \in DOMAIN networks' \ Stale'
      BY <1>2, <2>2 DEF LInv, Links, Naming, tableVars
    <3>2. pc[d] \in {"attach", "after", "list"} => Undisturbed(current(d))
      <4> SUFFICES ASSUME pc[d] \in {"attach", "after", "list"} PROVE Undisturbed(current(d))
        OBVIOUS
      <4>1. current(d) \in Containers /\ current(d) \in JoinedBy(d) /\ Active(d) /\ Active(e)
        BY <1>2, CurrentInKey DEF Attaching, Active
      <4>2. current(d) \notin BootedBy(e)
        BY <1>1, <4>1, NobodyStarts DEF TInv
      <4> QED
        BY <2>4, <4>1, <4>2
    <3>3. pc[d] \in {"mode", "tc"} => Lessens(current(d))
      <4> SUFFICES ASSUME pc[d] \in {"mode", "tc"} PROVE Lessens(current(d))
        OBVIOUS
      <4>1. current(d) \in Containers /\ AllSettled(current(d))
        BY DEF LInv, Links, Aiming
      <4> QED
        BY <2>4, <4>1
    <3>4. Attached(d) => frame[d].name \in DOMAIN docker' /\ current(d) \in docker'[frame[d].name]
      BY <2>1 DEF Attached
    <3> QED
      BY <1>1, <2>2, <3>1, <3>2, <3>3, <3>4, NamingKept, WatchingKept, AimingKept
  <2>8. Naming(e)' /\ Watching(e)' /\ Aiming(e)'
    BY <1>3, NothingSaid DEF Attaching, Affecting
  <2> QED
    BY <2>5, <2>6, <2>7, <2>8 DEF Links
<1> QED
  BY <1>4, <1>5

-----------------------------------------------------------------------------
LEMMA WorkerLinks ==
    ASSUME Orderly, LInv, NEW e \in Events, Worker(e)
    PROVE  Links'
  BY LookingKeeps, NetemLinks, KeysLinks, ChooseLinks, ModeLinks, EmulateLinks, BeforeLinks,
     AttachLinks, AfterLinks, ListLinks, DetachLinks, UnlistLinks, DeleteLinks, PopLinks,
     ContainersLinks, CreateLinks, PutLinks
  DEF Worker, NetworkStep

\* When all threads have ended the containers are stopped, and nothing else is said.
LEMMA MainLinks ==
    ASSUME LInv, TInv', Main
    PROVE  LInv'
<1>1. /\ \A e \in Events : Ended(e)
      /\ UNCHANGED <<tableVars, pc, frame, todo>>
      /\ main' # "join" /\ running' \subseteq running
  BY DEF Main, TearDown, DeleteNetworks, compose_down, LInv, TInv, OInv
<1>2. \A e \in Events : Naming(e)' /\ Watching(e)' /\ Aiming(e)'
  BY <1>1, NothingSaid DEF Ended, Attaching, Affecting
<1>3. \A e \in Events : Working(e)'
  BY <1>1, WorkingElsewhere DEF Ended, Resting, Attaching, Affecting
<1>4. StaysOff'
  <2>1. \A s \in Events : \A c : Pending(s, c)' = Pending(s, c)
    BY <1>1 DEF Pending
  <2> QED
    BY <1>1, <2>1 DEF LInv, StaysOff, KeepsOff, StoppedBy, BootedBy, OfActions, First, Before
<1>5. Distinct'
  <2>1. /\ \A c \in Containers : DOMAIN interfaces'[c] = {} \/ interfaces'[c] = interfaces[c]
        /\ interfaces' = [c \in Containers |-> interfaces'[c]]
        /\ \A c \in Containers \ running' : DOMAIN interfaces'[c] = {}
    BY DEF Main, TearDown, DeleteNetworks, compose_down, LInv, Links, Distinct, Empty
  <2>2. DOMAIN docker' \subseteq DOMAIN docker
    BY DEF Main, TearDown, DeleteNetworks, compose_down, deleteAllNetworks, Restrict
  <2>3. \A c \in Containers : IsFiniteSet(DOMAIN interfaces'[c])
    BY <2>1, FS_EmptySet DEF LInv, Links, Distinct
  <2>4. IsFiniteSet(DOMAIN docker')
    BY <2>2, FS_Subset DEF LInv, Links, Distinct
  <2> QED
    BY <1>1, <2>1, <2>3, <2>4 DEF LInv, Links, Distinct, tableVars
<1>6. Listing'
  BY <1>1 DEF LInv, Links, Listing, connected, tableVars
<1> QED
  BY <1>2, <1>3, <1>4, <1>5, <1>6 DEF LInv, Links

LEMMA LinksInit == Init => LInv
<1> SUFFICES ASSUME Init PROVE LInv
  OBVIOUS
<1>1. /\ networks = Empty /\ objects = <<>> /\ docker = Empty /\ running = Containers
      /\ interfaces = [c \in Containers |-> Empty]
      /\ pc = [e \in Events |-> "dependOn"] /\ todo = Do
  BY DEF Init, NetworkActionsInit, DockerInit
<1>2. Distinct
  <2>1. DOMAIN Empty = {} /\ 1 .. Len(objects) = {}
    BY <1>1 DEF Empty
  <2> QED
    BY <1>1, <2>1, FS_EmptySet DEF Distinct
<1>3. Listing
  BY <1>1 DEF Listing, Empty
<1>4. \A e \in Events : Naming(e) /\ Watching(e) /\ Aiming(e) /\ Working(e)
  BY <1>1 DEF Naming, Watching, Aiming, Working, Attaching, Affecting
<1>5. StaysOff
  BY <1>1 DEF StaysOff
<1> QED
  BY <1>2, <1>3, <1>4, <1>5, TableInit DEF LInv, Links

LEMMA LinksNext == Orderly /\ LInv /\ [Next]_vars => LInv'
<1> SUFFICES ASSUME Orderly, LInv, [Next]_vars PROVE LInv'
  OBVIOUS
<1>1. TInv'
  BY TableNext DEF Orderly, LInv
<1>2. ASSUME NEW e \in Events, Worker(e) PROVE LInv'
  BY <1>1, <1>2, WorkerLinks, WorkingNext, StaysOffNext DEF LInv
<1>3. CASE UNCHANGED vars
  <2>1. /\ UNCHANGED <<docker, running, interfaces, networks, objects, pc, frame, todo, main>>
    BY <1>3 DEF vars, simulatorVars, dockerVars, tableVars, engineVars
  <2>2. /\ \A e : mapKey(e)' = mapKey(e) /\ current(e)' = current(e) /\ network(e)' = network(e)
        /\ \A key : name_of(key)' = name_of(key) /\ connected(key)' = connected(key)
    BY <2>1 DEF mapKey, containers, current, network, name_of, connected
  <2>3. Stale' = Stale
    BY <2>1, <2>2 DEF Stale
  <2>4. \A c : AllSettled(c)' = AllSettled(c)
    BY <2>1 DEF AllSettled, Settled, BootedBy, OfActions, StartsItself, RestartedBy, StoppedBy,
                First, Before
  <2>5. Links'
    <3>1. Distinct'
      BY <2>1 DEF LInv, Links, Distinct
    <3>2. \A key, c : Listed(key, c)' = Listed(key, c)
      BY <2>1, <2>2, <2>3, <2>4 DEF Listed, Linked, Leaving
    <3>3. Listing'
      BY <2>1, <2>2, <3>2 DEF LInv, Links, Listing
    <3>4. \A e \in Events : Naming(e)'
      BY <2>1, <2>2, <2>3 DEF LInv, Links, Naming
    <3>5. \A e \in Events : Watching(e)'
      BY <2>1, <2>2, <2>4 DEF LInv, Links, Watching, Attached, Found, new_interfaces, ls
    <3>6. \A e \in Events : Aiming(e)'
      BY <2>1, <2>2, <2>4 DEF LInv, Links, Aiming, OfActions
    <3> QED
      BY <3>1, <3>3, <3>4, <3>5, <3>6 DEF Links
  <2>6. \A e \in Events : Working(e)'
    BY <2>1, <2>2 DEF LInv, Working, OfActions
  <2>7. StaysOff'
    BY <2>1 DEF LInv, StaysOff, Pending, KeepsOff, StoppedBy, BootedBy, OfActions, First, Before
  <2> QED
    BY <1>1, <2>5, <2>6, <2>7 DEF LInv
<1> QED
  BY <1>1, <1>2, <1>3, MainLinks DEF Next

\* Where, moreover, no event joins a container that another joins, cuts or affects at
\* the same time, and none that is started later, what is listed of interfaces is true,
\* or of a container that is just being cut off (networkActions.py:126-163).
THEOREM LinksInvariance == Orderly => (Spec => []LInv)
<1> SUFFICES ASSUME Orderly PROVE Spec => []LInv
  OBVIOUS
<1>1. LInv /\ [Next]_vars => LInv'
  BY LinksNext
<1> QED
  BY <1>1, LinksInit, PTL DEF Spec

\* An effect that succeeds is then one on its own network (networkActions.py:228-236).
THEOREM EffectsAreTheirs == Orderly => (Spec => []EffectsHitTheirNetwork)
<1>1. LInv => EffectsHitTheirNetwork
  <2> SUFFICES ASSUME LInv, NEW e \in Events, pc[e] = "tc",
                      tc_succeeds(frame[e].command, current(e), frame[e].interface)
               PROVE  /\ frame[e].interface \in DOMAIN interfaces[current(e)]
                      /\ interfaces[current(e)][frame[e].interface] = network(e).name
    BY DEF EffectsHitTheirNetwork
  <2>1. /\ frame[e].interface \in Nat
        /\ frame[e].interface \in DOMAIN interfaces[current(e)] =>
               interfaces[current(e)][frame[e].interface] = network(e).name
    BY DEF LInv, Links, Aiming
  <2>2. frame[e].interface \in DOMAIN interfaces[current(e)]
    BY <2>1 DEF tc_succeeds, ls, lo
  <2> QED
    BY <2>1, <2>2
<1> QED
  BY <1>1, LinksInvariance, PTL

=============================================================================
