---------------------------- MODULE MCEventEngine ----------------------------
(***************************************************************************)
(* Configurations of the docker network simulator.                         *)
(***************************************************************************)
EXTENDS EventEngine

CONSTANTS node1, node2, node3, stopC, pairAB, onlyC, heal, shape, cutAB, cutC, last

Join(list, mode) == [name |-> "join", container |-> list, mode |-> mode]
Time(name, list) == [name |-> name, timers |-> list]
Act(name, list)  == [name |-> name, container |-> list]

Nothing == [e \in Events |-> {}]

NoCommands == [e \in Events |-> 0]

(***************************************************************************)
(* Two joins at once, of which one finds its container stopped and the     *)
(* other may fail to connect.  Then both are cut, while effects are put on *)
(* one of them, the stopped container comes back and a timer is stopped    *)
(* that another event prints.  After all that it is joined again, and an   *)
(* effect is put on a network that may be there or not.                    *)
(***************************************************************************)
OrderedDependOn ==
    (pairAB :> {stopC}) @@ (onlyC :> {stopC}) @@ (heal :> {onlyC, pairAB})
      @@ (shape :> {onlyC, pairAB}) @@ (cutAB :> {onlyC, pairAB})
      @@ (cutC :> {heal}) @@ (last :> {cutC, cutAB}) @@ Nothing

OrderedCommands == [e \in Events |-> IF e = last THEN 1 ELSE 0]

OrderedDo ==
    (stopC :> {Act("stopContainer", <<node3>>), Join(<<node1>>, "cluster")})
      @@ (onlyC  :> {Join(<<node3>>, "cluster"), Time("startTimer", <<"T1">>)})
      @@ (pairAB :> {Join(<<node1, node2>>, "ring")})
      @@ (heal   :> {Act("startContainer", <<node3>>), Time("stopTimer", <<"T1", "T2">>)})
      @@ (shape  :> {Act("delay", <<node1, node2>>), Time("printTimer", <<"T1">>)})
      @@ (cutAB  :> {Act("cut", <<node1, node2>>)})
      @@ (cutC   :> {Act("cut", <<node3>>), Act("restartContainer", <<node3>>)})
      @@ (last   :> {Join(<<node3>>, "cluster"), Act("loss", <<node1>>), Act("corrupt", <<node1>>)})

(***************************************************************************)
(* Events that meet at one network: two cut it while another joins it anew *)
(* or makes a network that gets its name.                                  *)
(***************************************************************************)
CollidingDependOn == (cutAB :> {onlyC}) @@ (cutC :> {onlyC}) @@ (last :> {onlyC}) @@ Nothing

CollidingDo ==
    (onlyC :> {Join(<<node1>>, "cluster"), Act("startContainer", <<node1>>)})
      @@ (cutAB :> {Act("cut", <<node1>>)})
      @@ (cutC  :> {Act("cut", <<node1>>)})
      @@ (last  :> {Join(<<node1>>, "cluster"), Join(<<node1, node2>>, "cluster")})

(***************************************************************************)
(* Two events that join the same containers, with nothing between them.    *)
(***************************************************************************)
TwinDo == [e \in Events |-> {Join(<<node1, node2>>, "cluster")}]

(***************************************************************************)
(* An event whose command may fail, and one that waits for it.             *)
(***************************************************************************)
ChainDependOn == (stopC :> {}) @@ (heal :> {stopC})

ChainCommands == [e \in Events |-> IF e = stopC THEN 1 ELSE 0]

ChainDo == (stopC :> {}) @@ (heal :> {Act("restartContainer", <<node1>>)})

\* Only the first of them keeps threads apart where the table and the interfaces it
\* lists need it.
ASSUME KeptApart ==
    /\ Do = OrderedDo => Orderly
    /\ Do \in {CollidingDo, TwinDo} => ~OneAtATime

=============================================================================
