---------------------------- MODULE TimerActions ----------------------------
(***************************************************************************)
(* The timers of the docker network simulator,                             *)
(* src/docker-network-simulator/actions/timerActions.py: a table that all  *)
(* threads share.  What a timer shows is not modelled, only whether it is  *)
(* there.                                                                  *)
(***************************************************************************)
EXTENDS NetworkActions

VARIABLE currentTimers  \* the timers that have been started and not stopped

TimerActionsInit == currentTimers = {}

UntouchedByTimers == <<tableVars, dockerVars>>

timer(e, action) ==
    /\ Goto(e, action.name)
    /\ frame' = [frame EXCEPT ![e].left = action.timers, ![e].command = action.name]

startTimer(e) ==
    /\ pc[e] = "startTimer"
    /\ currentTimers' = currentTimers \cup {current(e)}
    /\ Loop(e, frame[e], "startTimer", Return(e))
    /\ UNCHANGED UntouchedByTimers

\* One timer printed: stopTimer removes it next, printTimer goes on.
Printed(e) ==
    IF frame[e].command = "stopTimer"
    THEN Goto(e, "popTimer") /\ UNCHANGED frame
    ELSE Loop(e, frame[e], "printTimer", Return(e))

\* printSingleTimer looks a timer up ...
LookUpTimer(e) ==
    /\ pc[e] \in {"printTimer", "stopTimer"}
    /\ \/ /\ current(e) \in currentTimers
          /\ Goto(e, "readTimer")
          /\ UNCHANGED frame
       \/ /\ current(e) \notin currentTimers
          /\ Printed(e)
    /\ UNCHANGED <<currentTimers, UntouchedByTimers>>

\* ... and reads it, if it is still there.
ReadTimer(e) ==
    /\ pc[e] = "readTimer"
    /\ \/ current(e) \in currentTimers /\ Printed(e)
       \/ current(e) \notin currentTimers /\ KeyError(e)
    /\ UNCHANGED <<currentTimers, UntouchedByTimers>>

PopTimer(e) ==
    /\ pc[e] = "popTimer"
    /\ currentTimers' = currentTimers \ {current(e)}
    /\ Loop(e, frame[e], "stopTimer", Return(e))
    /\ UNCHANGED UntouchedByTimers

TimerStep(e) == startTimer(e) \/ LookUpTimer(e) \/ ReadTimer(e) \/ PopTimer(e)

=============================================================================
