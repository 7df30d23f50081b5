------------------------------ MODULE TaskLife ------------------------------
(***************************************************************************)
(* What the task registry of tasks.py promises its callers, whichever way  *)
(* it is deployed: a task is started once, it is cancelled only when       *)
(* somebody asked for it, and once it has ended it never runs again.       *)
(* TaskRegistry (Redis mode) and TaskMemory (single process) both          *)
(* implement this specification.                                           *)
(***************************************************************************)
CONSTANT Task                   \* task ids (uuid4 in the code)

VARIABLES life,                 \* where each task is in its life
          asked                 \* the tasks whose cancellation was asked for

vars == <<life, asked>>

LiveStates == {"running", "cancelling"}

TypeOK == /\ life \in [Task -> LiveStates \cup {"unborn", "ended"}]
          /\ asked \subseteq Task

Init == /\ life = [t \in Task |-> "unborn"]
        /\ asked = {}

Start(t) == /\ life[t] = "unborn"
            /\ life' = [life EXCEPT ![t] = "running"]
            /\ UNCHANGED asked

\* Only an id somebody was given can be named in a request to stop.
Ask(t) == /\ life[t] # "unborn"
          /\ asked' = asked \cup {t}
          /\ UNCHANGED life

Cancel(t) == /\ life[t] = "running"
             /\ t \in asked
             /\ life' = [life EXCEPT ![t] = "cancelling"]
             /\ UNCHANGED asked

\* A process that owns the task can do both at once.
Stop(t) == /\ life[t] = "running"
           /\ life' = [life EXCEPT ![t] = "cancelling"]
           /\ asked' = asked \cup {t}

\* One task ends by itself; a crash of its process ends several at once.
End(S) == /\ \A t \in S : life[t] \in LiveStates
          /\ life' = [t \in Task |-> IF t \in S THEN "ended" ELSE life[t]]
          /\ UNCHANGED asked

Next == \/ \E t \in Task : Start(t) \/ Ask(t) \/ Cancel(t) \/ Stop(t)
        \/ \E S \in SUBSET Task : End(S)

Spec == Init /\ [][Next]_vars
=============================================================================
