----------------------------- MODULE TaskMemory -----------------------------
(***************************************************************************)
(* backend/bodhion/tasks.py without Redis: one process, one event loop,    *)
(* and the dictionaries `tasks' and `item_tasks'.                          *)
(*                                                                         *)
(* What runs between two suspensions is one step.  The only suspension is  *)
(* `await task' in stop_task, so a stopper is idle or waits for a task.    *)
(* stop_item_tasks iterates over the list object item_tasks[id] itself,    *)
(* which create_task and cleanup_task change while it waits: a stopper     *)
(* keeps a position in the live list, not a copy of it.                    *)
(***************************************************************************)
EXTENDS Naturals, Sequences, SequencesExt

CONSTANTS Task, Item, NoItem, Stopper, NoTask

ASSUME ConstantsAssumption == NoItem \notin Item /\ NoTask \notin Task

VARIABLES
  coro,         \* unborn, running, cancelling, ended, failed (raised)
  item,         \* the item a task was created for
  clean,        \* cleanup_task of the task: no, due, done
  tasks,        \* keys of the dictionary `tasks'
  item_tasks,   \* item -> the list of its task ids; <<>>: no entry
  pc,           \* stopper: idle or waiting
  on,           \* stopper: the item it stops; NoItem: a single stop_task
  pos,          \* stopper: position of its iterator in the list
  cur,          \* stopper: the task it waits for, or waited for last
  attached,     \* stopper: is its list object still the one in item_tasks?
  answer,       \* stopper: what its last call answered
  listed,       \* history: the ids listed when its last call was made
  asked         \* history: the tasks whose cancellation was requested

taskVars == <<coro, item, clean>>
stopVars == <<pc, on, pos, cur, attached, answer, listed>>
memoryVars == <<taskVars, tasks, item_tasks, stopVars, asked>>

Key == Item \cup {NoItem}
Live(t) == coro[t] \in {"running", "cancelling"}
Members(l) == {l[j] : j \in DOMAIN l}

MemoryTypeOK ==
  /\ coro \in [Task -> {"unborn", "running", "cancelling", "ended", "failed"}]
  /\ item \in [Task -> Key]
  /\ clean \in [Task -> {"no", "due", "done"}]
  /\ tasks \subseteq Task
  /\ item_tasks \in [Key -> Seq(Task)]
  /\ pc \in [Stopper -> {"idle", "waiting"}]
  /\ on \in [Stopper -> Key]
  /\ pos \in [Stopper -> Nat]
  /\ cur \in [Stopper -> Task \cup {NoTask}]
  /\ attached \in [Stopper -> BOOLEAN]
  /\ answer \in [Stopper -> {"none", "stopped", "all", "notfound", "error"}]
  /\ listed \in [Stopper -> SUBSET Task]
  /\ asked \subseteq Task

MemoryInit ==
  /\ coro = [t \in Task |-> "unborn"]
  /\ item = [t \in Task |-> NoItem]
  /\ clean = [t \in Task |-> "no"]
  /\ tasks = {}
  /\ item_tasks = [k \in Key |-> <<>>]
  /\ pc = [s \in Stopper |-> "idle"]
  /\ on = [s \in Stopper |-> NoItem]
  /\ pos = [s \in Stopper |-> 0]
  /\ cur = [s \in Stopper |-> NoTask]
  /\ attached = [s \in Stopper |-> FALSE]
  /\ answer = [s \in Stopper |-> "none"]
  /\ listed = [s \in Stopper |-> {}]
  /\ asked = {}

-----------------------------------------------------------------------------
(* create_task never suspends without Redis.  A list that cleanup_task has *)
(* emptied is out of the dictionary; appending to <<>> makes a new one.    *)

create_task(t, k) ==
  /\ coro[t] = "unborn"
  /\ coro' = [coro EXCEPT ![t] = "running"]
  /\ item' = [item EXCEPT ![t] = k]
  /\ tasks' = tasks \cup {t}
  /\ item_tasks' = [item_tasks EXCEPT ![k] = Append(@, t)]
  /\ UNCHANGED <<clean, stopVars, asked>>

\* The coroutine returns or ends cancelled ("ended"), or raises ("failed").
TaskEnds(t, how) ==
  /\ Live(t)
  /\ coro' = [coro EXCEPT ![t] = how]
  /\ clean' = [clean EXCEPT ![t] = "due"]
  /\ UNCHANGED <<item, tasks, item_tasks, stopVars, asked>>

\* Which stoppers lose their list: it is popped when it becomes empty.
Detached(k) == {s \in Stopper : on[s] = k /\ k # NoItem}

\* The done callback only schedules cleanup_task; a stopper that awaits the
\* task is woken by the next callback, so it goes on before the cleanup runs.
cleanup_task(t) ==
  /\ clean[t] = "due"
  /\ \A s \in Stopper : ~(pc[s] = "waiting" /\ cur[s] = t)
  /\ clean' = [clean EXCEPT ![t] = "done"]
  /\ tasks' = tasks \ {t}
  /\ LET k == item[t]
         l == RemoveFirst(item_tasks[k], t)
     IN IF k = NoItem
        THEN UNCHANGED <<item_tasks, attached>>
        ELSE /\ item_tasks' = [item_tasks EXCEPT ![k] = l]
             /\ attached' = [s \in Stopper |->
                               attached[s] /\ ~(l = <<>> /\ s \in Detached(k))]
  /\ UNCHANGED <<coro, item, pc, on, pos, cur, answer, listed, asked>>

-----------------------------------------------------------------------------
(* Stopping.  stop_task pops the id, cancels the task and awaits it; an    *)
(* await of a task that is already over does not suspend, so the loop of   *)
(* stop_item_tasks runs through those to the next id that is not in        *)
(* `tasks' (answer: not found), is live (wait) or has failed (raise).      *)

Halts(t) == t \notin tasks \/ Live(t) \/ coro[t] = "failed"

\* The stopper answers and returns; the ids in gone were popped on the way.
Answer(s, a, gone) ==
  /\ answer' = [answer EXCEPT ![s] = a]
  /\ pc' = [pc EXCEPT ![s] = "idle"]
  /\ tasks' = tasks \ gone
  /\ UNCHANGED <<coro, asked>>

\* mutant: the task is awaited but not cancelled.
JustWait(s, t, gone) ==
  /\ tasks' = tasks \ (gone \cup {t})
  /\ pc' = [pc EXCEPT ![s] = "waiting"]
  /\ UNCHANGED <<answer, coro, asked>>

\* mutant: cancelling one task cancels the others of its item.
CancelItemAndWait(s, t, gone) ==
  /\ tasks' = tasks \ (gone \cup {t})
  /\ coro' = [u \in Task |-> IF coro[u] = "running" /\ item[u] = item[t]
                            THEN "cancelling" ELSE coro[u]]
  /\ asked' = asked \cup {t}
  /\ pc' = [pc EXCEPT ![s] = "waiting"]
  /\ UNCHANGED answer

\* It pops t too, requests its cancellation and waits for it.
CancelAndWait(s, t, gone) ==
  /\ tasks' = tasks \ (gone \cup {t})
  /\ coro' = [coro EXCEPT ![t] = "cancelling"]
  /\ asked' = asked \cup {t}
  /\ pc' = [pc EXCEPT ![s] = "waiting"]
  /\ UNCHANGED answer

\* What stop_task does for an id it is given or has come to.
StopOne(s, t, gone) ==
  IF t \notin tasks THEN Answer(s, "notfound", gone)
  ELSE IF coro[t] = "failed" THEN Answer(s, "error", gone \cup {t})
  ELSE CancelAndWait(s, t, gone)

\* The loop of stop_item_tasks over list l, from position n on.
Iterate(s, l, n) ==
  LET stops == {j \in n..Len(l) : Halts(l[j])}
      first == CHOOSE j \in stops : \A h \in stops : j <= h
      passed(j) == {l[h] : h \in n..(j - 1)}
  IN IF stops = {}
     THEN /\ Answer(s, "all", passed(Len(l) + 1))
          /\ UNCHANGED <<pos, cur>>
     ELSE /\ StopOne(s, l[first], passed(first))
          /\ pos' = [pos EXCEPT ![s] = first]
          /\ cur' = [cur EXCEPT ![s] = l[first]]

stop_item_tasks(s, k) ==
  /\ pc[s] = "idle"
  /\ item_tasks[k] # <<>>       \* else: "No tasks found for item"
  /\ on' = [on EXCEPT ![s] = k]
  /\ attached' = [attached EXCEPT ![s] = TRUE]
  /\ listed' = [listed EXCEPT ![s] = Members(item_tasks[k])]
  /\ Iterate(s, item_tasks[k], 1)
  /\ UNCHANGED <<item, clean, item_tasks>>

\* stop_task on its own, for an id a client holds.
stop_task(s, t) ==
  /\ pc[s] = "idle"
  /\ coro[t] # "unborn"
  /\ on' = [on EXCEPT ![s] = NoItem]
  /\ attached' = [attached EXCEPT ![s] = FALSE]
  /\ cur' = [cur EXCEPT ![s] = t]
  /\ listed' = [listed EXCEPT ![s] = {t}]
  /\ IF t \in tasks /\ coro[t] = "ended" THEN Answer(s, "stopped", {t})
     ELSE StopOne(s, t, {})
  /\ UNCHANGED <<item, clean, item_tasks, pos>>

\* mutant: the wait for a task times out.
ResumeEarly(s) ==
  /\ pc[s] = "waiting"
  /\ Answer(s, "stopped", {})
  /\ UNCHANGED <<item, clean, item_tasks, on, attached, listed, pos, cur>>

\* The awaited task is over: its exception propagates, or the call goes on.
Resume(s) ==
  /\ pc[s] = "waiting"
  /\ ~Live(cur[s])
  /\ CASE coro[cur[s]] = "failed" -> /\ Answer(s, "error", {})
                                     /\ UNCHANGED <<pos, cur>>
       [] coro[cur[s]] # "failed" /\ on[s] = NoItem ->
            /\ Answer(s, "stopped", {})
            /\ UNCHANGED <<pos, cur>>
       [] OTHER ->
            Iterate(s, IF attached[s] THEN item_tasks[on[s]] ELSE <<>>,
                    pos[s] + 1)
  /\ UNCHANGED <<item, clean, item_tasks, on, attached, listed>>

-----------------------------------------------------------------------------
MemoryNext ==
  \/ \E t \in Task, k \in Key : create_task(t, k)
  \/ \E t \in Task, how \in {"ended", "failed"} : TaskEnds(t, how)
  \/ \E t \in Task : cleanup_task(t)
  \/ \E s \in Stopper, k \in Item : stop_item_tasks(s, k)
  \/ \E s \in Stopper, t \in Task : stop_task(s, t)
  \/ \E s \in Stopper : Resume(s)

MemorySpec == MemoryInit /\ [][MemoryNext]_memoryVars

(* The event loop runs what is ready, and a coroutine that was asked to    *)
(* stop ends (process_chat and debounced_save do not outlive their         *)
(* cancellation); a task nobody stops may run for ever.                    *)
CancelledTaskEnds(t) == /\ coro[t] = "cancelling"
                        /\ \E how \in {"ended", "failed"} : TaskEnds(t, how)

MemoryFairness ==
  /\ \A t \in Task : /\ WF_memoryVars(cleanup_task(t))
                     /\ WF_memoryVars(CancelledTaskEnds(t))
  /\ \A s \in Stopper : WF_memoryVars(Resume(s))

FairMemorySpec == MemorySpec /\ MemoryFairness

-----------------------------------------------------------------------------
(* Properties                                                              *)

(* What stop_task answers is true when it answers: "successfully stopped"  *)
(* means the task is over, "not found" that somebody else asked for its    *)
(* cancellation or it is over.                                             *)
AnswersAreTrue ==
  \A s \in Stopper :
    /\ answer[s] = "stopped" /\ pc[s] = "idle" => ~Live(cur[s])
    /\ answer[s] = "notfound" /\ pc[s] = "idle" => coro[cur[s]] # "running"

(* Every stop is answered: no set of stoppers and tasks waits for ever.    *)
EveryStopAnswers == \A s \in Stopper : pc[s] = "waiting" ~> pc[s] = "idle"

(* tasks.py in one process implements TaskLife.                            *)
LifeOf(t) == IF coro[t] = "failed" THEN "ended" ELSE coro[t]
Life == INSTANCE TaskLife WITH life <- [t \in Task |-> LifeOf(t)]
ImplementsTaskLife == Life!Spec

(* stop_item_tasks: "All tasks for item {item_id} stopped.": when a call   *)
(* answers so, no task that was listed when it was made runs on.           *)
AllStoppedIsTrue ==
  \A s \in Stopper : pc[s] = "idle" /\ answer[s] = "all"
                       => \A t \in listed[s] : coro[t] # "running"
=============================================================================
