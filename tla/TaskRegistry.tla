---------------------------- MODULE TaskRegistry ----------------------------
(***************************************************************************)
(* backend/bodhion/tasks.py with Redis: the background tasks (chat         *)
(* completions, debounced document saves) of several server instances.     *)
(*                                                                         *)
(* Each instance keeps its asyncio tasks in the dictionaries `tasks' and   *)
(* `item_tasks'; all instances share a Redis hash (task id -> item id) and *)
(* one Redis set of task ids per item.  A task is stopped by a message on  *)
(* a pub/sub channel that every instance listens to.  Everything an        *)
(* instance does between two awaits is one step; every command or pipeline *)
(* sent to Redis takes effect at a moment of its own, which is a step of   *)
(* its own, so the commands of different coroutines interleave freely.     *)
(***************************************************************************)
EXTENDS Naturals, FiniteSets

CONSTANTS Task,                 \* task ids
          Item,                 \* chat ids and document ids
          NoItem,               \* create_task(..., id=None)
          Instance,             \* server processes
          Nobody,               \* "has no instance yet"
          Stopper,              \* requests running stop_item_tasks/stop_task
          MaxCrashes,           \* bound on instance crashes
          MaxFaults             \* bound on failed Redis calls, lost messages

ASSUME ConstantsAssumption == /\ NoItem \notin Item
                              /\ Nobody \notin Instance
                              /\ MaxCrashes \in Nat
                              /\ MaxFaults \in Nat

VARIABLES
  up,           \* is the instance running?
  listener,     \* is its redis_task_command_listener alive?
  coro,         \* the asyncio task: unborn, running, cancelling, ended
  home,         \* the instance it was created on
  item,         \* the item it belongs to
  save,         \* redis_save_task of the task: no, sent, done, lost
  clean,        \* cleanup_task of the task: no, pipe, del, local, done, lost
  tasks,        \* instance -> keys of its dictionary `tasks'
  item_tasks,   \* instance -> item -> ids in its dictionary `item_tasks'
  hash,         \* keys of the Redis hash REDIS_TASKS_KEY
  itemSet,      \* item -> the Redis set REDIS_ITEM_TASKS_KEY:item
  mail,         \* instance -> stop commands published, not yet handled
  todo,         \* stopper -> ids it has still to send a stop command for
  asked,        \* history: ids a stop command was ever published for
  crashes, faults

redisVars == <<hash, itemSet>>
localVars == <<up, listener, tasks, item_tasks>>
taskVars == <<coro, home, item, save, clean>>
stopVars == <<mail, todo, asked>>
boundVars == <<crashes, faults>>
vars == <<redisVars, localVars, taskVars, stopVars, boundVars>>

Key == Item \cup {NoItem}
Live(t) == coro[t] \in {"running", "cancelling"}

TaskTypes ==
  /\ coro \in [Task -> {"unborn", "running", "cancelling", "ended"}]
  /\ home \in [Task -> Instance \cup {Nobody}]
  /\ item \in [Task -> Key]
  /\ save \in [Task -> {"no", "sent", "done", "lost"}]
  /\ clean \in [Task -> {"no", "pipe", "del", "local", "done", "lost"}]

LocalTypes ==
  /\ up \in [Instance -> BOOLEAN]
  /\ listener \in [Instance -> BOOLEAN]
  /\ tasks \in [Instance -> SUBSET Task]
  /\ item_tasks \in [Instance -> [Key -> SUBSET Task]]

RedisTypes == /\ hash \subseteq Task
              /\ itemSet \in [Item -> SUBSET Task]

StopTypes == /\ mail \in [Instance -> SUBSET Task]
             /\ todo \in [Stopper -> SUBSET Task]
             /\ asked \subseteq Task

BoundTypes == crashes \in Nat /\ faults \in Nat

TypeOK == TaskTypes /\ LocalTypes /\ RedisTypes /\ StopTypes /\ BoundTypes

Init ==
  /\ up = [i \in Instance |-> TRUE]
  /\ listener = [i \in Instance |-> TRUE]
  /\ coro = [t \in Task |-> "unborn"]
  /\ home = [t \in Task |-> Nobody]
  /\ item = [t \in Task |-> NoItem]
  /\ save = [t \in Task |-> "no"]
  /\ clean = [t \in Task |-> "no"]
  /\ tasks = [i \in Instance |-> {}]
  /\ item_tasks = [i \in Instance |-> [k \in Key |-> {}]]
  /\ hash = {}
  /\ itemSet = [k \in Item |-> {}]
  /\ mail = [i \in Instance |-> {}]
  /\ todo = [s \in Stopper |-> {}]
  /\ asked = {}
  /\ crashes = 0
  /\ faults = 0

-----------------------------------------------------------------------------
(* create_task: the asyncio task, the done callback and the two            *)
(* dictionary entries are made before the first await, which is the        *)
(* pipeline of redis_save_task; the new coroutine can run, and end, while  *)
(* that pipeline is on its way.                                            *)

create_task(i, t, k) ==
  /\ up[i]
  /\ coro[t] = "unborn"
  /\ coro' = [coro EXCEPT ![t] = "running"]
  /\ home' = [home EXCEPT ![t] = i]
  /\ item' = [item EXCEPT ![t] = k]
  /\ tasks' = [tasks EXCEPT ![i] = @ \cup {t}]
  /\ item_tasks' = [item_tasks EXCEPT ![i][k] = @ \cup {t}]
  /\ save' = [save EXCEPT ![t] = "sent"]
  /\ UNCHANGED <<clean, up, listener, redisVars, stopVars, boundVars>>

\* The pipeline of redis_save_task executes (MULTI/EXEC: both writes at once).
redis_save_task(t) ==
  /\ save[t] = "sent"
  /\ save' = [save EXCEPT ![t] = "done"]
  /\ hash' = hash \cup {t}
  /\ itemSet' = IF item[t] = NoItem THEN itemSet
                ELSE [itemSet EXCEPT ![item[t]] = @ \cup {t}]
  /\ UNCHANGED <<coro, home, item, clean, localVars, stopVars, boundVars>>

\* It raises instead: create_task raises, the coroutine keeps running.
SaveFails(t) ==
  /\ save[t] = "sent"
  /\ faults < MaxFaults
  /\ faults' = faults + 1
  /\ save' = [save EXCEPT ![t] = "lost"]
  /\ UNCHANGED <<coro, home, item, clean, redisVars, localVars, stopVars,
                 crashes>>

-----------------------------------------------------------------------------
(* The coroutine returns, raises or honours its cancellation; the done     *)
(* callback schedules cleanup_task, whose two pipelines are separate.      *)

TaskEnds(t) ==
  /\ Live(t)
  /\ coro' = [coro EXCEPT ![t] = "ended"]
  /\ clean' = [clean EXCEPT ![t] = "pipe"]
  /\ UNCHANGED <<home, item, save, localVars, redisVars, stopVars, boundVars>>

\* mutant: SREM forgotten.
CleanupPipeNoSrem(t) ==
  /\ clean[t] = "pipe"
  /\ hash' = hash \ {t}
  /\ clean' = [clean EXCEPT ![t] = "local"]
  /\ UNCHANGED <<coro, home, item, save, itemSet, localVars, stopVars,
                 boundVars>>

\* mutant: HDEL indented under `if item_id'.
CleanupPipeItemOnly(t) ==
  /\ clean[t] = "pipe"
  /\ clean' = [clean EXCEPT ![t] = "local"]
  /\ IF item[t] = NoItem THEN UNCHANGED redisVars
     ELSE /\ hash' = hash \ {t}
          /\ itemSet' = [itemSet EXCEPT ![item[t]] = @ \ {t}]
  /\ UNCHANGED <<coro, home, item, save, localVars, stopVars, boundVars>>

\* HDEL, SREM and SCARD execute together; the count decides what follows.
CleanupPipe(t) ==
  /\ clean[t] = "pipe"
  /\ hash' = hash \ {t}
  /\ IF item[t] = NoItem
     THEN /\ clean' = [clean EXCEPT ![t] = "local"]
          /\ UNCHANGED itemSet
     ELSE /\ itemSet' = [itemSet EXCEPT ![item[t]] = @ \ {t}]
          /\ clean' = [clean EXCEPT
                         ![t] = IF itemSet[item[t]] \subseteq {t}
                                THEN "del" ELSE "local"]
  /\ UNCHANGED <<coro, home, item, save, localVars, stopVars, boundVars>>

\* mutant: DEL names the hash of all tasks too.
CleanupDelWrongKey(t) ==
  /\ clean[t] = "del"
  /\ itemSet' = [itemSet EXCEPT ![item[t]] = {}]
  /\ hash' = {}
  /\ clean' = [clean EXCEPT ![t] = "local"]
  /\ UNCHANGED <<coro, home, item, save, localVars, stopVars, boundVars>>

\* DEL of the item's set, decided on the count read one round trip earlier.
CleanupDel(t) ==
  /\ clean[t] = "del"
  /\ itemSet' = [itemSet EXCEPT ![item[t]] = {}]
  /\ clean' = [clean EXCEPT ![t] = "local"]
  /\ UNCHANGED <<coro, home, item, save, hash, localVars, stopVars, boundVars>>

\* cleanup_task pops the local entries; `if id and ...' keeps those of None.
CleanupLocal(t) ==
  /\ clean[t] = "local"
  /\ clean' = [clean EXCEPT ![t] = "done"]
  /\ tasks' = [tasks EXCEPT ![home[t]] = @ \ {t}]
  /\ item_tasks' = IF item[t] = NoItem THEN item_tasks
                   ELSE [item_tasks EXCEPT ![home[t]][item[t]] = @ \ {t}]
  /\ UNCHANGED <<coro, home, item, save, up, listener, redisVars, stopVars,
                 boundVars>>

\* A Redis call of redis_cleanup_task raises: the rest of cleanup_task is lost.
CleanupFails(t) ==
  /\ clean[t] \in {"pipe", "del", "local"}
  /\ faults < MaxFaults
  /\ faults' = faults + 1
  /\ clean' = [clean EXCEPT ![t] = "lost"]
  /\ UNCHANGED <<coro, home, item, save, redisVars, localVars, stopVars,
                 crashes>>

-----------------------------------------------------------------------------
(* Stopping.  stop_item_tasks lists the item's Redis set once, then        *)
(* publishes one command per id it read; stop_task does it for one id that *)
(* a caller was given, so for a task that has been saved.                  *)

stop_item_tasks(s, k) ==
  /\ todo[s] = {}
  /\ itemSet[k] # {}            \* else: "No tasks found for item"
  /\ todo' = [todo EXCEPT ![s] = itemSet[k]]
  /\ UNCHANGED <<mail, asked, redisVars, localVars, taskVars, boundVars>>

stop_task(s, t) ==
  /\ todo[s] = {}
  /\ save[t] = "done"
  /\ todo' = [todo EXCEPT ![s] = {t}]
  /\ UNCHANGED <<mail, asked, redisVars, localVars, taskVars, boundVars>>

\* mutant: the command reaches one node of the cluster only.
SendToOneNode(s, t) ==
  /\ t \in todo[s]
  /\ todo' = [todo EXCEPT ![s] = @ \ {t}]
  /\ \E i \in Instance : /\ up[i] /\ listener[i]
                         /\ mail' = [mail EXCEPT ![i] = @ \cup {t}]
  /\ asked' = asked \cup {t}
  /\ UNCHANGED <<redisVars, localVars, taskVars, boundVars>>

\* PUBLISH reaches the instances subscribed at that moment, no others.
redis_send_command(s, t) ==
  /\ t \in todo[s]
  /\ todo' = [todo EXCEPT ![s] = @ \ {t}]
  /\ mail' = [i \in Instance |-> IF up[i] /\ listener[i]
                                 THEN mail[i] \cup {t} ELSE mail[i]]
  /\ asked' = asked \cup {t}
  /\ UNCHANGED <<redisVars, localVars, taskVars, boundVars>>

\* PUBLISH raises: the caller gets the error, the remaining ids are skipped.
SendFails(s) ==
  /\ todo[s] # {}
  /\ faults < MaxFaults
  /\ faults' = faults + 1
  /\ todo' = [todo EXCEPT ![s] = {}]
  /\ UNCHANGED <<mail, asked, redisVars, localVars, taskVars, crashes>>

\* mutant: tasks.pop(task_id) instead of tasks.get(task_id).
ListenerPops(i, t) ==
  /\ listener[i] /\ t \in mail[i]
  /\ mail' = [mail EXCEPT ![i] = @ \ {t}]
  /\ tasks' = [tasks EXCEPT ![i] = @ \ {t}]
  /\ coro' = IF t \in tasks[i] /\ coro[t] = "running"
             THEN [coro EXCEPT ![t] = "cancelling"] ELSE coro
  /\ UNCHANGED <<home, item, save, clean, up, listener, item_tasks, todo,
                 asked, redisVars, boundVars>>

\* mutant: every task of the same item is cancelled.
ListenerStopsItem(i, t) ==
  /\ listener[i] /\ t \in mail[i]
  /\ mail' = [mail EXCEPT ![i] = @ \ {t}]
  /\ coro' = [u \in Task |-> IF /\ u \in tasks[i] /\ item[u] = item[t]
                               /\ coro[u] = "running"
                            THEN "cancelling" ELSE coro[u]]
  /\ UNCHANGED <<home, item, save, clean, todo, asked, redisVars, localVars,
                 boundVars>>

\* The listener of an instance handles a command: it cancels its own task.
redis_task_command_listener(i, t) ==
  /\ listener[i]
  /\ t \in mail[i]
  /\ mail' = [mail EXCEPT ![i] = @ \ {t}]
  /\ coro' = IF t \in tasks[i] /\ coro[t] = "running"
             THEN [coro EXCEPT ![t] = "cancelling"] ELSE coro
  /\ UNCHANGED <<home, item, save, clean, todo, asked, redisVars, localVars,
                 boundVars>>

\* The connection breaks inside pubsub.listen(), outside the try: the
\* generator raises, the listener task ends and nobody starts it again.
ListenerDies(i) ==
  /\ listener[i]
  /\ faults < MaxFaults
  /\ faults' = faults + 1
  /\ listener' = [listener EXCEPT ![i] = FALSE]
  /\ mail' = [mail EXCEPT ![i] = {}]
  /\ UNCHANGED <<up, tasks, item_tasks, todo, asked, redisVars, taskVars,
                 crashes>>

\* Pub/sub keeps nothing for a subscriber that is reconnecting.
CommandLost(i, t) ==
  /\ t \in mail[i]
  /\ faults < MaxFaults
  /\ faults' = faults + 1
  /\ mail' = [mail EXCEPT ![i] = @ \ {t}]
  /\ UNCHANGED <<todo, asked, redisVars, localVars, taskVars, crashes>>

-----------------------------------------------------------------------------
(* An instance crashes: its coroutines, their pending saves and cleanups,  *)
(* its dictionaries and its subscription are gone; Redis keeps everything. *)

On(i) == {t \in Task : home[t] = i}

Crash(i) ==
  /\ up[i]
  /\ crashes < MaxCrashes
  /\ crashes' = crashes + 1
  /\ up' = [up EXCEPT ![i] = FALSE]
  /\ listener' = [listener EXCEPT ![i] = FALSE]
  /\ tasks' = [tasks EXCEPT ![i] = {}]
  /\ item_tasks' = [item_tasks EXCEPT ![i] = [k \in Key |-> {}]]
  /\ mail' = [mail EXCEPT ![i] = {}]
  /\ coro' = [t \in Task |-> IF t \in On(i) THEN "ended" ELSE coro[t]]
  /\ save' = [t \in Task |-> IF t \in On(i) /\ save[t] = "sent"
                             THEN "lost" ELSE save[t]]
  /\ clean' = [t \in Task |-> IF t \in On(i) /\ clean[t] # "done"
                              THEN "lost" ELSE clean[t]]
  /\ UNCHANGED <<home, item, redisVars, todo, asked, faults>>

\* lifespan: a fresh process, with a fresh listener.
Restart(i) ==
  /\ ~up[i]
  /\ up' = [up EXCEPT ![i] = TRUE]
  /\ listener' = [listener EXCEPT ![i] = TRUE]
  /\ UNCHANGED <<tasks, item_tasks, redisVars, taskVars, stopVars, boundVars>>

-----------------------------------------------------------------------------
Creation == \E i \in Instance, t \in Task, k \in Key : create_task(i, t, k)
OfTask(t) == \/ redis_save_task(t) \/ SaveFails(t) \/ TaskEnds(t)
             \/ CleanupPipe(t) \/ CleanupDel(t) \/ CleanupLocal(t)
             \/ CleanupFails(t)
Stopping(s) == \/ \E k \in Item : stop_item_tasks(s, k)
               \/ \E t \in Task : stop_task(s, t) \/ redis_send_command(s, t)
               \/ SendFails(s)
OfInstance(i) == \/ \E t \in Task : \/ redis_task_command_listener(i, t)
                                    \/ CommandLost(i, t)
                 \/ ListenerDies(i) \/ Crash(i) \/ Restart(i)

Next == \/ Creation
        \/ \E t \in Task : OfTask(t)
        \/ \E s \in Stopper : Stopping(s)
        \/ \E i \in Instance : OfInstance(i)

Spec == Init /\ [][Next]_vars

(* What the event loops and Redis do by themselves is done eventually; a   *)
(* coroutine may run for ever, nobody need create or stop a task, and no   *)
(* fault need happen.                                                      *)
Fairness ==
  /\ \A t \in Task : /\ WF_vars(redis_save_task(t))
                     /\ WF_vars(CleanupPipe(t))
                     /\ WF_vars(CleanupDel(t))
                     /\ WF_vars(CleanupLocal(t))
  /\ \A s \in Stopper, t \in Task : WF_vars(redis_send_command(s, t))
  /\ \A i \in Instance, t \in Task : WF_vars(redis_task_command_listener(i, t))

FairSpec == Spec /\ Fairness

-----------------------------------------------------------------------------
(* Properties                                                              *)

(* A live task can be found by the listener of its instance: that instance *)
(* runs and holds the task in its dictionary, from before the first moment *)
(* its id is known until after it has ended (create_task, cleanup_task).   *)
RunningIsStoppable ==
  \A t \in Task : Live(t) => /\ home[t] \in Instance
                             /\ up[home[t]]
                             /\ t \in tasks[home[t]]

(* list_tasks never misses a live task whose save has gone through: no     *)
(* other task's cleanup takes its entry of the hash away.                  *)
SavedIsListed ==
  \A t \in Task : Live(t) /\ save[t] = "done" => t \in hash

(* The per-item sets index the hash: an id listed under an item (what      *)
(* stop_item_tasks and has_active_tasks read) is in the hash, and the item *)
(* is the one it was created for.                                          *)
IndexWithinHash ==
  \A k \in Item : \A t \in itemSet[k] : t \in hash /\ item[t] = k

(* The inductive invariant behind the three invariants above: which stages *)
(* of the save, the coroutine and the cleanup can go together, and that    *)
(* commands in flight name tasks that exist and were asked for.            *)
Stages(t) ==
  /\ coro[t] = "unborn" <=> save[t] = "no"
  /\ coro[t] # "ended" => clean[t] = "no"
  /\ coro[t] = "unborn" => home[t] = Nobody
  /\ t \in hash => save[t] = "done"
  /\ t \in asked => coro[t] # "unborn"

CommandsAreKnown ==
  /\ \A i \in Instance : mail[i] \subseteq asked
  /\ \A s \in Stopper : \A t \in todo[s] : coro[t] # "unborn"

IndInv == /\ TypeOK
          /\ RunningIsStoppable
          /\ SavedIsListed
          /\ IndexWithinHash
          /\ \A t \in Task : Stages(t)
          /\ CommandsAreKnown

(* No stop command is left over for a task that could still be born: a     *)
(* task is cancelled only after a command naming it was published, and it  *)
(* never starts twice (tasks.py as a whole implements TaskLife).           *)
Life == INSTANCE TaskLife WITH life <- coro
ImplementsTaskLife == Life!Spec

(* A task somebody published a stop command for is cancelled or ends, in   *)
(* spite of crashes of other instances, when no Redis call fails.          *)
StopIsHeeded ==
  \A t \in Task : (t \in asked /\ coro[t] = "running") ~> coro[t] # "running"

(* A task whose save landed before it ended is taken off the list for good *)
(* (it is never listed again), unless its instance crashes first.          *)
FinishedIsUnlisted ==
  \A t \in Task : (save[t] = "done" /\ clean[t] = "pipe")
                    ~> ([](t \notin hash) \/ clean[t] = "lost")

(* list_task_ids_by_item_id: "List all tasks associated with a specific    *)
(* ID": a live task whose save went through is in the set of its item.     *)
SavedIsListedUnderItem ==
  \A t \in Task : Live(t) /\ save[t] = "done" /\ item[t] # NoItem
                    => t \in itemSet[item[t]]
=============================================================================
