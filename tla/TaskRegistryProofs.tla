------------------------- MODULE TaskRegistryProofs -------------------------
(***************************************************************************)
(* Proofs about TaskRegistry, for any number of tasks, items, instances    *)
(* and stoppers and any bounds on crashes and faults: type correctness,    *)
(* the inductive invariant, and the implementation of TaskLife.            *)
(***************************************************************************)
EXTENDS TaskRegistry, TLAPS

(* A group of variables that a step leaves alone keeps its types. *)
LEMMA Unchanged ==
  /\ TaskTypes /\ UNCHANGED taskVars => TaskTypes'
  /\ LocalTypes /\ UNCHANGED localVars => LocalTypes'
  /\ RedisTypes /\ UNCHANGED redisVars => RedisTypes'
  /\ StopTypes /\ UNCHANGED stopVars => StopTypes'
  /\ BoundTypes /\ UNCHANGED boundVars => BoundTypes'
BY DEF TaskTypes, LocalTypes, RedisTypes, StopTypes, BoundTypes,
       taskVars, localVars, redisVars, stopVars, boundVars

LEMMA TypeInit == Init => TypeOK
BY ConstantsAssumption
   DEF Init, TypeOK, TaskTypes, LocalTypes, RedisTypes, StopTypes, BoundTypes,
       Key

(* One step per action, and under it one per group of variables it writes. *)
LEMMA TypeStep == TypeOK /\ [Next]_vars => TypeOK'
<1> SUFFICES ASSUME TypeOK, [Next]_vars PROVE TypeOK'
  OBVIOUS
<1> TaskTypes /\ LocalTypes /\ RedisTypes /\ StopTypes /\ BoundTypes
  BY DEF TypeOK
<1>1. ASSUME NEW i \in Instance, NEW t \in Task, NEW k \in Key,
             create_task(i, t, k)
      PROVE  TypeOK'
  <2>1. TaskTypes'
    BY <1>1 DEF create_task, TaskTypes, Key
  <2>2. LocalTypes'
    BY <1>1 DEF create_task, LocalTypes, Key
  <2>3. RedisTypes' /\ StopTypes' /\ BoundTypes'
    BY <1>1, Unchanged DEF create_task, boundVars, localVars, redisVars, stopVars, taskVars
  <2> QED
    BY <2>1, <2>2, <2>3 DEF TypeOK
<1>2. ASSUME NEW t \in Task, OfTask(t) PROVE TypeOK'
  <2>1. CASE redis_save_task(t)
    <3>1. TaskTypes'
      BY <2>1 DEF redis_save_task, TaskTypes, Key
    <3>2. RedisTypes'
      BY <2>1 DEF redis_save_task, RedisTypes, TaskTypes
    <3>3. LocalTypes' /\ StopTypes' /\ BoundTypes'
      BY <2>1, Unchanged DEF redis_save_task, boundVars, localVars, redisVars, stopVars, taskVars
    <3> QED
      BY <3>1, <3>2, <3>3 DEF TypeOK
  <2>2. CASE SaveFails(t)
    <3>1. TaskTypes'
      BY <2>2 DEF SaveFails, TaskTypes, Key
    <3>2. BoundTypes'
      BY <2>2 DEF SaveFails, BoundTypes
    <3>3. LocalTypes' /\ RedisTypes' /\ StopTypes'
      BY <2>2, Unchanged DEF SaveFails, boundVars, localVars, redisVars, stopVars, taskVars
    <3> QED
      BY <3>1, <3>2, <3>3 DEF TypeOK
  <2>3. CASE TaskEnds(t)
    <3>1. TaskTypes'
      BY <2>3 DEF TaskEnds, TaskTypes, Key
    <3>2. LocalTypes' /\ RedisTypes' /\ StopTypes' /\ BoundTypes'
      BY <2>3, Unchanged DEF TaskEnds, boundVars, localVars, redisVars, stopVars, taskVars
    <3> QED
      BY <3>1, <3>2 DEF TypeOK
  <2>4. CASE CleanupPipe(t)
    <3>1. TaskTypes'
      BY <2>4 DEF CleanupPipe, TaskTypes, Key
    <3>2. RedisTypes'
      BY <2>4 DEF CleanupPipe, RedisTypes, TaskTypes
    <3>3. LocalTypes' /\ StopTypes' /\ BoundTypes'
      BY <2>4, Unchanged DEF CleanupPipe, boundVars, localVars, redisVars, stopVars, taskVars
    <3> QED
      BY <3>1, <3>2, <3>3 DEF TypeOK
  <2>5. CASE CleanupDel(t)
    <3>1. TaskTypes'
      BY <2>5 DEF CleanupDel, TaskTypes, Key
    <3>2. RedisTypes'
      BY <2>5 DEF CleanupDel, RedisTypes, TaskTypes
    <3>3. LocalTypes' /\ StopTypes' /\ BoundTypes'
      BY <2>5, Unchanged DEF CleanupDel, boundVars, localVars, redisVars, stopVars, taskVars
    <3> QED
      BY <3>1, <3>2, <3>3 DEF TypeOK
  <2>6. CASE CleanupLocal(t)
    <3>1. TaskTypes'
      BY <2>6 DEF CleanupLocal, TaskTypes, Key
    <3>2. LocalTypes'
      BY <2>6 DEF CleanupLocal, LocalTypes, TaskTypes, Key
    <3>3. RedisTypes' /\ StopTypes' /\ BoundTypes'
      BY <2>6, Unchanged DEF CleanupLocal, boundVars, localVars, redisVars, stopVars, taskVars
    <3> QED
      BY <3>1, <3>2, <3>3 DEF TypeOK
  <2>7. CASE CleanupFails(t)
    <3>1. TaskTypes'
      BY <2>7 DEF CleanupFails, TaskTypes, Key
    <3>2. BoundTypes'
      BY <2>7 DEF CleanupFails, BoundTypes
    <3>3. LocalTypes' /\ RedisTypes' /\ StopTypes'
      BY <2>7, Unchanged DEF CleanupFails, boundVars, localVars, redisVars, stopVars, taskVars
    <3> QED
      BY <3>1, <3>2, <3>3 DEF TypeOK
  <2> QED
    BY <1>2, <2>1, <2>2, <2>3, <2>4, <2>5, <2>6, <2>7 DEF OfTask
<1>3. ASSUME NEW s \in Stopper, Stopping(s) PROVE TypeOK'
  <2>1. CASE \E k \in Item : stop_item_tasks(s, k)
    <3>1. StopTypes'
      BY <2>1 DEF stop_item_tasks, StopTypes, RedisTypes
    <3>2. TaskTypes' /\ LocalTypes' /\ RedisTypes' /\ BoundTypes'
      BY <2>1, Unchanged DEF stop_item_tasks, boundVars, localVars, redisVars, stopVars, taskVars
    <3> QED
      BY <3>1, <3>2 DEF TypeOK
  <2>2. CASE \E t \in Task : stop_task(s, t)
    <3>1. StopTypes'
      BY <2>2 DEF stop_task, StopTypes
    <3>2. TaskTypes' /\ LocalTypes' /\ RedisTypes' /\ BoundTypes'
      BY <2>2, Unchanged DEF stop_task, boundVars, localVars, redisVars, stopVars, taskVars
    <3> QED
      BY <3>1, <3>2 DEF TypeOK
  <2>3. CASE \E t \in Task : redis_send_command(s, t)
    <3>1. StopTypes'
      BY <2>3 DEF redis_send_command, StopTypes
    <3>2. TaskTypes' /\ LocalTypes' /\ RedisTypes' /\ BoundTypes'
      BY <2>3, Unchanged DEF redis_send_command, boundVars, localVars, redisVars, stopVars, taskVars
    <3> QED
      BY <3>1, <3>2 DEF TypeOK
  <2>4. CASE SendFails(s)
    <3>1. StopTypes'
      BY <2>4 DEF SendFails, StopTypes
    <3>2. BoundTypes'
      BY <2>4 DEF SendFails, BoundTypes
    <3>3. TaskTypes' /\ LocalTypes' /\ RedisTypes'
      BY <2>4, Unchanged DEF SendFails, boundVars, localVars, redisVars, stopVars, taskVars
    <3> QED
      BY <3>1, <3>2, <3>3 DEF TypeOK
  <2> QED
    BY <1>3, <2>1, <2>2, <2>3, <2>4 DEF Stopping
<1>4. ASSUME NEW i \in Instance, OfInstance(i) PROVE TypeOK'
  <2>1. CASE \E t \in Task : redis_task_command_listener(i, t)
    <3>1. TaskTypes'
      BY <2>1 DEF redis_task_command_listener, TaskTypes, Key
    <3>2. StopTypes'
      BY <2>1 DEF redis_task_command_listener, StopTypes
    <3>3. LocalTypes' /\ RedisTypes' /\ BoundTypes'
      BY <2>1, Unchanged DEF redis_task_command_listener, boundVars, localVars, redisVars, stopVars, taskVars
    <3> QED
      BY <3>1, <3>2, <3>3 DEF TypeOK
  <2>2. CASE \E t \in Task : CommandLost(i, t)
    <3>1. StopTypes'
      BY <2>2 DEF CommandLost, StopTypes
    <3>2. BoundTypes'
      BY <2>2 DEF CommandLost, BoundTypes
    <3>3. TaskTypes' /\ LocalTypes' /\ RedisTypes'
      BY <2>2, Unchanged DEF CommandLost, boundVars, localVars, redisVars, stopVars, taskVars
    <3> QED
      BY <3>1, <3>2, <3>3 DEF TypeOK
  <2>3. CASE ListenerDies(i)
    <3>1. LocalTypes'
      BY <2>3 DEF ListenerDies, LocalTypes, Key
    <3>2. StopTypes'
      BY <2>3 DEF ListenerDies, StopTypes
    <3>3. BoundTypes'
      BY <2>3 DEF ListenerDies, BoundTypes
    <3>4. TaskTypes' /\ RedisTypes'
      BY <2>3, Unchanged DEF ListenerDies, boundVars, localVars, redisVars, stopVars, taskVars
    <3> QED
      BY <3>1, <3>2, <3>3, <3>4 DEF TypeOK
  <2>4. CASE Crash(i)
    <3>1. TaskTypes'
      BY <2>4 DEF Crash, TaskTypes, Key
    <3>2. LocalTypes'
      BY <2>4 DEF Crash, LocalTypes, Key
    <3>3. StopTypes'
      BY <2>4 DEF Crash, StopTypes
    <3>4. BoundTypes'
      BY <2>4 DEF Crash, BoundTypes
    <3>5. RedisTypes'
      BY <2>4, Unchanged DEF Crash, boundVars, localVars, redisVars, stopVars, taskVars
    <3> QED
      BY <3>1, <3>2, <3>3, <3>4, <3>5 DEF TypeOK
  <2>5. CASE Restart(i)
    <3>1. LocalTypes'
      BY <2>5 DEF Restart, LocalTypes, Key
    <3>2. TaskTypes' /\ RedisTypes' /\ StopTypes' /\ BoundTypes'
      BY <2>5, Unchanged DEF Restart, boundVars, localVars, redisVars, stopVars, taskVars
    <3> QED
      BY <3>1, <3>2 DEF TypeOK
  <2> QED
    BY <1>4, <2>1, <2>2, <2>3, <2>4, <2>5 DEF OfInstance
<1>5. CASE UNCHANGED vars
  BY <1>5, Unchanged DEF vars, TypeOK
<1> QED
  BY <1>1, <1>2, <1>3, <1>4, <1>5 DEF Next, Creation

(* Every reachable state of the registry is well typed. *)
THEOREM TypeCorrect == Spec => []TypeOK
BY TypeInit, TypeStep, PTL DEF Spec
-----------------------------------------------------------------------------
(* The inductive invariant.                                                *)

LEMMA IndInit == Init => IndInv
BY TypeInit, ConstantsAssumption
   DEF Init, IndInv, RunningIsStoppable, SavedIsListed, IndexWithinHash,
       Stages, CommandsAreKnown, Live

(* One step per action, and under it one per conjunct that the action can  *)
(* disturb.                                                                *)
LEMMA IndStep == IndInv /\ [Next]_vars => IndInv'
<1> SUFFICES ASSUME IndInv, [Next]_vars PROVE IndInv'
  OBVIOUS
<1>0. TypeOK'
  BY TypeStep DEF IndInv
<1> USE DEF IndInv, TypeOK, Live, Key, redisVars, localVars, taskVars, stopVars
<1>1. ASSUME NEW i \in Instance, NEW t \in Task, NEW k \in Key,
             create_task(i, t, k)
      PROVE  IndInv'
  <2>1. RunningIsStoppable'
    BY <1>1 DEF create_task, RunningIsStoppable, Stages, TaskTypes,
       LocalTypes
  <2>2. SavedIsListed'
    BY <1>1 DEF create_task, SavedIsListed, Stages, TaskTypes, RedisTypes
  <2>3. IndexWithinHash'
    BY <1>1 DEF create_task, IndexWithinHash, Stages, TaskTypes, RedisTypes
  <2>4. \A u \in Task : Stages(u)'
    BY <1>1 DEF create_task, Stages, RunningIsStoppable, TaskTypes,
       RedisTypes, StopTypes
  <2>5. CommandsAreKnown'
    BY <1>1 DEF create_task, CommandsAreKnown, Stages, IndexWithinHash,
       TaskTypes, StopTypes, RedisTypes
  <2> QED
    BY <1>0, <2>1, <2>2, <2>3, <2>4, <2>5
<1>2. ASSUME NEW t \in Task, OfTask(t) PROVE IndInv'
  <2>1. CASE redis_save_task(t)
    <3>1. SavedIsListed'
      BY <2>1 DEF redis_save_task, SavedIsListed, Stages, TaskTypes,
         RedisTypes
    <3>2. IndexWithinHash'
      BY <2>1 DEF redis_save_task, IndexWithinHash, Stages, TaskTypes,
         RedisTypes
    <3>3. \A u \in Task : Stages(u)'
      BY <2>1 DEF redis_save_task, Stages, RunningIsStoppable, TaskTypes,
         RedisTypes, StopTypes
    <3>4. RunningIsStoppable' /\ CommandsAreKnown'
      BY <2>1 DEF redis_save_task, RunningIsStoppable, CommandsAreKnown
    <3> QED
      BY <1>0, <3>1, <3>2, <3>3, <3>4
  <2>2. CASE SaveFails(t)
    <3>1. SavedIsListed'
      BY <2>2 DEF SaveFails, SavedIsListed, Stages, TaskTypes, RedisTypes
    <3>2. \A u \in Task : Stages(u)'
      BY <2>2 DEF SaveFails, Stages, RunningIsStoppable, TaskTypes,
         RedisTypes, StopTypes
    <3>3. /\ RunningIsStoppable'
          /\ IndexWithinHash'
          /\ CommandsAreKnown'
      BY <2>2 DEF SaveFails, RunningIsStoppable, IndexWithinHash,
         CommandsAreKnown
    <3> QED
      BY <1>0, <3>1, <3>2, <3>3
  <2>3. CASE TaskEnds(t)
    <3>1. RunningIsStoppable'
      BY <2>3 DEF TaskEnds, RunningIsStoppable, Stages, TaskTypes, LocalTypes
    <3>2. SavedIsListed'
      BY <2>3 DEF TaskEnds, SavedIsListed, Stages, TaskTypes, RedisTypes
    <3>3. \A u \in Task : Stages(u)'
      BY <2>3 DEF TaskEnds, Stages, RunningIsStoppable, TaskTypes,
         RedisTypes, StopTypes
    <3>4. CommandsAreKnown'
      BY <2>3 DEF TaskEnds, CommandsAreKnown, Stages, IndexWithinHash,
         TaskTypes, StopTypes, RedisTypes
    <3>5. IndexWithinHash'
      BY <2>3 DEF TaskEnds, IndexWithinHash
    <3> QED
      BY <1>0, <3>1, <3>2, <3>3, <3>4, <3>5
  <2>4. CASE CleanupPipe(t)
    <3>1. SavedIsListed'
      BY <2>4 DEF CleanupPipe, SavedIsListed, Stages, TaskTypes, RedisTypes
    <3>2. IndexWithinHash'
      BY <2>4, ConstantsAssumption DEF CleanupPipe, IndexWithinHash, Stages,
         TaskTypes, RedisTypes
    <3>3. \A u \in Task : Stages(u)'
      BY <2>4 DEF CleanupPipe, Stages, RunningIsStoppable, TaskTypes,
         RedisTypes, StopTypes
    <3>4. RunningIsStoppable' /\ CommandsAreKnown'
      BY <2>4 DEF CleanupPipe, RunningIsStoppable, CommandsAreKnown
    <3> QED
      BY <1>0, <3>1, <3>2, <3>3, <3>4
  <2>5. CASE CleanupDel(t)
    <3>1. IndexWithinHash'
      BY <2>5 DEF CleanupDel, IndexWithinHash, Stages, TaskTypes, RedisTypes
    <3>2. \A u \in Task : Stages(u)'
      BY <2>5 DEF CleanupDel, Stages, RunningIsStoppable, TaskTypes,
         RedisTypes, StopTypes
    <3>3. /\ RunningIsStoppable'
          /\ SavedIsListed'
          /\ CommandsAreKnown'
      BY <2>5 DEF CleanupDel, RunningIsStoppable, SavedIsListed,
         CommandsAreKnown
    <3> QED
      BY <1>0, <3>1, <3>2, <3>3
  <2>6. CASE CleanupLocal(t)
    <3>1. RunningIsStoppable'
      BY <2>6 DEF CleanupLocal, RunningIsStoppable, Stages, TaskTypes,
         LocalTypes
    <3>2. \A u \in Task : Stages(u)'
      BY <2>6 DEF CleanupLocal, Stages, RunningIsStoppable, TaskTypes,
         RedisTypes, StopTypes
    <3>3. /\ SavedIsListed'
          /\ IndexWithinHash'
          /\ CommandsAreKnown'
      BY <2>6 DEF CleanupLocal, SavedIsListed, IndexWithinHash,
         CommandsAreKnown
    <3> QED
      BY <1>0, <3>1, <3>2, <3>3
  <2>7. CASE CleanupFails(t)
    <3>1. \A u \in Task : Stages(u)'
      BY <2>7 DEF CleanupFails, Stages, RunningIsStoppable, TaskTypes,
         RedisTypes, StopTypes
    <3>2. /\ RunningIsStoppable'
          /\ SavedIsListed'
          /\ IndexWithinHash'
          /\ CommandsAreKnown'
      BY <2>7 DEF CleanupFails, RunningIsStoppable, SavedIsListed,
         IndexWithinHash, CommandsAreKnown
    <3> QED
      BY <1>0, <3>1, <3>2
  <2> QED
    BY <1>2, <2>1, <2>2, <2>3, <2>4, <2>5, <2>6, <2>7 DEF OfTask
<1>3. ASSUME NEW s \in Stopper, Stopping(s) PROVE IndInv'
  <2>1. CASE \E k \in Item : stop_item_tasks(s, k)
    <3>1. CommandsAreKnown'
      BY <2>1 DEF stop_item_tasks, CommandsAreKnown, Stages, IndexWithinHash,
         TaskTypes, StopTypes, RedisTypes
    <3>2. /\ RunningIsStoppable'
          /\ SavedIsListed'
          /\ IndexWithinHash'
          /\ \A u \in Task : Stages(u)'
      BY <2>1 DEF stop_item_tasks, RunningIsStoppable, SavedIsListed,
         IndexWithinHash, Stages
    <3> QED
      BY <1>0, <3>1, <3>2
  <2>2. CASE \E t \in Task : stop_task(s, t)
    <3>1. CommandsAreKnown'
      BY <2>2 DEF stop_task, CommandsAreKnown, Stages, IndexWithinHash,
         TaskTypes, StopTypes, RedisTypes
    <3>2. /\ RunningIsStoppable'
          /\ SavedIsListed'
          /\ IndexWithinHash'
          /\ \A u \in Task : Stages(u)'
      BY <2>2 DEF stop_task, RunningIsStoppable, SavedIsListed,
         IndexWithinHash, Stages
    <3> QED
      BY <1>0, <3>1, <3>2
  <2>3. CASE \E t \in Task : redis_send_command(s, t)
    <3>1. \A u \in Task : Stages(u)'
      BY <2>3 DEF redis_send_command, Stages, CommandsAreKnown, TaskTypes,
         RedisTypes, StopTypes
    <3>2. CommandsAreKnown'
      BY <2>3 DEF redis_send_command, CommandsAreKnown, Stages,
         IndexWithinHash, TaskTypes, StopTypes, RedisTypes
    <3>3. /\ RunningIsStoppable'
          /\ SavedIsListed'
          /\ IndexWithinHash'
      BY <2>3 DEF redis_send_command, RunningIsStoppable, SavedIsListed,
         IndexWithinHash
    <3> QED
      BY <1>0, <3>1, <3>2, <3>3
  <2>4. CASE SendFails(s)
    <3>1. CommandsAreKnown'
      BY <2>4 DEF SendFails, CommandsAreKnown, Stages, IndexWithinHash,
         TaskTypes, StopTypes, RedisTypes
    <3>2. /\ RunningIsStoppable'
          /\ SavedIsListed'
          /\ IndexWithinHash'
          /\ \A u \in Task : Stages(u)'
      BY <2>4 DEF SendFails, RunningIsStoppable, SavedIsListed,
         IndexWithinHash, Stages
    <3> QED
      BY <1>0, <3>1, <3>2
  <2> QED
    BY <1>3, <2>1, <2>2, <2>3, <2>4 DEF Stopping
<1>4. ASSUME NEW i \in Instance, OfInstance(i) PROVE IndInv'
  <2>1. CASE \E t \in Task : redis_task_command_listener(i, t)
    <3>1. RunningIsStoppable'
      BY <2>1 DEF redis_task_command_listener, RunningIsStoppable, Stages,
         TaskTypes, LocalTypes
    <3>2. SavedIsListed'
      BY <2>1 DEF redis_task_command_listener, SavedIsListed, Stages,
         TaskTypes, RedisTypes
    <3>3. \A u \in Task : Stages(u)'
      BY <2>1 DEF redis_task_command_listener, Stages, RunningIsStoppable,
         TaskTypes, RedisTypes, StopTypes
    <3>4. CommandsAreKnown'
      BY <2>1 DEF redis_task_command_listener, CommandsAreKnown, Stages,
         IndexWithinHash, TaskTypes, StopTypes, RedisTypes
    <3>5. IndexWithinHash'
      BY <2>1 DEF redis_task_command_listener, IndexWithinHash
    <3> QED
      BY <1>0, <3>1, <3>2, <3>3, <3>4, <3>5
  <2>2. CASE \E t \in Task : CommandLost(i, t)
    <3>1. CommandsAreKnown'
      BY <2>2 DEF CommandLost, CommandsAreKnown, Stages, IndexWithinHash,
         TaskTypes, StopTypes, RedisTypes
    <3>2. /\ RunningIsStoppable'
          /\ SavedIsListed'
          /\ IndexWithinHash'
          /\ \A u \in Task : Stages(u)'
      BY <2>2 DEF CommandLost, RunningIsStoppable, SavedIsListed,
         IndexWithinHash, Stages
    <3> QED
      BY <1>0, <3>1, <3>2
  <2>3. CASE ListenerDies(i)
    <3>1. CommandsAreKnown'
      BY <2>3 DEF ListenerDies, CommandsAreKnown, Stages, IndexWithinHash,
         TaskTypes, StopTypes, RedisTypes
    <3>2. /\ RunningIsStoppable'
          /\ SavedIsListed'
          /\ IndexWithinHash'
          /\ \A u \in Task : Stages(u)'
      BY <2>3 DEF ListenerDies, RunningIsStoppable, SavedIsListed,
         IndexWithinHash, Stages
    <3> QED
      BY <1>0, <3>1, <3>2
  <2>4. CASE Crash(i)
    <3>1. RunningIsStoppable'
      BY <2>4 DEF Crash, On, RunningIsStoppable, Stages, TaskTypes,
         LocalTypes
    <3>2. SavedIsListed'
      BY <2>4 DEF Crash, SavedIsListed, Stages, TaskTypes, RedisTypes
    <3>3. \A u \in Task : Stages(u)'
      BY <2>4, ConstantsAssumption DEF Crash, On, Stages, RunningIsStoppable,
         TaskTypes, RedisTypes, StopTypes
    <3>4. CommandsAreKnown'
      BY <2>4 DEF Crash, CommandsAreKnown, Stages, IndexWithinHash,
         TaskTypes, StopTypes, RedisTypes
    <3>5. IndexWithinHash'
      BY <2>4 DEF Crash, IndexWithinHash
    <3> QED
      BY <1>0, <3>1, <3>2, <3>3, <3>4, <3>5
  <2>5. CASE Restart(i)
    <3>1. RunningIsStoppable'
      BY <2>5 DEF Restart, RunningIsStoppable, Stages, TaskTypes, LocalTypes
    <3>2. /\ SavedIsListed'
          /\ IndexWithinHash'
          /\ \A u \in Task : Stages(u)'
          /\ CommandsAreKnown'
      BY <2>5 DEF Restart, SavedIsListed, IndexWithinHash, Stages,
         CommandsAreKnown
    <3> QED
      BY <1>0, <3>1, <3>2
  <2> QED
    BY <1>4, <2>1, <2>2, <2>3, <2>4, <2>5 DEF OfInstance
<1>5. CASE UNCHANGED vars
  BY <1>0, <1>5 DEF vars, redisVars, localVars, taskVars, stopVars,
      RunningIsStoppable, SavedIsListed, IndexWithinHash, Stages,
      CommandsAreKnown
<1> QED
  BY <1>1, <1>2, <1>3, <1>4, <1>5 DEF Next, Creation

LEMMA Inductive == Spec => []IndInv
BY IndInit, IndStep, PTL DEF Spec

(* A stop command can always find a live task, however creations, saves,   *)
(* cleanups, crashes and restarts interleave.                              *)
THEOREM Stoppable == Spec => []RunningIsStoppable
BY Inductive, PTL DEF IndInv

(* list_tasks never misses a saved live task.                              *)
THEOREM Listed == Spec => []SavedIsListed
BY Inductive, PTL DEF IndInv

(* The per-item sets never name an id that the hash does not have.         *)
THEOREM Indexed == Spec => []IndexWithinHash
BY Inductive, PTL DEF IndInv

-----------------------------------------------------------------------------
(* The registry implements TaskLife: a step of TaskLife or a stutter.      *)

LEMMA LifeInit == Init => Life!Init
BY DEF Init, Life!Init

LEMMA LifeStep == IndInv /\ [Next]_vars => [Life!Next]_(Life!vars)
<1> SUFFICES ASSUME IndInv, [Next]_vars PROVE [Life!Next]_(Life!vars)
  OBVIOUS
<1> USE DEF IndInv, TypeOK, Life!vars, stopVars, taskVars
<1>1. ASSUME NEW i \in Instance, NEW t \in Task, NEW k \in Key,
             create_task(i, t, k)
      PROVE  Life!Start(t)
  BY <1>1 DEF create_task, Life!Start
<1>2. ASSUME NEW t \in Task, OfTask(t)
      PROVE  Life!End({t}) \/ UNCHANGED Life!vars
  <2>1. CASE TaskEnds(t)
    BY <2>1 DEF TaskEnds, Live, TaskTypes, Life!End, Life!LiveStates
  <2>2. CASE ~TaskEnds(t)
    BY <1>2, <2>2 DEF OfTask, redis_save_task, SaveFails, CleanupPipe,
        CleanupDel, CleanupLocal, CleanupFails
  <2> QED
    BY <2>1, <2>2
<1>3. ASSUME NEW s \in Stopper, Stopping(s)
      PROVE  (\E t \in Task : Life!Ask(t)) \/ UNCHANGED Life!vars
  <2>1. CASE \E t \in Task : redis_send_command(s, t)
    BY <2>1 DEF redis_send_command, Life!Ask, CommandsAreKnown
  <2>2. CASE ~\E t \in Task : redis_send_command(s, t)
    BY <1>3, <2>2 DEF Stopping, stop_item_tasks, stop_task, SendFails
  <2> QED
    BY <2>1, <2>2
<1>4. ASSUME NEW i \in Instance, OfInstance(i)
      PROVE  [Life!Next]_(Life!vars)
  <2>1. CASE \E t \in Task : redis_task_command_listener(i, t)
    <3>1. PICK t \in Task : redis_task_command_listener(i, t)
      BY <2>1
    <3>2. t \in asked
      BY <3>1 DEF redis_task_command_listener, CommandsAreKnown
    <3>3. Life!Cancel(t) \/ UNCHANGED Life!vars
      BY <3>1, <3>2 DEF redis_task_command_listener, Life!Cancel
    <3> QED
      BY <3>3 DEF Life!Next
  <2>2. CASE Crash(i)
    <3> DEFINE S == {t \in On(i) : Live(t)}
    <3>1. \A t \in On(i) : coro[t] # "unborn"
      BY ConstantsAssumption DEF On, Stages
    <3>2. coro' = [t \in Task |-> IF t \in S THEN "ended" ELSE coro[t]]
      BY <2>2, <3>1 DEF Crash, On, Live, TaskTypes
    <3>3. Life!End(S)
      BY <2>2, <3>2 DEF Crash, Life!End, Life!LiveStates, Live, On
    <3> QED
      BY <3>3 DEF Life!Next, On
  <2>3. CASE ~Crash(i) /\ ~\E t \in Task : redis_task_command_listener(i, t)
    BY <1>4, <2>3 DEF OfInstance, CommandLost, ListenerDies, Restart
  <2> QED
    BY <2>1, <2>2, <2>3
<1>5. CASE UNCHANGED vars
  BY <1>5 DEF vars
<1> QED
  BY <1>1, <1>2, <1>3, <1>4, <1>5 DEF Next, Creation, Life!Next

(* tasks.py with Redis implements TaskLife: whatever is lost, late or      *)
(* crashed, a task is cancelled only after a command naming it was         *)
(* published and never starts again.                                       *)
THEOREM Implements == Spec => ImplementsTaskLife
<1>1. IndInv /\ [Next]_vars => [Life!Next]_(Life!vars)
  BY LifeStep
<1> QED
  BY LifeInit, <1>1, Inductive, PTL DEF Spec, ImplementsTaskLife, Life!Spec
=============================================================================
