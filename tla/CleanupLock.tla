----------------------------- MODULE CleanupLock ----------------------------
(***************************************************************************)
(* The RedisLock of socket/utils.py and the periodic loops that run under  *)
(* it, periodic_session_pool_cleanup and periodic_usage_pool_cleanup of    *)
(* socket/main.py, of which every server instance starts one.              *)
(*                                                                         *)
(* Both loops have the same shape (acquire, perhaps after retries; then    *)
(* renew, work, sleep, for ever; release when they leave) and differ in    *)
(* the constants: by default the usage loop sleeps 3 s and the session     *)
(* loop 120 s, both under a lock that expires after 60 s.                  *)
(*                                                                         *)
(* Time is counted down, never up: the lock and every sleeping loop have   *)
(* the ticks they have left.  Slack is how many ticks a loop can be late   *)
(* (a slow pass, a busy event loop, a slow Redis) between two of the       *)
(* moments it starts its clock anew.                                       *)
(***************************************************************************)
EXTENDS Naturals

CONSTANTS Node,                 \* server instances
          Free,                 \* the lock key does not exist
          LockTTL,              \* WEBSOCKET_REDIS_LOCK_TIMEOUT, in ticks
          Period,               \* how long the loop sleeps, in ticks
          Retries,              \* max_retries of the usage loop; else 0
          Delays,               \* the values retry_delay can take
          Slack,                \* how late a loop can be, in ticks
          MaxCrashes

ASSUME ClockAssumption == /\ LockTTL \in Nat \ {0}
                          /\ Period \in Nat \ {0}
                          /\ Slack \in Nat
                          /\ Retries \in Nat
                          /\ Delays \subseteq Nat
                          /\ Delays # {}
                          /\ MaxCrashes \in Nat
                          /\ Free \notin Node

VARIABLES
  holder,       \* the lock_id in the lock key, by its node; or Free
  ttl,          \* ticks until the lock key expires
  loop,         \* node: where its loop is
  timer,        \* node: ticks its loop has still to sleep
  late,         \* node: ticks its loop has lost since it restarted its clock
  attempt,      \* node: failed attempts to acquire so far
  delay,        \* node: the retry_delay it drew
  crashes

lockVars == <<holder, ttl>>
loopVars == <<loop, timer, late, attempt, delay>>
clockVars == <<lockVars, loopVars, crashes>>

Steps == {"try", "renew", "work", "compare", "delete"}
Sleeps == {"sleep", "pause"}

LockTypeOK ==
  /\ holder \in Node \cup {Free}
  /\ ttl \in Nat
  /\ loop \in [Node -> Steps \cup Sleeps \cup {"off", "down"}]
  /\ timer \in [Node -> Nat]
  /\ late \in [Node -> Nat]
  /\ attempt \in [Node -> Nat]
  /\ delay \in [Node -> Delays]
  /\ crashes \in Nat

LockInit ==
  /\ holder = Free
  /\ ttl = 0
  /\ loop = [n \in Node |-> "try"]
  /\ timer = [n \in Node |-> 0]
  /\ late = [n \in Node |-> 0]
  /\ attempt = [n \in Node |-> 0]
  /\ delay \in [Node -> Delays]
  /\ crashes = 0

Goto(n, step) == loop' = [loop EXCEPT ![n] = step]
FreshClock(n) == late' = [late EXCEPT ![n] = 0]

-----------------------------------------------------------------------------
(* aquire_lock: SET NX EX. *)

\* mutant: SET without NX.
AquireAnyway(n) ==
  /\ loop[n] = "try"
  /\ holder' = n
  /\ ttl' = LockTTL
  /\ Goto(n, "renew")
  /\ FreshClock(n)
  /\ UNCHANGED <<timer, attempt, delay, crashes>>

aquire_lock(n) ==
  /\ loop[n] = "try"
  /\ ttl = 0
  /\ holder' = n
  /\ ttl' = LockTTL
  /\ Goto(n, "renew")
  /\ FreshClock(n)
  /\ UNCHANGED <<timer, attempt, delay, crashes>>

\* The key exists: sleep and try again, or give up for good.
AquireFails(n) ==
  /\ loop[n] = "try"
  /\ ttl # 0
  /\ FreshClock(n)
  /\ IF attempt[n] < Retries
     THEN /\ attempt' = [attempt EXCEPT ![n] = @ + 1]
          /\ timer' = [timer EXCEPT ![n] = delay[n]]
          /\ Goto(n, "pause")
     ELSE /\ Goto(n, "off")
          /\ UNCHANGED <<attempt, timer>>
  /\ UNCHANGED <<lockVars, delay, crashes>>

\* mutant: SET XX KEEPTTL: the renewal does not extend the lock.
RenewKeepsExpiry(n) ==
  /\ loop[n] = "renew" /\ ttl # 0
  /\ holder' = n
  /\ Goto(n, "work")
  /\ FreshClock(n)
  /\ UNCHANGED <<ttl, timer, attempt, delay, crashes>>

\* renew_lock: SET XX EX.  It asks whether the key exists, not whose it is.
renew_lock(n) ==
  /\ loop[n] = "renew"
  /\ ttl # 0
  /\ holder' = n
  /\ ttl' = LockTTL
  /\ Goto(n, "work")
  /\ FreshClock(n)
  /\ UNCHANGED <<timer, attempt, delay, crashes>>

\* "Unable to renew": the loop leaves through its finally clause.
RenewFails(n) ==
  /\ loop[n] = "renew"
  /\ ttl = 0
  /\ Goto(n, "compare")
  /\ UNCHANGED <<lockVars, timer, late, attempt, delay, crashes>>

\* A pass is over.
Work(n) ==
  /\ loop[n] = "work"
  /\ Goto(n, "sleep")
  /\ timer' = [timer EXCEPT ![n] = Period]
  /\ FreshClock(n)
  /\ UNCHANGED <<lockVars, attempt, delay, crashes>>

\* A pass raises (a KeyError from a pool entry deleted under it).
WorkFails(n) ==
  /\ loop[n] = "work"
  /\ Goto(n, "compare")
  /\ UNCHANGED <<lockVars, timer, late, attempt, delay, crashes>>

Wake(n) ==
  /\ loop[n] \in Sleeps
  /\ timer[n] = 0
  /\ Goto(n, IF loop[n] = "sleep" THEN "renew" ELSE "try")
  /\ UNCHANGED <<lockVars, timer, late, attempt, delay, crashes>>

\* release_lock: GET and compare, then, one round trip later, DELETE.
ReleaseCompare(n) ==
  /\ loop[n] = "compare"
  /\ Goto(n, IF holder = n THEN "delete" ELSE "off")
  /\ UNCHANGED <<lockVars, timer, late, attempt, delay, crashes>>

ReleaseDelete(n) ==
  /\ loop[n] = "delete"
  /\ holder' = Free
  /\ ttl' = 0
  /\ Goto(n, "off")
  /\ UNCHANGED <<timer, late, attempt, delay, crashes>>

-----------------------------------------------------------------------------
(* Time passes for the lock, for the sleepers, and for the loops that are  *)
(* due to make a step.                                                     *)

Ready(n) == loop[n] \in Steps \/ (loop[n] \in Sleeps /\ timer[n] = 0)

\* mutant: SET without EX: the key never expires.
TickWithoutExpiry ==
  /\ \A n \in Node : Ready(n) => late[n] < Slack
  /\ timer' = [n \in Node |-> IF timer[n] = 0 THEN 0 ELSE timer[n] - 1]
  /\ late' = [n \in Node |-> IF Ready(n) THEN late[n] + 1 ELSE late[n]]
  /\ UNCHANGED <<lockVars, loop, attempt, delay, crashes>>

Tick ==
  /\ \A n \in Node : Ready(n) => late[n] < Slack
  /\ ttl' = IF ttl = 0 THEN 0 ELSE ttl - 1
  /\ holder' = IF ttl <= 1 THEN Free ELSE holder
  /\ timer' = [n \in Node |-> IF timer[n] = 0 THEN 0 ELSE timer[n] - 1]
  /\ late' = [n \in Node |-> IF Ready(n) THEN late[n] + 1 ELSE late[n]]
  /\ UNCHANGED <<loop, attempt, delay, crashes>>

LockCrash(n) ==
  /\ loop[n] # "down"
  /\ crashes < MaxCrashes
  /\ crashes' = crashes + 1
  /\ Goto(n, "down")
  /\ timer' = [timer EXCEPT ![n] = 0]
  /\ FreshClock(n)
  /\ UNCHANGED <<lockVars, attempt, delay>>

\* mutant: retry_delay left at 0 by a restart.
RestartWithoutDelay(n) ==
  /\ loop[n] = "down"
  /\ Goto(n, "try")
  /\ attempt' = [attempt EXCEPT ![n] = 0]
  /\ delay' = [delay EXCEPT ![n] = 0]
  /\ UNCHANGED <<lockVars, timer, late, crashes>>

\* lifespan starts a fresh loop.
LockRestart(n) ==
  /\ loop[n] = "down"
  /\ Goto(n, "try")
  /\ attempt' = [attempt EXCEPT ![n] = 0]
  /\ \E d \in Delays : delay' = [delay EXCEPT ![n] = d]
  /\ UNCHANGED <<lockVars, timer, late, crashes>>

-----------------------------------------------------------------------------
LoopStep(n) == \/ aquire_lock(n) \/ AquireFails(n)
               \/ renew_lock(n) \/ RenewFails(n)
               \/ Wake(n) \/ ReleaseCompare(n) \/ ReleaseDelete(n)

LockNext == \/ \E n \in Node : \/ LoopStep(n) \/ Work(n) \/ WorkFails(n)
                               \/ LockCrash(n) \/ LockRestart(n)
            \/ Tick

LockSpec == LockInit /\ [][LockNext]_clockVars

(* Time goes on and loops run; a pass ends one way or the other.           *)
LockFairness == /\ WF_clockVars(Tick)
                /\ \A n \in Node : WF_clockVars(LoopStep(n) \/ Work(n))

FairLockSpec == LockSpec /\ LockFairness

-----------------------------------------------------------------------------
(* Properties                                                              *)

(* The loop between its acquire and its release.                           *)
Active(n) == loop[n] \in {"renew", "work", "sleep", "compare", "delete"}

(* Mutual exclusion: at most one instance cleans up.  It needs a lock that *)
(* outlives a sleep and what two passes can lose, because renew_lock takes *)
(* over whatever lock it finds and release_lock may delete another's.      *)
AtMostOneActive ==
  \A m, n \in Node : Active(m) /\ Active(n) => m = n

(* The inductive strengthening: the active loop holds the lock, with time  *)
(* enough left to come to its next renewal.                                *)
TimeLeft(n) ==
  CASE loop[n] \in {"work", "compare", "delete"} -> ttl + late[n] >= LockTTL
    [] loop[n] = "sleep" ->
         ttl + late[n] + Slack + Period >= LockTTL + timer[n]
    [] loop[n] = "renew" -> ttl + late[n] + Slack + Period >= LockTTL
    [] OTHER -> TRUE

ActiveHoldsLock ==
  \A n \in Node : /\ Active(n) => holder = n /\ ttl > 0 /\ TimeLeft(n)
                  /\ late[n] <= Slack

(* A loop that sleeps comes to its next pass, for ever: nobody else's      *)
(* acquire, retry or release can make its renewal fail.                    *)
KeepsCleaning ==
  \A n \in Node : loop[n] = "sleep" ~> loop[n] \in {"work", "down"}

(* A lock whose holder crashed, or left its loop while another had taken   *)
(* the lock from it, does not stay: it expires, or somebody takes it over. *)
Abandoned == \E n \in Node : holder = n /\ ~Active(n)
AbandonedLockIsFreed == Abandoned ~> ~Abandoned

(* An instance that starts finds a loop that cleans up or comes to be it:  *)
(* its retries outlast the lock of whoever crashed, its own former self    *)
(* included, as two of its delays are no shorter than that lock.           *)
Starting == \E n \in Node : loop[n] = "try"
StartsCleaning ==
  Starting ~> \E n \in Node : Active(n) \/ loop[n] = "down"
=============================================================================
