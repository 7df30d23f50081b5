-------------------------- MODULE SessionPoolProofs -------------------------
(***************************************************************************)
(* The cleanup loops exclude each other, for any number of instances and   *)
(* crashes and any retry policy, under the condition on the lock's         *)
(* lifetime that the code leaves to its configuration.  The session pool   *)
(* keeps to the lock protocol, so this holds of its reaper; and a          *)
(* disconnected session stays out of the pool, for any number of instances *)
(* and sessions and whatever the lock's lifetime.                          *)
(***************************************************************************)
EXTENDS SessionPool, TLAPS

-----------------------------------------------------------------------------
(* The lock. *)

(* The lock outlives a sleep and what two passes can lose.                 *)
LongLock == LockTTL > Period + 2 * Slack

Inv == LockTypeOK /\ ActiveHoldsLock

LEMMA LockTypeInit == LockInit => LockTypeOK
BY ClockAssumption DEF LockInit, LockTypeOK, Steps, Sleeps

LEMMA LockTypeStep == LockTypeOK /\ [LockNext]_clockVars => LockTypeOK'
<1> SUFFICES ASSUME LockTypeOK, [LockNext]_clockVars PROVE LockTypeOK'
  OBVIOUS
<1> USE ClockAssumption DEF LockTypeOK, Steps, Sleeps, Goto, FreshClock,
        lockVars
<1>1. ASSUME NEW n \in Node, aquire_lock(n) PROVE LockTypeOK'
  BY <1>1 DEF aquire_lock
<1>2. ASSUME NEW n \in Node, AquireFails(n) PROVE LockTypeOK'
  <2>1. delay[n] \in Nat
    <3>1. delay[n] \in Delays /\ Delays \subseteq Nat
      OBVIOUS
    <3> QED
      BY <3>1, Zenon
  <2>2. CASE attempt[n] < Retries
    <3>1. timer' \in [Node -> Nat]
      BY <1>2, <2>1, <2>2, Zenon DEF AquireFails
    <3> QED
      BY <1>2, <2>2, <3>1 DEF AquireFails
  <2>3. CASE ~(attempt[n] < Retries)
    BY <1>2, <2>3 DEF AquireFails
  <2> QED
    BY <2>2, <2>3
<1>3. ASSUME NEW n \in Node, renew_lock(n) PROVE LockTypeOK'
  BY <1>3 DEF renew_lock
<1>4. ASSUME NEW n \in Node, RenewFails(n) PROVE LockTypeOK'
  BY <1>4 DEF RenewFails
<1>5. ASSUME NEW n \in Node, Work(n) PROVE LockTypeOK'
  BY <1>5 DEF Work
<1>6. ASSUME NEW n \in Node, WorkFails(n) PROVE LockTypeOK'
  BY <1>6 DEF WorkFails
<1>7. ASSUME NEW n \in Node, Wake(n) PROVE LockTypeOK'
  BY <1>7 DEF Wake
<1>8. ASSUME NEW n \in Node, ReleaseCompare(n) \/ ReleaseDelete(n)
      PROVE  LockTypeOK'
  BY <1>8 DEF ReleaseCompare, ReleaseDelete
<1>9. ASSUME Tick PROVE LockTypeOK'
  BY <1>9 DEF Tick, Ready
<1>10. ASSUME NEW n \in Node, LockCrash(n) \/ LockRestart(n) PROVE LockTypeOK'
  BY <1>10 DEF LockCrash, LockRestart
<1>11. CASE UNCHANGED clockVars
  BY <1>11 DEF clockVars, loopVars
<1> QED
  BY <1>1, <1>2, <1>3, <1>4, <1>5, <1>6, <1>7, <1>8, <1>9, <1>10, <1>11
  DEF LockNext, LoopStep

-----------------------------------------------------------------------------
LEMMA InvInit == LockInit => Inv
BY LockTypeInit, ClockAssumption
   DEF LockInit, Inv, ActiveHoldsLock, Active, LockTypeOK

(* Every step of the loop of node n: the other loops are where they were,  *)
(* and none of them is active while n changes the lock.                    *)
LEMMA InvStep == ASSUME LongLock PROVE Inv /\ [LockNext]_clockVars => Inv'
<1> SUFFICES ASSUME Inv, [LockNext]_clockVars PROVE ActiveHoldsLock'
  BY LockTypeStep DEF Inv
<1> USE ClockAssumption, LongLock
    DEF Inv, LockTypeOK, ActiveHoldsLock, Active, TimeLeft, LongLock, Steps,
        Sleeps, Goto, FreshClock, lockVars
<1>1. ASSUME NEW n \in Node, aquire_lock(n) PROVE ActiveHoldsLock'
  BY <1>1 DEF aquire_lock
<1>2. ASSUME NEW n \in Node, AquireFails(n) PROVE ActiveHoldsLock'
  BY <1>2 DEF AquireFails
<1>3. ASSUME NEW n \in Node, renew_lock(n) PROVE ActiveHoldsLock'
  BY <1>3 DEF renew_lock
<1>4. ASSUME NEW n \in Node, RenewFails(n) PROVE ActiveHoldsLock'
  BY <1>4 DEF RenewFails
<1>5. ASSUME NEW n \in Node, Work(n) PROVE ActiveHoldsLock'
  BY <1>5 DEF Work
<1>6. ASSUME NEW n \in Node, WorkFails(n) PROVE ActiveHoldsLock'
  BY <1>6 DEF WorkFails
<1>7. ASSUME NEW n \in Node, Wake(n) PROVE ActiveHoldsLock'
  BY <1>7 DEF Wake
<1>8. ASSUME NEW n \in Node, ReleaseCompare(n) \/ ReleaseDelete(n)
      PROVE  ActiveHoldsLock'
  BY <1>8 DEF ReleaseCompare, ReleaseDelete
<1>9. ASSUME Tick PROVE ActiveHoldsLock'
  <2>1. ASSUME NEW n \in Node PROVE late'[n] <= Slack
    BY <1>9, <2>1 DEF Tick, Ready
  <2>2. ASSUME NEW n \in Node, Active(n)'
        PROVE  holder' = n /\ ttl' > 0 /\ TimeLeft(n)'
    <3>1. Active(n) /\ holder = n
      BY <1>9, <2>2 DEF Tick
    <3>2. CASE loop[n] = "sleep" /\ timer[n] # 0
      BY <1>9, <3>1, <3>2 DEF Tick, Ready
    <3>3. CASE ~(loop[n] = "sleep" /\ timer[n] # 0)
      <4>1. Ready(n)
        BY <3>1, <3>3 DEF Ready
      <4>2. late'[n] = late[n] + 1 /\ late[n] < Slack /\ ttl' = ttl - 1
        BY <1>9, <3>1, <4>1 DEF Tick
      <4> QED
        BY <1>9, <3>1, <3>3, <4>2 DEF Tick
    <3> QED
      BY <3>2, <3>3
  <2> QED
    BY <2>1, <2>2
<1>10. ASSUME NEW n \in Node, LockCrash(n) \/ LockRestart(n)
       PROVE  ActiveHoldsLock'
  BY <1>10 DEF LockCrash, LockRestart
<1>11. CASE UNCHANGED clockVars
  BY <1>11 DEF clockVars, loopVars
<1> QED
  BY <1>1, <1>2, <1>3, <1>4, <1>5, <1>6, <1>7, <1>8, <1>9, <1>10, <1>11
  DEF LockNext, LoopStep

(* The loop between acquire and release holds the lock, with the time left *)
(* that its next renewal needs: renewals never fail.                       *)
THEOREM HoldsLock == ASSUME LongLock PROVE LockSpec => []ActiveHoldsLock
<1>1. Inv /\ [LockNext]_clockVars => Inv'
  BY LongLock, InvStep
<1>2. Inv => ActiveHoldsLock
  BY DEF Inv
<1> QED
  BY InvInit, <1>1, <1>2, PTL DEF LockSpec

(* At most one instance cleans up, however many start, crash and restart.  *)
THEOREM MutualExclusion == ASSUME LongLock PROVE LockSpec => []AtMostOneActive
<1>1. ActiveHoldsLock => AtMostOneActive
  BY DEF ActiveHoldsLock, AtMostOneActive
<1> QED
  BY LongLock, HoldsLock, <1>1, PTL

-----------------------------------------------------------------------------
(* The session pool. *)

LEMMA KeepsProtocol == [Next]_vars => [LockNext]_clockVars
<1> SUFFICES ASSUME [Next]_vars PROVE [LockNext]_clockVars
  OBVIOUS
<1>1. ASSUME NEW s \in Sid, Handler(s) \/ Finish(s) PROVE UNCHANGED clockVars
  BY <1>1 DEF Handler, Finish, connect, user_join, HeartbeatGet, HeartbeatSet,
              DisconnectCheck, DisconnectDel
<1>2. ASSUME NEW n \in Node, Loop(n) \/ Pass(n) PROVE [LockNext]_clockVars
  BY <1>2 DEF Loop, Pass, BeginPass, ScanGet, Reap, ReapFails, EndPass,
              LockNext, LoopStep
<1>3. ASSUME NEW n \in Node, Crash(n) \/ Restart(n) PROVE LockNext
  BY <1>3 DEF Crash, Restart, LockNext
<1>4. CASE Time
  BY <1>4 DEF Time, LockNext
<1>5. CASE UNCHANGED vars
  BY <1>5 DEF vars
<1> QED
  BY <1>1, <1>2, <1>3, <1>4, <1>5 DEF Next

(* The pool's reaper runs on one instance at a time if its lock is long.   *)
THEOREM ReaperIsAlone == ASSUME LongLock PROVE Spec => []AtMostOneActive
<1>1. Spec => LockSpec
  BY KeepsProtocol, PTL DEF Spec, Init, LockSpec
<1> QED
  BY <1>1, LongLock, MutualExclusion, PTL

-----------------------------------------------------------------------------
(* A heartbeat in progress is that of an open session, because a           *)
(* disconnect cannot run inside it on the same event loop.                 *)
PoolInv ==
  /\ client \in [Sid -> {"new", "open", "closed", "orphan"}]
  /\ pool \in [Sid -> Nat \cup {Absent}]
  /\ beating \subseteq Sid
  /\ \A s \in beating : client[s] = "open"
  /\ ClosedIsGone

LEMMA PoolStep == PoolInv /\ [Next]_vars => PoolInv'
<1> SUFFICES ASSUME PoolInv, [Next]_vars PROVE PoolInv'
  OBVIOUS
<1> USE DEF PoolInv, ClosedIsGone, Present, reaper, sockets
<1>1. ASSUME NEW s \in Sid, Handler(s) PROVE PoolInv'
  <2>1. CASE connect(s)
    BY <2>1 DEF connect, Seen
  <2>2. CASE user_join(s)
    BY <2>2 DEF user_join, Seen
  <2>3. CASE HeartbeatGet(s)
    BY <2>3 DEF HeartbeatGet
  <2>4. CASE DisconnectCheck(s)
    <3>1. s \notin beating
      BY <2>4 DEF DisconnectCheck, Idle, Handling
    <3> QED
      BY <2>4, <3>1 DEF DisconnectCheck
  <2> QED
    BY <1>1, <2>1, <2>2, <2>3, <2>4 DEF Handler
<1>2. ASSUME NEW s \in Sid, Finish(s) PROVE PoolInv'
  <2>1. CASE HeartbeatSet(s)
    BY <2>1 DEF HeartbeatSet, Seen
  <2>2. CASE DisconnectDel(s)
    BY <2>2 DEF DisconnectDel, Drop
  <2> QED
    BY <1>2, <2>1, <2>2 DEF Finish
<1>3. ASSUME NEW n \in Node, Pass(n) \/ Loop(n) \/ Restart(n) PROVE PoolInv'
  <2>1. CASE Reap(n)
    BY <2>1 DEF Reap, Drop
  <2>2. CASE ~Reap(n)
    BY <1>3, <2>2 DEF Pass, BeginPass, ScanGet, ReapFails, EndPass, Loop,
                      Restart
  <2> QED
    BY <2>1, <2>2
<1>4. ASSUME NEW n \in Node, Crash(n) PROVE PoolInv'
  <2>1. pool' = pool /\ beating' = {s \in beating : at[s] # n}
    BY <1>4 DEF Crash
  <2>2. client' = [s \in Sid |->
                     IF at[s] = n /\ (client[s] = "open" \/ s \in leaving)
                     THEN "orphan" ELSE client[s]]
    BY <1>4 DEF Crash
  <2>3. \A s \in Sid : client'[s] = "closed" /\ s \notin leaving'
                       => client[s] = "closed" /\ s \notin leaving
    BY <1>4, <2>2 DEF Crash
  <2>4. \A s \in beating' : client'[s] = "open"
    BY <2>1, <2>2
  <2> QED
    BY <2>1, <2>2, <2>3, <2>4
<1>5. CASE Time
  BY <1>5, AbsentAssumption DEF Time
<1>6. CASE UNCHANGED vars
  BY <1>6 DEF vars
<1> QED
  BY <1>1, <1>2, <1>3, <1>4, <1>5, <1>6 DEF Next

(* A session that disconnected never comes back into the pool.             *)
THEOREM DisconnectIsFinal == Spec => []ClosedIsGone
<1>1. Init => PoolInv
  BY DEF Init, PoolInv, ClosedIsGone, Present
<1>2. PoolInv => ClosedIsGone
  BY DEF PoolInv
<1> QED
  BY <1>1, <1>2, PoolStep, PTL DEF Spec
=============================================================================
