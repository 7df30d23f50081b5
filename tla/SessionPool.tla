----------------------------- MODULE SessionPool ----------------------------
(***************************************************************************)
(* SESSION_POOL of socket/main.py in Redis mode: the hash of connected     *)
(* socket.io sessions that every instance writes, and the loop             *)
(* periodic_session_pool_cleanup that reaps the sessions of crashed        *)
(* instances under the lock of CleanupLock.                                *)
(*                                                                         *)
(* The handlers use the synchronous Redis client: a handler or a pass of   *)
(* the loop blocks the event loop of its own instance, so it interleaves,  *)
(* one Redis command at a time, with the other instances only.             *)
(***************************************************************************)
EXTENDS CleanupLock

CONSTANTS Sid,                  \* socket.io session ids
          Absent                \* no entry; also: no session

ASSUME AbsentAssumption == Absent \notin Sid /\ Absent \notin Nat

VARIABLES
  client,       \* sid: new, open, closed (disconnected), orphan (crash)
  at,           \* sid: the instance its socket is, or will be, on
  pool,         \* sid: ticks since last_seen_at, or Absent
  beating,      \* sids whose heartbeat has read its entry, not yet written it
  leaving,      \* sids whose disconnect has read its entry, not yet deleted it
  scan,         \* instance: keys its pass has still to look at
  prey          \* instance: the expired sid its pass is about to delete

sockets == <<client, at, beating, leaving>>
reaper == <<scan, prey>>
vars == <<clockVars, sockets, pool, reaper>>

Oldest == Period + Slack + 1    \* ages are not told apart beyond this

TypeOK ==
  /\ LockTypeOK
  /\ client \in [Sid -> {"new", "open", "closed", "orphan"}]
  /\ at \in [Sid -> Node]
  /\ pool \in [Sid -> (0..Oldest) \cup {Absent}]
  /\ beating \subseteq Sid
  /\ leaving \subseteq Sid
  /\ scan \in [Node -> SUBSET Sid]
  /\ prey \in [Node -> Sid \cup {Absent}]

Init ==
  /\ LockInit
  /\ client = [s \in Sid |-> "new"]
  /\ at \in [Sid -> Node]
  /\ pool = [s \in Sid |-> Absent]
  /\ beating = {}
  /\ leaving = {}
  /\ scan = [n \in Node |-> {}]
  /\ prey = [n \in Node |-> Absent]

Present == {s \in Sid : pool[s] # Absent}

Seen(s) == pool' = [pool EXCEPT ![s] = 0]
Drop(s) == pool' = [pool EXCEPT ![s] = Absent]

\* A handler is between its two commands; the loop is in a pass.
Handling(n) == \E s \in beating \cup leaving : at[s] = n
Passing(n) == loop[n] \in {"renew", "work", "compare", "delete"}
Idle(n) == loop[n] # "down" /\ ~Passing(n) /\ ~Handling(n)

-----------------------------------------------------------------------------
(* connect with or without a valid token, and user-join, which (re)creates *)
(* the entry of an open session.                                           *)

connect(s) ==
  /\ client[s] = "new"
  /\ Idle(at[s])
  /\ client' = [client EXCEPT ![s] = "open"]
  /\ Seen(s) \/ UNCHANGED pool
  /\ UNCHANGED <<at, beating, leaving, clockVars, reaper>>

user_join(s) ==
  /\ client[s] = "open"
  /\ Idle(at[s])
  /\ Seen(s)
  /\ UNCHANGED <<sockets, clockVars, reaper>>

\* heartbeat: SESSION_POOL.get(sid), then SESSION_POOL[sid] = ...
HeartbeatGet(s) ==
  /\ client[s] = "open"
  /\ Idle(at[s])
  /\ s \in Present              \* else the heartbeat is ignored
  /\ beating' = beating \cup {s}
  /\ UNCHANGED <<client, at, leaving, pool, clockVars, reaper>>

HeartbeatSet(s) ==
  /\ s \in beating
  /\ beating' = beating \ {s}
  /\ Seen(s)
  /\ UNCHANGED <<client, at, leaving, clockVars, reaper>>

\* mutant: the handlers await, so a disconnect can run inside a heartbeat.
DisconnectMeanwhile(s) ==
  /\ client[s] = "open" /\ loop[at[s]] # "down"
  /\ client' = [client EXCEPT ![s] = "closed"]
  /\ leaving' = IF s \in Present THEN leaving \cup {s} ELSE leaving
  /\ UNCHANGED <<at, beating, pool, clockVars, reaper>>

\* disconnect: `if sid in SESSION_POOL', then the entry is read and deleted;
\* if it went in between, the KeyError ends the handler.
DisconnectCheck(s) ==
  /\ client[s] = "open"
  /\ Idle(at[s])
  /\ client' = [client EXCEPT ![s] = "closed"]
  /\ leaving' = IF s \in Present THEN leaving \cup {s} ELSE leaving
  /\ UNCHANGED <<at, beating, pool, clockVars, reaper>>

DisconnectDel(s) ==
  /\ s \in leaving
  /\ leaving' = leaving \ {s}
  /\ Drop(s)
  /\ UNCHANGED <<client, at, beating, clockVars, reaper>>

-----------------------------------------------------------------------------
(* One pass of the loop: list the keys, then get each entry and delete it  *)
(* if it is older than SESSION_POOL_TIMEOUT, which is also the Period.     *)

\* mutant: an instance looks at the sessions it has served itself.
BeginPassOverOwn(n) ==
  /\ renew_lock(n)
  /\ scan' = [scan EXCEPT ![n] = {s \in Present : at[s] = n}]
  /\ UNCHANGED <<sockets, pool, prey>>

BeginPass(n) ==
  /\ renew_lock(n)
  /\ scan' = [scan EXCEPT ![n] = Present]
  /\ UNCHANGED <<sockets, pool, prey>>

\* `now' was read when the pass began, late[n] ticks ago.
Expired(n, s) == s \in Present /\ pool[s] > Period + late[n]

ScanGet(n, s) ==
  /\ loop[n] = "work"
  /\ prey[n] = Absent
  /\ s \in scan[n]
  /\ IF Expired(n, s)
     THEN prey' = [prey EXCEPT ![n] = s] /\ UNCHANGED scan
     ELSE scan' = [scan EXCEPT ![n] = @ \ {s}] /\ UNCHANGED prey
  /\ UNCHANGED <<sockets, pool, clockVars>>

Reap(n) ==
  /\ prey[n] \in Present
  /\ Drop(prey[n])
  /\ scan' = [scan EXCEPT ![n] = @ \ {prey[n]}]
  /\ prey' = [prey EXCEPT ![n] = Absent]
  /\ UNCHANGED <<sockets, clockVars>>

\* `del SESSION_POOL[sid]' raises KeyError: nothing catches it in the loop.
ReapFails(n) ==
  /\ prey[n] # Absent /\ prey[n] \notin Present
  /\ WorkFails(n)
  /\ scan' = [scan EXCEPT ![n] = {}]
  /\ prey' = [prey EXCEPT ![n] = Absent]
  /\ UNCHANGED <<sockets, pool>>

EndPass(n) ==
  /\ scan[n] = {}
  /\ Work(n)
  /\ UNCHANGED <<sockets, pool, reaper>>

\* The steps of the loop outside a pass wait for the handler that runs.
Loop(n) ==
  /\ \/ (aquire_lock(n) \/ AquireFails(n) \/ Wake(n)) /\ ~Handling(n)
     \/ RenewFails(n) \/ ReleaseCompare(n) \/ ReleaseDelete(n)
  /\ UNCHANGED <<sockets, pool, reaper>>

-----------------------------------------------------------------------------
Time ==
  /\ Tick
  /\ pool' = [s \in Sid |-> IF s \in Present /\ pool[s] < Oldest
                            THEN pool[s] + 1 ELSE pool[s]]
  /\ UNCHANGED <<sockets, reaper>>

\* The sockets of a crashed instance are gone, their entries stay.
Crash(n) ==
  /\ LockCrash(n)
  /\ client' = [s \in Sid |-> IF at[s] = n /\ (client[s] = "open" \/ s \in leaving)
                              THEN "orphan" ELSE client[s]]
  /\ beating' = {s \in beating : at[s] # n}
  /\ leaving' = {s \in leaving : at[s] # n}
  /\ scan' = [scan EXCEPT ![n] = {}]
  /\ prey' = [prey EXCEPT ![n] = Absent]
  /\ UNCHANGED <<at, pool>>

Restart(n) == LockRestart(n) /\ UNCHANGED <<sockets, pool, reaper>>

-----------------------------------------------------------------------------
Handler(s) == \/ connect(s) \/ user_join(s) \/ HeartbeatGet(s)
              \/ DisconnectCheck(s)
Finish(s) == HeartbeatSet(s) \/ DisconnectDel(s)
Pass(n) == \/ BeginPass(n) \/ (\E s \in Sid : ScanGet(n, s))
           \/ Reap(n) \/ ReapFails(n) \/ EndPass(n)

Next == \/ \E s \in Sid : Handler(s) \/ Finish(s)
        \/ \E n \in Node : Loop(n) \/ Pass(n) \/ Crash(n) \/ Restart(n)
        \/ Time

Spec == Init /\ [][Next]_vars

(* Time goes on, a handler that has begun finishes, the loops run.  The    *)
(* event loop serves its callbacks in turn, so clients that never stop     *)
(* sending heartbeats do not hold back the loop: strong fairness.  No      *)
(* client need connect, beat or leave, and nothing restarts by itself.     *)
Fairness == /\ WF_vars(Time)
            /\ \A s \in Sid : WF_vars(Finish(s))
            /\ \A n \in Node : SF_vars(Loop(n)) /\ WF_vars(Pass(n))

FairSpec == Spec /\ Fairness

-----------------------------------------------------------------------------
(* Properties                                                              *)

(* A session that disconnected is out of the pool for good: neither a      *)
(* heartbeat nor a pass of the reaper that read its entry before brings it *)
(* back, or leaves it there, when the disconnect lands in between.         *)
ClosedIsGone ==
  \A s \in Sid : client[s] = "closed" /\ s \notin leaving => s \notin Present

(* The session of a crashed instance is reaped, as long as some instance   *)
(* runs the loop or is about to start it.                                  *)
NoReaper == \A n \in Node : loop[n] \in {"off", "down"}
OrphansReapedByTheLiving ==
  \A s \in Sid : client[s] = "orphan" ~> (s \notin Present \/ NoReaper)

(* periodic_session_pool_cleanup: "Reap orphaned SESSION_POOL entries that *)
(* missed heartbeats (e.g. crashed instance)."                             *)
OrphansAreReaped ==
  \A s \in Sid : client[s] = "orphan" ~> s \notin Present
=============================================================================
