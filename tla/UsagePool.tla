------------------------------ MODULE UsagePool ------------------------------
(***************************************************************************)
(* USAGE_POOL of socket/main.py in Redis mode: for each model in use, the  *)
(* sessions that use it and when they last said so, one field of a Redis   *)
(* hash.  The usage and disconnect handlers and the passes of              *)
(* periodic_usage_pool_cleanup, under the lock of CleanupLock, all read a  *)
(* field, change their copy and write the whole of it back.                *)
(*                                                                         *)
(* The Redis client is synchronous: a handler, or a pass, keeps its own    *)
(* instance busy and interleaves with those of the other instances only.   *)
(***************************************************************************)
EXTENDS CleanupLock

CONSTANTS Sid,                  \* socket.io session ids
          Model,
          Absent,               \* a session that does not use the model
          At                    \* sid: the instance its socket is on

ASSUME AbsentAssumption == /\ Absent \notin Sid /\ Absent \notin Nat
                           /\ At \in [Sid -> Node]

VARIABLES
  client,       \* sid: open, closed (disconnected) or orphan (its instance
                \* crashed)
  gone,         \* sid: ticks since it was last open
  usage,        \* model: sid: ticks since updated_at, or Absent
  copy,         \* instance: the fields it has read, likewise
  doing         \* instance: the handler that is between two commands

sockets == <<client, gone>>
memory == <<copy, doing>>
vars == <<clockVars, sockets, usage, memory>>

Oldest == Period + 1    \* ages are not told apart beyond this
Ages == (0..Oldest) \cup {Absent}
Unused == [s \in Sid |-> Absent]
NoCopy == [m \in Model |-> Unused]

\* A handler: the session it serves, the model it is at, and for disconnect
\* the models it has still to visit.
Handler(op, s, m, left) == [op |-> op, sid |-> s, model |-> m, left |-> left]
Nothing == Handler("none", Absent, Absent, {})
Handlers == [op : {"usage", "walk", "drop", "pass"},
             sid : Sid \cup {Absent},
             model : Model \cup {Absent}, left : SUBSET Model]

UsageTypeOK ==
  /\ LockTypeOK
  /\ client \in [Sid -> {"open", "closed", "orphan"}]
  /\ gone \in [Sid -> 0..Oldest]
  /\ usage \in [Model -> [Sid -> Ages]]
  /\ copy \in [Node -> [Model -> [Sid -> Ages]]]
  /\ doing \in [Node -> Handlers \cup {Nothing}]

UsageInit ==
  /\ LockInit
  /\ client = [s \in Sid |-> "open"]
  /\ gone = [s \in Sid |-> 0]
  /\ usage = NoCopy
  /\ copy = [n \in Node |-> NoCopy]
  /\ doing = [n \in Node |-> Nothing]

Passing(n) == loop[n] \in {"renew", "work", "compare", "delete"}
Idle(n) == loop[n] # "down" /\ ~Passing(n) /\ doing[n] = Nothing

\* A field without connections is deleted, and only then is there none.
InUse(m) == usage[m] # Unused
Write(m, connections) == usage' = [usage EXCEPT ![m] = connections]
Take(n, m) == copy' = [copy EXCEPT ![n][m] = usage[m]]
Do(n, handler) == doing' = [doing EXCEPT ![n] = handler]
Forget(n) == copy' = [copy EXCEPT ![n] = NoCopy] /\ Do(n, Nothing)

-----------------------------------------------------------------------------
(* usage: the field if there is one, then the field with this session.     *)
(* A field deleted between the question and the read ends the handler with *)
(* a KeyError before it has done anything: as if usage had not been called.*)

UsageGet(s, m) ==
  LET n == At[s] IN
  /\ client[s] = "open"
  /\ Idle(n)
  /\ Take(n, m)
  /\ Do(n, Handler("usage", s, m, {}))
  /\ UNCHANGED <<sockets, usage, clockVars>>

\* mutant: whoever is in the field is taken to use the model now.
UsageSetAll(n) ==
  LET d == doing[n] IN
  /\ d.op = "usage"
  /\ Write(d.model, [s \in Sid |-> IF s = d.sid \/ copy[n][d.model][s] # Absent
                                   THEN 0 ELSE Absent])
  /\ Forget(n)
  /\ UNCHANGED <<sockets, clockVars>>

UsageSet(n) ==
  LET d == doing[n] IN
  /\ d.op = "usage"
  /\ Write(d.model, [copy[n][d.model] EXCEPT ![d.sid] = 0])
  /\ Forget(n)
  /\ UNCHANGED <<sockets, clockVars>>

(* disconnect: the keys, then each field, taken and written back without   *)
(* the session.                                                            *)

Walk(s, left) == IF left = {} THEN Nothing ELSE Handler("walk", s, Absent, left)

Disconnect(s) ==
  LET n == At[s] IN
  /\ client[s] = "open"
  /\ Idle(n)
  /\ client' = [client EXCEPT ![s] = "closed"]
  /\ Do(n, Walk(s, {m \in Model : InUse(m)}))
  /\ UNCHANGED <<gone, usage, copy, clockVars>>

DisconnectGet(n, m) ==
  LET d == doing[n] IN
  /\ d.op = "walk"
  /\ m \in d.left
  /\ IF usage[m][d.sid] # Absent
     THEN Take(n, m) /\ Do(n, Handler("drop", d.sid, m, d.left \ {m}))
     ELSE Do(n, Walk(d.sid, d.left \ {m})) /\ UNCHANGED copy
  /\ UNCHANGED <<sockets, usage, clockVars>>

\* Deleting a field that has gone in between raises: KeyError ends the walk.
DisconnectSet(n) ==
  LET d == doing[n]
      rest == [copy[n][d.model] EXCEPT ![d.sid] = Absent] IN
  /\ d.op = "drop"
  /\ Write(d.model, rest)
  /\ copy' = [copy EXCEPT ![n] = NoCopy]
  /\ Do(n, IF rest = Unused /\ ~InUse(d.model) THEN Nothing
           ELSE Walk(d.sid, d.left))
  /\ UNCHANGED <<sockets, clockVars>>

-----------------------------------------------------------------------------
(* One pass: `now' and HGETALL, then each field is written back without    *)
(* the connections that had expired by then, or deleted if none is left.   *)

\* mutant: a session that closed is left to its disconnect handler.
LiveUnlessOrphan(connections) ==
  [s \in Sid |-> IF connections[s] # Absent /\ connections[s] > Period
                      /\ client[s] # "closed"
                 THEN Absent ELSE connections[s]]

Live(connections) ==
  [s \in Sid |-> IF connections[s] # Absent /\ connections[s] > Period
                 THEN Absent ELSE connections[s]]

BeginPass(n) ==
  /\ renew_lock(n)
  /\ copy' = [copy EXCEPT ![n] = [m \in Model |-> Live(usage[m])]]
  /\ Do(n, Handler("pass", Absent, Absent, {m \in Model : InUse(m)}))
  /\ UNCHANGED <<sockets, usage>>

PassField(n, m) ==
  /\ doing[n].op = "pass"
  /\ m \in doing[n].left
  /\ copy[n][m] # Unused \/ InUse(m)
  /\ Write(m, copy[n][m])
  /\ copy' = [copy EXCEPT ![n][m] = Unused]
  /\ doing' = [doing EXCEPT ![n].left = @ \ {m}]
  /\ UNCHANGED <<sockets, clockVars>>

\* The field to delete is gone: nothing catches the KeyError in the loop.
PassFails(n, m) ==
  /\ m \in doing[n].left
  /\ copy[n][m] = Unused /\ ~InUse(m)
  /\ WorkFails(n)
  /\ Forget(n)
  /\ UNCHANGED <<sockets, usage>>

EndPass(n) ==
  /\ doing[n].left = {}
  /\ Work(n)
  /\ Do(n, Nothing)
  /\ UNCHANGED <<sockets, usage, copy>>

\* The steps of the loop outside a pass wait for the handler that runs.
Loop(n) ==
  /\ \/ (aquire_lock(n) \/ AquireFails(n) \/ Wake(n)) /\ doing[n] = Nothing
     \/ RenewFails(n) \/ ReleaseCompare(n) \/ ReleaseDelete(n)
  /\ UNCHANGED <<sockets, usage, memory>>

-----------------------------------------------------------------------------
Older(connections) ==
  [s \in Sid |-> IF connections[s] # Absent /\ connections[s] < Oldest
                 THEN connections[s] + 1 ELSE connections[s]]

Time ==
  /\ Tick
  /\ gone' = [s \in Sid |-> IF client[s] # "open" /\ gone[s] < Oldest
                            THEN gone[s] + 1 ELSE gone[s]]
  /\ usage' = [m \in Model |-> Older(usage[m])]
  /\ copy' = [n \in Node |-> [m \in Model |-> Older(copy[n][m])]]
  /\ UNCHANGED <<client, doing>>

Crash(n) ==
  /\ LockCrash(n)
  /\ client' = [s \in Sid |-> IF At[s] = n /\ client[s] = "open"
                              THEN "orphan" ELSE client[s]]
  /\ Forget(n)
  /\ UNCHANGED <<gone, usage>>

Restart(n) == LockRestart(n) /\ UNCHANGED <<sockets, usage, memory>>

Finish(n) == \/ UsageSet(n) \/ DisconnectSet(n)
             \/ \E m \in Model : DisconnectGet(n, m)
Pass(n) == \/ BeginPass(n) \/ EndPass(n)
           \/ \E m \in Model : PassField(n, m) \/ PassFails(n, m)

UsageNext ==
  \/ \E s \in Sid : Disconnect(s) \/ \E m \in Model : UsageGet(s, m)
  \/ \E n \in Node : Finish(n) \/ Loop(n) \/ Pass(n) \/ Crash(n) \/ Restart(n)
  \/ Time

UsageSpec == UsageInit /\ [][UsageNext]_vars

(* As in SessionPool: time goes on, handlers finish, and clients that say  *)
(* usage without end do not hold back the loop of their instance.          *)
FairUsageSpec == /\ UsageSpec
                 /\ WF_vars(Time)
                 /\ \A n \in Node : /\ WF_vars(Finish(n))
                                    /\ SF_vars(Loop(n)) /\ WF_vars(Pass(n))

-----------------------------------------------------------------------------
(* Properties                                                              *)

(* Only the session itself says that it uses a model: whatever copy of the *)
(* field a handler or a pass writes back, whichever other update it undoes,*)
(* the entry of a session that went is no younger than its leave.          *)
GoneAreNotRefreshed ==
  \A m \in Model, s \in Sid :
    client[s] # "open" /\ usage[m][s] # Absent => usage[m][s] >= gone[s]

(* Once the last session has gone, disconnected or crashed, no model stays *)
(* listed as in use, as long as some instance has its loop.                *)
NobodyLeft == \A s \in Sid : client[s] # "open"
NoLoop == \A n \in Node : loop[n] \in {"off", "down"}
UnusedModelsGo ==
  \A m \in Model : NobodyLeft ~> (~InUse(m) \/ NoLoop)
=============================================================================
