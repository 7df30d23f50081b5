--------------------------- MODULE UsagePoolProofs ---------------------------
(***************************************************************************)
(* No copy of a field that a handler or a pass writes back makes a session *)
(* that went look younger than its leave: for any number of instances,     *)
(* sessions and models, whatever the lock lets overlap.                    *)
(***************************************************************************)
EXTENDS UsagePool, TLAPS

\* What the steps need of the types; the lock does not matter.
PoolType ==
  /\ client \in [Sid -> {"open", "closed", "orphan"}]
  /\ gone \in [Sid -> 0..Oldest]
  /\ usage \in [Model -> [Sid -> Ages]]
  /\ copy \in [Node -> [Model -> [Sid -> Ages]]]
  /\ doing \in [Node -> Handlers \cup {Nothing}]

\* No younger than the leave of every session that went.
OldEnough(connections) ==
  \A s \in Sid : client[s] # "open" /\ connections[s] # Absent
                   => connections[s] >= gone[s]

OpenAreHere == \A s \in Sid : client[s] = "open" => gone[s] = 0

\* The copies are as old as the field: a copy may be written back.
CopiesAreOld == \A n \in Node, m \in Model : OldEnough(copy[n][m])

\* A handler has its session and its model; a session whose usage handler
\* runs is on that instance, and stays connected until it has finished.
HandlersServe ==
  \A n \in Node :
    /\ doing[n].op \in {"usage", "walk", "drop"} => doing[n].sid \in Sid
    /\ doing[n].op \in {"usage", "drop"} => doing[n].model \in Model
    /\ doing[n].op = "usage" =>
         client[doing[n].sid] = "open" /\ At[doing[n].sid] = n

PoolInv == /\ PoolType
           /\ OpenAreHere
           /\ GoneAreNotRefreshed
           /\ CopiesAreOld
           /\ HandlersServe

-----------------------------------------------------------------------------
LEMMA OldestType == Oldest \in Nat /\ Period \in Nat /\ Absent \notin Ages \ {Absent}
BY ClockAssumption, AbsentAssumption DEF Oldest, Ages

LEMMA UnusedType == /\ Unused \in [Sid -> Ages] /\ OldEnough(Unused)
                    /\ NoCopy \in [Model -> [Sid -> Ages]]
BY DEF Unused, Ages, OldEnough, NoCopy

LEMMA InitPool == UsageInit => PoolInv
<1> SUFFICES ASSUME UsageInit PROVE PoolInv
  OBVIOUS
<1>1. PoolType
  BY UnusedType, OldestType DEF UsageInit, PoolType
<1>2. HandlersServe
  BY DEF UsageInit, HandlersServe, Nothing, Handler
<1> QED
  BY <1>1, <1>2 DEF UsageInit, PoolInv, OpenAreHere, GoneAreNotRefreshed,
     CopiesAreOld, OldEnough

-----------------------------------------------------------------------------
\* A new field, or a new copy, that is as old as it must be.
LEMMA WriteOld ==
  ASSUME PoolInv, NEW m \in Model, NEW connections \in [Sid -> Ages],
         Write(m, connections), OldEnough(connections),
         UNCHANGED sockets
  PROVE  usage' \in [Model -> [Sid -> Ages]] /\ GoneAreNotRefreshed'
<1>1. usage' = [usage EXCEPT ![m] = connections]
  BY DEF Write
<1> QED
  BY <1>1 DEF PoolInv, PoolType, GoneAreNotRefreshed, OldEnough, sockets

LEMMA CopyOld ==
  ASSUME PoolInv, NEW n \in Node, NEW fields \in [Model -> [Sid -> Ages]],
         copy' = [copy EXCEPT ![n] = fields],
         \A m \in Model : OldEnough(fields[m]),
         UNCHANGED sockets
  PROVE  copy' \in [Node -> [Model -> [Sid -> Ages]]] /\ CopiesAreOld'
BY DEF PoolInv, PoolType, CopiesAreOld, OldEnough, sockets

\* Instance n goes on to another handler that serves an open session of it.
LEMMA Serve ==
  ASSUME PoolInv, NEW n \in Node, NEW h \in Handlers \cup {Nothing},
         doing' = [doing EXCEPT ![n] = h],
         h.op \in {"usage", "walk", "drop"} => h.sid \in Sid,
         h.op \in {"usage", "drop"} => h.model \in Model,
         h.op = "usage" => client[h.sid] = "open" /\ At[h.sid] = n,
         UNCHANGED client
  PROVE  doing' \in [Node -> Handlers \cup {Nothing}] /\ HandlersServe'
BY DEF PoolInv, PoolType, HandlersServe

LEMMA NothingServes ==
  Nothing.op \notin {"usage", "walk", "drop"}
BY DEF Nothing, Handler

\* The instance forgets what it was doing.
LEMMA Forgets ==
  ASSUME PoolInv, NEW n \in Node, Forget(n), UNCHANGED sockets
  PROVE  /\ copy' \in [Node -> [Model -> [Sid -> Ages]]] /\ CopiesAreOld'
         /\ doing' \in [Node -> Handlers \cup {Nothing}] /\ HandlersServe'
<1>1. copy' = [copy EXCEPT ![n] = NoCopy] /\ doing' = [doing EXCEPT ![n] = Nothing]
  BY DEF Forget, Do
<1>2. \A m \in Model : OldEnough(NoCopy[m])
  BY UnusedType DEF NoCopy
<1>3. UNCHANGED client
  BY DEF sockets
<1> QED
  BY <1>1, <1>2, <1>3, CopyOld, Serve, NothingServes, UnusedType

\* The copy a handler or a pass has of a field may be written back.
LEMMA TakenIsOld ==
  ASSUME PoolInv, NEW m \in Model
  PROVE  /\ usage[m] \in [Sid -> Ages] /\ OldEnough(usage[m])
         /\ \A n \in Node : copy[n][m] \in [Sid -> Ages] /\ OldEnough(copy[n][m])
BY DEF PoolInv, PoolType, GoneAreNotRefreshed, CopiesAreOld, OldEnough

LEMMA TakeOld ==
  ASSUME PoolInv, NEW n \in Node, NEW m \in Model, Take(n, m), UNCHANGED sockets
  PROVE  copy' \in [Node -> [Model -> [Sid -> Ages]]] /\ CopiesAreOld'
<1>1. copy' = [copy EXCEPT ![n] = [copy[n] EXCEPT ![m] = usage[m]]]
  BY DEF Take, PoolInv, PoolType
<1>2. [copy[n] EXCEPT ![m] = usage[m]] \in [Model -> [Sid -> Ages]]
  BY TakenIsOld DEF PoolInv, PoolType
<1>3. \A k \in Model : OldEnough([copy[n] EXCEPT ![m] = usage[m]][k])
  BY TakenIsOld DEF PoolInv, PoolType
<1> QED
  BY <1>1, <1>2, <1>3, CopyOld

-----------------------------------------------------------------------------
LEMMA SameUsage ==
  ASSUME PoolInv, UNCHANGED <<sockets, usage>>
  PROVE  usage' \in [Model -> [Sid -> Ages]] /\ GoneAreNotRefreshed'
BY DEF PoolInv, PoolType, GoneAreNotRefreshed, sockets

LEMMA SameMemory ==
  ASSUME PoolInv, UNCHANGED <<sockets, memory>>
  PROVE  /\ copy' \in [Node -> [Model -> [Sid -> Ages]]] /\ CopiesAreOld'
         /\ doing' \in [Node -> Handlers \cup {Nothing}] /\ HandlersServe'
BY DEF PoolInv, PoolType, CopiesAreOld, OldEnough, HandlersServe, sockets, memory

LEMMA SameCopies ==
  ASSUME PoolInv, UNCHANGED <<sockets, copy>>
  PROVE  copy' \in [Node -> [Model -> [Sid -> Ages]]] /\ CopiesAreOld'
BY DEF PoolInv, PoolType, CopiesAreOld, OldEnough, sockets

\* What a step has to show when it leaves the sockets alone.
LEMMA Together ==
  ASSUME PoolInv, UNCHANGED sockets,
         usage' \in [Model -> [Sid -> Ages]], GoneAreNotRefreshed',
         copy' \in [Node -> [Model -> [Sid -> Ages]]], CopiesAreOld',
         doing' \in [Node -> Handlers \cup {Nothing}], HandlersServe'
  PROVE  PoolInv'
BY DEF PoolInv, PoolType, OpenAreHere, sockets

-----------------------------------------------------------------------------
LEMMA UsageGetStep ==
  ASSUME PoolInv, NEW s \in Sid, NEW m \in Model, UsageGet(s, m)
  PROVE  PoolInv'
<1> DEFINE n == At[s]
           h == Handler("usage", s, m, {})
<1>1. n \in Node /\ client[s] = "open"
  BY AbsentAssumption DEF UsageGet
<1>2. h \in Handlers /\ h.op = "usage" /\ h.sid = s /\ h.model = m
  BY DEF Handler, Handlers
<1>3. /\ Take(n, m) /\ doing' = [doing EXCEPT ![n] = h]
      /\ UNCHANGED <<sockets, usage>> /\ UNCHANGED client
  BY DEF UsageGet, Do, sockets
<1>4. doing' \in [Node -> Handlers \cup {Nothing}] /\ HandlersServe'
  <2> HIDE DEF h
  <2> QED
    BY <1>1, <1>2, <1>3, Serve
<1> QED
  BY <1>1, <1>3, <1>4, TakeOld, SameUsage, Together

\* The session that says usage is connected: its entry may be new.
LEMMA UsageSetStep ==
  ASSUME PoolInv, NEW n \in Node, UsageSet(n)
  PROVE  PoolInv'
<1> DEFINE d == doing[n]
           connections == [copy[n][d.model] EXCEPT ![d.sid] = 0]
<1>1. d.sid \in Sid /\ d.model \in Model /\ client[d.sid] = "open"
  BY DEF UsageSet, PoolInv, HandlersServe
<1>2. copy[n][d.model] \in [Sid -> Ages] /\ OldEnough(copy[n][d.model])
  BY <1>1, TakenIsOld
<1>3. connections \in [Sid -> Ages] /\ OldEnough(connections)
  <2>1. 0 \in Ages
    BY OldestType DEF Ages
  <2> QED
    BY <1>1, <1>2, <2>1 DEF OldEnough
<1>4. Write(d.model, connections) /\ Forget(n) /\ UNCHANGED sockets
  BY DEF UsageSet
<1>5. usage' \in [Model -> [Sid -> Ages]] /\ GoneAreNotRefreshed'
  <2> HIDE DEF connections
  <2> QED
    BY <1>1, <1>3, <1>4, WriteOld
<1> QED
  BY <1>4, <1>5, Forgets, Together

LEMMA WalkType ==
  ASSUME NEW s \in Sid, NEW left \in SUBSET Model
  PROVE  /\ Walk(s, left) \in Handlers \cup {Nothing}
         /\ Walk(s, left).op \in {"none", "walk"}
         /\ Walk(s, left).op = "walk" => Walk(s, left).sid = s
BY DEF Walk, Handler, Handlers, Nothing

LEMMA LeftType ==
  ASSUME PoolInv, NEW n \in Node
  PROVE  doing[n].left \in SUBSET Model
BY DEF PoolInv, PoolType, Handlers, Nothing, Handler

\* The session is closed: nobody runs its usage handler, and it has been gone
\* for no time.
LEMMA DisconnectStep ==
  ASSUME PoolInv, NEW s \in Sid, Disconnect(s)
  PROVE  PoolInv'
<1> DEFINE n == At[s]
           h == Walk(s, {m \in Model : InUse(m)})
<1>1. n \in Node /\ client[s] = "open" /\ doing[n] = Nothing
  BY AbsentAssumption DEF Disconnect, Idle
<1>2. h \in Handlers \cup {Nothing} /\ h.op \in {"none", "walk"}
      /\ (h.op = "walk" => h.sid = s)
  BY WalkType
<1>3. /\ doing' = [doing EXCEPT ![n] = h]
      /\ client' = [client EXCEPT ![s] = "closed"]
      /\ UNCHANGED <<gone, usage, copy>>
  BY DEF Disconnect, Do
<1> HIDE DEF h
<1>4. \A o \in Node : doing[o].op = "usage" => doing[o].sid # s
  BY <1>1, NothingServes DEF PoolInv, HandlersServe
<1>5. HandlersServe'
  BY <1>1, <1>2, <1>3, <1>4 DEF PoolInv, PoolType, HandlersServe
<1>6. PoolType' /\ OpenAreHere'
  BY <1>1, <1>2, <1>3 DEF PoolInv, PoolType, OpenAreHere
<1>7. gone[s] = 0
  BY <1>1 DEF PoolInv, OpenAreHere
<1>8. GoneAreNotRefreshed'
  <2> SUFFICES ASSUME NEW m \in Model, NEW t \in Sid,
                      client'[t] # "open", usage[m][t] # Absent
               PROVE  usage[m][t] >= gone[t]
    BY <1>3 DEF GoneAreNotRefreshed
  <2>1. CASE t = s
    BY <2>1, <1>7, OldestType DEF PoolInv, PoolType, Ages
  <2>2. CASE t # s
    BY <2>2, <1>3 DEF PoolInv, PoolType, GoneAreNotRefreshed
  <2> QED
    BY <2>1, <2>2
<1>9. CopiesAreOld'
  <2> SUFFICES ASSUME NEW o \in Node, NEW m \in Model, NEW t \in Sid,
                      client'[t] # "open", copy[o][m][t] # Absent
               PROVE  copy[o][m][t] >= gone[t]
    BY <1>3 DEF CopiesAreOld, OldEnough
  <2>1. CASE t = s
    BY <2>1, <1>7, OldestType DEF PoolInv, PoolType, Ages
  <2>2. CASE t # s
    BY <2>2, <1>3 DEF PoolInv, PoolType, CopiesAreOld, OldEnough
  <2> QED
    BY <2>1, <2>2
<1> QED
  BY <1>5, <1>6, <1>8, <1>9 DEF PoolInv

LEMMA DisconnectGetStep ==
  ASSUME PoolInv, NEW n \in Node, NEW m \in Model, DisconnectGet(n, m)
  PROVE  PoolInv'
<1> DEFINE d == doing[n]
           drop == Handler("drop", d.sid, m, d.left \ {m})
           walk == Walk(d.sid, d.left \ {m})
<1>1. d.sid \in Sid /\ d.left \ {m} \in SUBSET Model
  BY LeftType DEF DisconnectGet, PoolInv, HandlersServe
<1>2. UNCHANGED <<sockets, usage>> /\ UNCHANGED client
  BY DEF DisconnectGet, sockets
<1>3. CASE usage[m][d.sid] # Absent
  <2>1. drop \in Handlers /\ drop.op = "drop" /\ drop.sid = d.sid /\ drop.model = m
    BY <1>1 DEF Handler, Handlers
  <2>2. Take(n, m) /\ doing' = [doing EXCEPT ![n] = drop]
    BY <1>3 DEF DisconnectGet, Do
  <2>3. doing' \in [Node -> Handlers \cup {Nothing}] /\ HandlersServe'
    <3> HIDE DEF drop
    <3> QED
      BY <1>1, <1>2, <2>1, <2>2, Serve
  <2> QED
    BY <1>2, <2>2, <2>3, TakeOld, SameUsage, Together
<1>4. CASE usage[m][d.sid] = Absent
  <2>1. walk \in Handlers \cup {Nothing} /\ walk.op \in {"none", "walk"}
        /\ (walk.op = "walk" => walk.sid = d.sid)
    BY <1>1, WalkType
  <2>2. UNCHANGED copy /\ doing' = [doing EXCEPT ![n] = walk]
    BY <1>4 DEF DisconnectGet, Do
  <2>3. doing' \in [Node -> Handlers \cup {Nothing}] /\ HandlersServe'
    <3> HIDE DEF walk
    <3> QED
      BY <1>1, <1>2, <2>1, <2>2, Serve
  <2> QED
    BY <1>2, <2>2, <2>3, SameCopies, SameUsage, Together
<1> QED
  BY <1>3, <1>4

LEMMA DisconnectSetStep ==
  ASSUME PoolInv, NEW n \in Node, DisconnectSet(n)
  PROVE  PoolInv'
<1> DEFINE d == doing[n]
           rest == [copy[n][d.model] EXCEPT ![d.sid] = Absent]
           h == IF rest = Unused /\ ~InUse(d.model) THEN Nothing
                ELSE Walk(d.sid, d.left)
<1>1. d.sid \in Sid /\ d.model \in Model /\ d.left \in SUBSET Model
  BY LeftType DEF DisconnectSet, PoolInv, HandlersServe
<1>2. /\ Write(d.model, rest) /\ copy' = [copy EXCEPT ![n] = NoCopy]
      /\ doing' = [doing EXCEPT ![n] = h]
      /\ UNCHANGED sockets /\ UNCHANGED client
  BY DEF DisconnectSet, Do, sockets
<1>3. copy[n][d.model] \in [Sid -> Ages] /\ OldEnough(copy[n][d.model])
  BY <1>1, TakenIsOld
<1>4. rest \in [Sid -> Ages] /\ OldEnough(rest)
  <2>1. Absent \in Ages
    BY DEF Ages
  <2> QED
    BY <1>1, <1>3, <2>1 DEF OldEnough
<1>5. /\ h \in Handlers \cup {Nothing} /\ h.op \in {"none", "walk"}
      /\ h.op = "walk" => h.sid = d.sid
  BY <1>1, WalkType DEF Nothing, Handler
<1>6. \A m \in Model : OldEnough(NoCopy[m])
  BY UnusedType DEF NoCopy
<1> HIDE DEF rest, h
<1>7. usage' \in [Model -> [Sid -> Ages]] /\ GoneAreNotRefreshed'
  BY <1>1, <1>2, <1>4, WriteOld
<1>8. copy' \in [Node -> [Model -> [Sid -> Ages]]] /\ CopiesAreOld'
  BY <1>2, <1>6, CopyOld, UnusedType
<1>9. doing' \in [Node -> Handlers \cup {Nothing}] /\ HandlersServe'
  BY <1>1, <1>2, <1>5, Serve
<1> QED
  BY <1>2, <1>7, <1>8, <1>9, Together

-----------------------------------------------------------------------------
\* Leaving connections out makes none younger.
LEMMA LiveIsOld ==
  ASSUME NEW connections \in [Sid -> Ages], OldEnough(connections)
  PROVE  Live(connections) \in [Sid -> Ages] /\ OldEnough(Live(connections))
BY DEF Live, OldEnough, Ages

LEMMA BeginPassStep ==
  ASSUME PoolInv, NEW n \in Node, BeginPass(n)
  PROVE  PoolInv'
<1> DEFINE fields == [m \in Model |-> Live(usage[m])]
           h == Handler("pass", Absent, Absent, {m \in Model : InUse(m)})
<1>1. /\ copy' = [copy EXCEPT ![n] = fields] /\ doing' = [doing EXCEPT ![n] = h]
      /\ UNCHANGED <<sockets, usage>> /\ UNCHANGED client
  BY DEF BeginPass, Do, sockets
<1>2. fields \in [Model -> [Sid -> Ages]] /\ \A m \in Model : OldEnough(fields[m])
  BY TakenIsOld, LiveIsOld
<1>3. h \in Handlers /\ h.op = "pass"
  BY DEF Handler, Handlers
<1> HIDE DEF fields, h
<1>4. copy' \in [Node -> [Model -> [Sid -> Ages]]] /\ CopiesAreOld'
  BY <1>1, <1>2, CopyOld
<1>5. doing' \in [Node -> Handlers \cup {Nothing}] /\ HandlersServe'
  BY <1>1, <1>3, Serve
<1> QED
  BY <1>1, <1>4, <1>5, SameUsage, Together

LEMMA PassFieldStep ==
  ASSUME PoolInv, NEW n \in Node, NEW m \in Model, PassField(n, m)
  PROVE  PoolInv'
<1> DEFINE fields == [copy[n] EXCEPT ![m] = Unused]
           h == [doing[n] EXCEPT !.left = @ \ {m}]
<1>1. /\ Write(m, copy[n][m]) /\ doing[n].op = "pass"
      /\ UNCHANGED sockets /\ UNCHANGED client
  BY DEF PassField, sockets
<1>2. copy' = [copy EXCEPT ![n] = fields] /\ doing' = [doing EXCEPT ![n] = h]
  BY DEF PassField, PoolInv, PoolType
<1>3. fields \in [Model -> [Sid -> Ages]] /\ \A k \in Model : OldEnough(fields[k])
  BY TakenIsOld, UnusedType DEF PoolInv, PoolType
<1>4. h \in Handlers /\ h.op = "pass"
  <2>1. doing[n] \in Handlers
    BY <1>1 DEF PoolInv, PoolType, Nothing, Handler
  <2> QED
    BY <1>1, <2>1 DEF Handlers
<1> HIDE DEF fields, h
<1>5. usage' \in [Model -> [Sid -> Ages]] /\ GoneAreNotRefreshed'
  BY <1>1, TakenIsOld, WriteOld
<1>6. copy' \in [Node -> [Model -> [Sid -> Ages]]] /\ CopiesAreOld'
  BY <1>1, <1>2, <1>3, CopyOld
<1>7. doing' \in [Node -> Handlers \cup {Nothing}] /\ HandlersServe'
  BY <1>1, <1>2, <1>4, Serve
<1> QED
  BY <1>1, <1>5, <1>6, <1>7, Together

LEMMA EndPassStep ==
  ASSUME PoolInv, NEW n \in Node, EndPass(n)
  PROVE  PoolInv'
<1>1. /\ doing' = [doing EXCEPT ![n] = Nothing]
      /\ UNCHANGED <<sockets, usage, copy>> /\ UNCHANGED client
  BY DEF EndPass, Do, sockets
<1>2. doing' \in [Node -> Handlers \cup {Nothing}] /\ HandlersServe'
  BY <1>1, NothingServes, Serve
<1> QED
  BY <1>1, <1>2, SameUsage, SameCopies, Together

LEMMA PassFailsStep ==
  ASSUME PoolInv, NEW n \in Node, NEW m \in Model, PassFails(n, m)
  PROVE  PoolInv'
<1>1. Forget(n) /\ UNCHANGED <<sockets, usage>>
  BY DEF PassFails
<1> QED
  BY <1>1, Forgets, SameUsage, Together

-----------------------------------------------------------------------------
\* Ages and leaves grow together, up to the same limit.
LEMMA OlderIsOld ==
  ASSUME PoolType, NEW connections \in [Sid -> Ages], OldEnough(connections), Time
  PROVE  /\ Older(connections) \in [Sid -> Ages]
         /\ \A s \in Sid : client[s] # "open" /\ Older(connections)[s] # Absent
                             => Older(connections)[s] >= gone'[s]
<1> USE OldestType, AbsentAssumption
<1>1. \A s \in Sid : gone[s] \in 0..Oldest
  BY DEF PoolType
<1>2. gone' = [s \in Sid |-> IF client[s] # "open" /\ gone[s] < Oldest
                             THEN gone[s] + 1 ELSE gone[s]]
  BY DEF Time
<1>3. ASSUME NEW s \in Sid PROVE Older(connections)[s] \in Ages
  <2>1. connections[s] \in Ages
    OBVIOUS
  <2> QED
    BY <2>1 DEF Older, Ages
<1>4. ASSUME NEW s \in Sid, client[s] # "open", Older(connections)[s] # Absent
      PROVE  Older(connections)[s] >= gone'[s]
  <2>1. connections[s] \in Ages /\ connections[s] # Absent
    BY <1>4 DEF Older, Ages
  <2>2. connections[s] \in 0..Oldest /\ connections[s] >= gone[s]
    BY <1>4, <2>1 DEF OldEnough, Ages
  <2> QED
    BY <1>1, <1>2, <1>4, <2>1, <2>2 DEF Older
<1> QED
  BY <1>3, <1>4 DEF Older

LEMMA TimeStep ==
  ASSUME PoolInv, Time
  PROVE  PoolInv'
<1>1. /\ UNCHANGED <<client, doing>>
      /\ usage' = [m \in Model |-> Older(usage[m])]
      /\ copy' = [n \in Node |-> [m \in Model |-> Older(copy[n][m])]]
      /\ gone' = [s \in Sid |-> IF client[s] # "open" /\ gone[s] < Oldest
                                THEN gone[s] + 1 ELSE gone[s]]
  BY DEF Time
<1>2. gone' \in [Sid -> 0..Oldest] /\ OpenAreHere'
  <2>1. \A s \in Sid : gone[s] \in 0..Oldest /\ Oldest \in Nat
    BY OldestType DEF PoolInv, PoolType
  <2> QED
    BY <1>1, <2>1 DEF PoolInv, OpenAreHere
<1>3. PoolType
  BY DEF PoolInv
<1>4. usage' \in [Model -> [Sid -> Ages]] /\ GoneAreNotRefreshed'
  BY <1>1, <1>3, TakenIsOld, OlderIsOld DEF GoneAreNotRefreshed
<1>5. copy' \in [Node -> [Model -> [Sid -> Ages]]] /\ CopiesAreOld'
  <2>1. \A n \in Node, m \in Model :
          /\ Older(copy[n][m]) \in [Sid -> Ages]
          /\ \A s \in Sid : client[s] # "open" /\ Older(copy[n][m])[s] # Absent
                              => Older(copy[n][m])[s] >= gone'[s]
    BY <1>3, TakenIsOld, OlderIsOld
  <2> QED
    BY <1>1, <2>1 DEF CopiesAreOld, OldEnough
<1> QED
  BY <1>1, <1>2, <1>4, <1>5 DEF PoolInv, PoolType, HandlersServe

\* The sessions of an instance that crashes are gone for no time.
LEMMA CrashStep ==
  ASSUME PoolInv, NEW n \in Node, Crash(n)
  PROVE  PoolInv'
<1>1. /\ client' = [s \in Sid |-> IF At[s] = n /\ client[s] = "open"
                                  THEN "orphan" ELSE client[s]]
      /\ copy' = [copy EXCEPT ![n] = NoCopy]
      /\ doing' = [doing EXCEPT ![n] = Nothing]
      /\ UNCHANGED <<gone, usage>>
  BY DEF Crash, Forget, Do
<1>2. PoolType' /\ OpenAreHere'
  BY <1>1, UnusedType DEF PoolInv, PoolType, OpenAreHere
<1>3. HandlersServe'
  BY <1>1, NothingServes DEF PoolInv, PoolType, HandlersServe
<1>4. ASSUME NEW connections \in [Sid -> Ages], OldEnough(connections),
             NEW s \in Sid, client'[s] # "open", connections[s] # Absent
      PROVE  connections[s] >= gone[s]
  <2>1. CASE client[s] = "open"
    <3>1. gone[s] = 0 /\ connections[s] \in Ages
      BY <2>1 DEF PoolInv, OpenAreHere
    <3> QED
      BY <1>4, <3>1, OldestType DEF Ages
  <2>2. CASE client[s] # "open"
    BY <1>4, <2>2 DEF OldEnough
  <2> QED
    BY <2>1, <2>2
<1>5. GoneAreNotRefreshed'
  BY <1>1, <1>4, TakenIsOld DEF GoneAreNotRefreshed
<1>6. CopiesAreOld'
  <2> SUFFICES ASSUME NEW o \in Node, NEW m \in Model PROVE OldEnough(copy[o][m])'
    BY DEF CopiesAreOld
  <2>1. copy'[o][m] \in [Sid -> Ages] /\ OldEnough(copy'[o][m])
    BY <1>1, TakenIsOld, UnusedType DEF PoolInv, PoolType, NoCopy
  <2> QED
    BY <1>1, <1>4, <2>1 DEF OldEnough
<1> QED
  BY <1>2, <1>3, <1>5, <1>6 DEF PoolInv

-----------------------------------------------------------------------------
LEMMA PoolStep == PoolInv /\ [UsageNext]_vars => PoolInv'
<1> SUFFICES ASSUME PoolInv, [UsageNext]_vars PROVE PoolInv'
  OBVIOUS
<1>1. ASSUME UNCHANGED <<sockets, usage, memory>> PROVE PoolInv'
  BY <1>1, SameUsage, SameMemory, Together
<1>2. ASSUME NEW s \in Sid, Disconnect(s) \/ \E m \in Model : UsageGet(s, m)
      PROVE  PoolInv'
  BY <1>2, DisconnectStep, UsageGetStep
<1>3. ASSUME NEW n \in Node, Finish(n) PROVE PoolInv'
  BY <1>3, UsageSetStep, DisconnectSetStep, DisconnectGetStep DEF Finish
<1>4. ASSUME NEW n \in Node, Pass(n) PROVE PoolInv'
  BY <1>4, BeginPassStep, EndPassStep, PassFieldStep, PassFailsStep DEF Pass
<1>5. ASSUME NEW n \in Node, Loop(n) \/ Restart(n) PROVE PoolInv'
  BY <1>1, <1>5 DEF Loop, Restart
<1>6. CASE UNCHANGED vars
  BY <1>1, <1>6 DEF vars
<1> QED
  BY <1>2, <1>3, <1>4, <1>5, <1>6, CrashStep, TimeStep DEF UsageNext

(* A session that went is in no field of the pool with an entry younger    *)
(* than its leave, whichever instance writes back which copy of a field,   *)
(* and whether or not the lock keeps the passes apart                      *)
(* (socket/main.py, usage, disconnect, periodic_usage_pool_cleanup).       *)
THEOREM NotRefreshed == UsageSpec => []GoneAreNotRefreshed
<1>1. UsageInit => PoolInv
  BY InitPool
<1>2. PoolInv /\ [UsageNext]_vars => PoolInv'
  BY PoolStep
<1>3. PoolInv => GoneAreNotRefreshed
  BY DEF PoolInv
<1> QED
  BY <1>1, <1>2, <1>3, PTL DEF UsageSpec
=============================================================================
