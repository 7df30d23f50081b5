----------------------------- MODULE YdocProofs -----------------------------
(***************************************************************************)
(* The shared document, for any number of sessions, updates and handlers   *)
(* at once and any compaction threshold; and the registry of tasks of one  *)
(* process, in which its saves run, for any number of tasks, items and     *)
(* stoppers.                                                               *)
(***************************************************************************)
EXTENDS Ydoc, TaskMemory, WellFoundedInduction, TLAPS

DocType ==
  /\ log \in Seq(SUBSET Update)
  /\ users \subseteq Sid /\ room \subseteq Sid
  /\ client \in [Sid -> {"away", "in", "gone"}]
  /\ seen \in [Sid -> SUBSET Update]
  /\ join \in [Sid -> {"idle", "add", "enter", "get"}]
  /\ edit \in [Sid -> {"idle", "push", "count", "range", "write", "emit"}]
  /\ work \in [Sid -> Update \cup {Nothing}]
  /\ \A s \in Sid : edit[s] # "idle" => work[s] \in Update
  /\ read \in [Sid -> Seq(SUBSET Update)]
  /\ exit \in [Exits -> ExitSteps]
  /\ saves \subseteq Update
  /\ note \in Update \cup {Nothing}

\* A session that disconnected and is still a user was missed, or its own
\* handler is about to remove it.
LeavesUsers ==
  \A s \in users : client[s] = "gone" => s \in missed \/ exit[<<s, "bye">>] \in {"scan", "remove"}

\* Disconnect runs once.
OneBye == \A s \in Sid : client[s] # "gone" => exit[<<s, "bye">>] = "idle"

\* Someone will look whether the document is empty.
Looks(x) == exit[x] \in {"exists", "members", "clear"}

\* What has to be cleared has users, or somebody about to clear it.
WillBeCleared ==
  \/ Contents(log) \subseteq stray \cup restored
  \/ users # {}
  \/ \E x \in Exits : Looks(x)

\* Nothing is in the document that no client has made.
MadeByClients ==
  /\ Contents(log) \subseteq Made
  /\ \A s \in Sid : Contents(read[s]) \subseteq Made
  /\ \A s \in Sid : edit[s] # "idle" => work[s] \in seen[s]

\* An edit has been saved, or is about to be.
WillBeSaved ==
  Made # {} /\ Made \subseteq WithData =>
    note # Nothing \/ saves # {} \/ \E s \in Sid : edit[s] # "idle"

DocInv ==
  /\ DocType /\ MembersAreUpToDate /\ LeavesUsers /\ OneBye /\ WillBeCleared
  /\ MadeByClients /\ WillBeSaved

-----------------------------------------------------------------------------
(* What lists of updates contain. *)

LEMMA InContents ==
  ASSUME NEW l, NEW u
  PROVE  u \in Contents(l) <=> \E i \in 1..Len(l) : u \in l[i]
  BY DEF Contents

LEMMA NoContents == Contents(<<>>) = {}
<1>1. \A i \in 1..Len(<<>>) : FALSE
  OBVIOUS
<1> QED
  BY <1>1 DEF Contents

LEMMA AppendContents ==
  ASSUME NEW l \in Seq(SUBSET Update), NEW e \in SUBSET Update
  PROVE  Contents(Append(l, e)) = Contents(l) \cup e
<1>1. /\ Len(Append(l, e)) = Len(l) + 1 /\ Len(l) \in Nat
      /\ Append(l, e)[Len(l) + 1] = e
      /\ \A i \in 1..Len(l) : Append(l, e)[i] = l[i]
  OBVIOUS
<1>2. \A i \in 1..(Len(l) + 1) : i \in 1..Len(l) \/ i = Len(l) + 1
  BY <1>1
<1>3. \A i \in 1..Len(l) : i \in 1..(Len(l) + 1)
  BY <1>1
<1>4. Len(l) + 1 \in 1..(Len(l) + 1)
  BY <1>1
<1> QED
  BY <1>1, <1>2, <1>3, <1>4, InContents

LEMMA RestOf ==
  ASSUME NEW S, NEW l \in Seq(S), NEW m \in 0..Len(l)
  PROVE  LET r == SubSeq(l, m + 1, Len(l))
         IN  /\ r \in Seq(S) /\ Len(r) = Len(l) - m
             /\ \A i \in 1..(Len(l) - m) : r[i] = l[m + i]
<1>1. Len(l) \in Nat /\ m \in Nat /\ m <= Len(l)
  OBVIOUS
<1>2. CASE m = Len(l)
  <2>1. SubSeq(l, m + 1, Len(l)) = <<>>
    BY <1>1, <1>2
  <2> QED
    BY <1>1, <1>2, <2>1
<1>3. CASE m < Len(l)
  <2>1. m + 1 \in 1..Len(l) /\ Len(l) \in 1..Len(l)
    BY <1>1, <1>3
  <2> QED
    BY <1>1, <1>3, <2>1
<1> QED
  BY <1>1, <1>2, <1>3

LEMMA FirstOf ==
  ASSUME NEW S, NEW l \in Seq(S), NEW m \in 0..Len(l)
  PROVE  LET r == SubSeq(l, 1, m)
         IN  /\ r \in Seq(S) /\ Len(r) = m
             /\ \A i \in 1..m : r[i] = l[i]
  OBVIOUS

LEMMA AddFirst ==
  ASSUME NEW S, NEW e \in S, NEW r \in Seq(S)
  PROVE  LET t == <<e>> \o r
         IN  /\ t \in Seq(S) /\ Len(t) = 1 + Len(r) /\ t[1] = e
             /\ \A i \in 1..Len(r) : t[1 + i] = r[i]
<1>1. <<e>> \in Seq(S) /\ Len(<<e>>) = 1 /\ <<e>>[1] = e
  OBVIOUS
<1> QED
  BY <1>1

(* Squashing the older half of a list keeps exactly what is in it: what a  *)
(* compaction loses or brings back, it owes to the commands of others      *)
(* between its LRANGE and its transaction.                                 *)
THEOREM CompactedContents ==
  ASSUME NEW l \in Seq(SUBSET Update)
  PROVE  Compacted(l) \in Seq(SUBSET Update) /\ Contents(Compacted(l)) = Contents(l)
<1> DEFINE n == Len(l)
           mid == n \div 2
           first == SubSeq(l, 1, mid)
           rest == SubSeq(l, mid + 1, n)
<1>1. n \in Nat /\ mid \in 0..n
  OBVIOUS
<1>2. /\ first \in Seq(SUBSET Update) /\ Len(first) = mid
      /\ \A i \in 1..mid : first[i] = l[i]
  BY <1>1, FirstOf
<1>3. /\ rest \in Seq(SUBSET Update) /\ Len(rest) = n - mid
      /\ \A i \in 1..(n - mid) : rest[i] = l[mid + i]
  BY <1>1, RestOf
<1>4. Compacted(l) = <<Contents(first)>> \o rest
  BY DEF Compacted
<1> HIDE DEF mid, first, rest
<1>5. Contents(first) \in SUBSET Update
  BY <1>2, InContents
<1>6. /\ Compacted(l) \in Seq(SUBSET Update)
      /\ Len(Compacted(l)) = 1 + (n - mid)
      /\ Compacted(l)[1] = Contents(first)
      /\ \A i \in 1..(n - mid) : Compacted(l)[1 + i] = rest[i]
  BY <1>3, <1>4, <1>5, AddFirst
<1>7. Len(l) = n
  BY DEF n
<1>8. ASSUME NEW u \in Contents(l) PROVE u \in Contents(Compacted(l))
  <2>1. PICK i \in 1..n : u \in l[i]
    BY <1>7, <1>8, InContents
  <2>2. CASE i <= mid
    <3>1. i \in 1..Len(first) /\ u \in first[i]
      BY <1>1, <1>2, <2>1, <2>2
    <3>2. u \in Compacted(l)[1]
      BY <1>6, <3>1, InContents
    <3> QED
      BY <1>1, <1>6, <3>2, InContents
  <2>3. CASE i > mid
    <3>1. i - mid \in 1..(n - mid) /\ mid + (i - mid) = i /\ 1 + (i - mid) \in 1..(1 + (n - mid))
      BY <1>1, <2>1, <2>3
    <3>2. u \in Compacted(l)[1 + (i - mid)]
      BY <1>3, <1>6, <2>1, <3>1
    <3> QED
      BY <1>6, <3>1, <3>2, InContents
  <2> QED
    BY <1>1, <2>1, <2>2, <2>3
<1>9. ASSUME NEW u \in Contents(Compacted(l)) PROVE u \in Contents(l)
  <2>1. PICK j \in 1..(1 + (n - mid)) : u \in Compacted(l)[j]
    BY <1>6, <1>9, InContents
  <2>2. CASE j = 1
    <3>1. PICK i \in 1..mid : u \in first[i]
      BY <1>2, <1>6, <2>1, <2>2, InContents
    <3>2. i \in 1..n /\ u \in l[i]
      BY <1>1, <1>2, <3>1
    <3> QED
      BY <1>7, <3>2, InContents
  <2>3. CASE j # 1
    <3>1. j - 1 \in 1..(n - mid) /\ 1 + (j - 1) = j /\ mid + (j - 1) \in 1..n
      BY <1>1, <2>1, <2>3
    <3>2. u \in l[mid + (j - 1)]
      BY <1>3, <1>6, <2>1, <3>1
    <3> QED
      BY <1>7, <3>1, <3>2, InContents
  <2> QED
    BY <2>2, <2>3
<1> QED
  BY <1>6, <1>8, <1>9

-----------------------------------------------------------------------------
LEMMA ExitOf == \A s \in Sid : <<s, "bye">> \in Exits /\ <<s, "leave">> \in Exits
  BY DEF Exits

LEMMA DocTypeStep == DocType /\ [Next]_vars => DocType'
<1> SUFFICES ASSUME DocType, [Next]_vars PROVE DocType'
  OBVIOUS
<1> USE DEF DocType
<1>1. ASSUME NEW s \in Sid, add_user(s) \/ enter_room(s) \/ get_updates(s) PROVE DocType'
  <2>1. Contents(log) \subseteq Update
    BY InContents
  <2> QED
    BY <1>1, <2>1 DEF add_user, enter_room, get_updates, editor, saving, clients, doc
<1>2. ASSUME NEW s \in Sid, NEW u \in Update, Edit(s, u) PROVE DocType'
  BY <1>2 DEF Edit, StopPendingSaves, doc
<1>3. ASSUME NEW s \in Sid, Push(s) PROVE DocType'
  <2>1. log' \in Seq(SUBSET Update)
    BY <1>3 DEF Push
  <2> QED
    BY <1>3, <2>1 DEF Push, clients, saving
<1>4. ASSUME NEW s \in Sid, Count(s) \/ ReadRange(s) PROVE DocType'
  BY <1>4 DEF Count, ReadRange, doc, clients, saving
<1>5. ASSUME NEW s \in Sid, Compact(s) PROVE DocType'
  <2>1. log' \in Seq(SUBSET Update)
    BY <1>5, CompactedContents DEF Compact
  <2> QED
    BY <1>5, <2>1 DEF Compact, clients, saving
<1>6. ASSUME NEW s \in Sid, Emit(s) PROVE DocType'
  BY <1>6 DEF Emit, doc
<1>7. ASSUME NEW u \in Update, debounced_save(u) PROVE DocType'
  BY <1>7 DEF debounced_save, doc, clients, editor
<1>8. ASSUME NEW s \in Sid, Join(s) \/ Leave(s) \/ Disconnect(s) PROVE DocType'
  BY <1>8 DEF Join, Leave, Disconnect, Step, ExitSteps, doc, clients, editor, saving
<1>9. ASSUME NEW s \in Sid, Scan(s) \/ Exists(s) \/ Drop(s) PROVE DocType'
  BY <1>9 DEF Scan, Exists, Drop, Step, ExitSteps, doc, clients, editor, saving
<1>10. ASSUME NEW x \in Exits, Clearing(x) PROVE DocType'
  <2>1. PICK next \in ExitSteps : Step(x, next)
    <3>1. {"members", "exists", "clear", "drop", "idle", "forget"} \subseteq ExitSteps
      BY DEF ExitSteps
    <3>2. \E next \in {"drop", "idle"} : Done(x) => Step(x, next)
      BY DEF Done
    <3>3. CASE remove_user(x)
      BY <3>1, <3>3 DEF remove_user
    <3>4. CASE get_users(x) \/ ClearUpdates(x) \/ ClearUsers(x)
      BY <3>1, <3>2, <3>4 DEF get_users, ClearUpdates, ClearUsers
    <3> QED
      BY <1>10, <3>3, <3>4 DEF Clearing
  <2>2. exit' \in [Exits -> ExitSteps]
    BY <2>1 DEF Step
  <2>3. UNCHANGED <<room, client, seen, join, edit, work, read, saves, note>>
    BY <1>10 DEF Clearing, remove_user, get_users, ClearUpdates, ClearUsers, doc, clients,
                 editor, saving
  <2>4. log' \in {log, <<>>} /\ users' \subseteq users
    BY <1>10 DEF Clearing, remove_user, get_users, ClearUpdates, ClearUsers, doc
  <2>5. log' \in Seq(SUBSET Update) /\ users' \subseteq Sid
    <3>1. <<>> \in Seq(SUBSET Update)
      OBVIOUS
    <3> QED
      BY <2>4, <3>1
  <2> QED
    BY <2>2, <2>3, <2>5
<1>11. CASE UNCHANGED vars
  BY <1>11 DEF vars, doc, clients, editor, saving
<1> QED
  BY <1>1, <1>2, <1>3, <1>4, <1>5, <1>6, <1>7, <1>8, <1>9, <1>10, <1>11
     DEF Next, Client, Handler

-----------------------------------------------------------------------------
(* Members are up to date. *)

LEMMA InFlightIs ==
  ASSUME NEW u
  PROVE  u \in InFlight <=> \E s \in Sid : edit[s] # "idle" /\ u = work[s]
  BY DEF InFlight

\* Every handler that sends nothing: what it adds to the document is in flight,
\* or restored.
LEMMA MembersGrow ==
  ASSUME MembersAreUpToDate,
         \A u \in Contents(log)' : u \in Contents(log) \/ u \in InFlight' \/ u \in restored',
         restored \subseteq restored',
         \A s \in Sid : seen[s] \subseteq seen'[s],
         \A s \in Sid : edit[s] # "idle" => edit'[s] # "idle" /\ work'[s] = work[s],
         \A s \in room' : client'[s] = "in" /\ join'[s] = "idle" =>
                            s \in room /\ client[s] = "in" /\ join[s] = "idle",
         room' \subseteq Sid
  PROVE  MembersAreUpToDate'
<1>1. \A u \in InFlight : u \in InFlight'
  BY DEF InFlight
<1> QED
  BY <1>1 DEF MembersAreUpToDate

LEMMA MembersStep == DocType /\ MembersAreUpToDate /\ [Next]_vars => MembersAreUpToDate'
<1> SUFFICES ASSUME DocType, MembersAreUpToDate, [Next]_vars PROVE MembersAreUpToDate'
  OBVIOUS
<1>1. /\ client \in [Sid -> {"away", "in", "gone"}] /\ seen \in [Sid -> SUBSET Update]
      /\ join \in [Sid -> {"idle", "add", "enter", "get"}]
      /\ edit \in [Sid -> {"idle", "push", "count", "range", "write", "emit"}]
      /\ work \in [Sid -> Update \cup {Nothing}] /\ room \subseteq Sid
      /\ log \in Seq(SUBSET Update) /\ \A s \in Sid : read[s] \in Seq(SUBSET Update)
      /\ DocType'
  BY DocTypeStep DEF DocType
<1>2. ASSUME NEW s \in Sid, add_user(s) \/ enter_room(s) PROVE MembersAreUpToDate'
  <2>1. UNCHANGED <<log, client, seen, edit, work, restored>>
    BY <1>2 DEF add_user, enter_room, clients, editor, history, doc
  <2>2. \A t \in room' : client'[t] = "in" /\ join'[t] = "idle" =>
                           t \in room /\ client[t] = "in" /\ join[t] = "idle"
    BY <1>1, <1>2, <2>1 DEF add_user, enter_room, Connected
  <2> QED
    BY <1>1, <2>1, <2>2, MembersGrow DEF DocType
<1>3. ASSUME NEW s \in Sid, get_updates(s) PROVE MembersAreUpToDate'
  <2>1. /\ UNCHANGED <<log, room, client, edit, work, restored>>
        /\ seen' = [seen EXCEPT ![s] = @ \cup Contents(log)]
        /\ join' = [join EXCEPT ![s] = "idle"]
    BY <1>3 DEF get_updates, editor, history, doc
  <2>2. InFlight' = InFlight /\ Contents(log)' = Contents(log)
    BY <2>1 DEF InFlight
  <2>3. ASSUME NEW t \in room, t # s, client'[t] = "in", join'[t] = "idle"
        PROVE  Contents(log) \subseteq seen'[t] \cup InFlight \cup restored
    BY <1>1, <2>1, <2>3 DEF MembersAreUpToDate
  <2>4. Contents(log) \subseteq seen'[s]
    BY <1>1, <2>1
  <2> QED
    BY <2>1, <2>2, <2>3, <2>4 DEF MembersAreUpToDate
<1>4. ASSUME NEW s \in Sid, NEW u \in Update, Edit(s, u) PROVE MembersAreUpToDate'
  <2>1. /\ UNCHANGED <<log, room, client, join, restored>> /\ edit[s] = "idle"
        /\ seen' = [seen EXCEPT ![s] = @ \cup {u}] /\ work' = [work EXCEPT ![s] = u]
        /\ edit' = [edit EXCEPT ![s] = "push"]
    BY <1>4 DEF Edit, doc, history
  <2> QED
    BY <1>1, <2>1, MembersGrow
<1>5. ASSUME NEW s \in Sid, Push(s) PROVE MembersAreUpToDate'
  <2>1. /\ UNCHANGED <<room, client, seen, join, work, restored>>
        /\ log' = Append(log, {work[s]}) /\ edit[s] = "push"
        /\ edit' = [edit EXCEPT ![s] = "count"]
    BY <1>5 DEF Push, clients
  <2>2. {work[s]} \in SUBSET Update
    BY <2>1 DEF DocType
  <2>3. Contents(log') = Contents(log) \cup {work[s]}
    BY <1>1, <2>1, <2>2, AppendContents
  <2>4. work[s] \in InFlight'
    BY <1>1, <2>1 DEF InFlight
  <2> QED
    BY <1>1, <2>1, <2>3, <2>4, MembersGrow
<1>6. ASSUME NEW s \in Sid, Count(s) \/ ReadRange(s) PROVE MembersAreUpToDate'
  <2>1. /\ UNCHANGED <<log, room, client, seen, join, work, restored>> /\ edit[s] # "idle"
        /\ \E next \in {"range", "emit", "write"} : edit' = [edit EXCEPT ![s] = next]
    BY <1>6 DEF Count, ReadRange, clients, doc, history
  <2> QED
    BY <1>1, <2>1, MembersGrow
<1>7. ASSUME NEW s \in Sid, Compact(s) PROVE MembersAreUpToDate'
  <2>1. /\ UNCHANGED <<room, client, seen, join, work>> /\ edit[s] # "idle"
        /\ edit' = [edit EXCEPT ![s] = "emit"] /\ log' = Compacted(read[s])
        /\ restored' = restored \cup (Contents(read[s]) \ Contents(log))
    BY <1>7 DEF Compact, clients
  <2>2. Contents(log') = Contents(read[s])
    BY <1>1, <2>1, CompactedContents
  <2> QED
    BY <1>1, <2>1, <2>2, MembersGrow
<1>8. ASSUME NEW s \in Sid, Emit(s) PROVE MembersAreUpToDate'
  <2>1. /\ UNCHANGED <<log, room, client, join, restored>>
        /\ seen' = [t \in Sid |-> IF t \in room THEN seen[t] \cup {work[s]} ELSE seen[t]]
        /\ edit' = [edit EXCEPT ![s] = "idle"] /\ work' = [work EXCEPT ![s] = Nothing]
    BY <1>8 DEF Emit, doc, history
  <2>2. \A u \in InFlight : u \in InFlight' \/ u = work[s]
    BY <1>1, <2>1, InFlightIs DEF InFlight
  <2>3. Contents(log)' = Contents(log)
    BY <2>1
  <2>4. ASSUME NEW t \in room, client[t] = "in", join[t] = "idle", NEW u \in Contents(log)
        PROVE  u \in seen'[t] \/ u \in InFlight' \/ u \in restored
    BY <1>1, <2>1, <2>2, <2>4 DEF MembersAreUpToDate
  <2> QED
    BY <2>1, <2>3, <2>4 DEF MembersAreUpToDate
<1>9. ASSUME NEW s \in Sid, Join(s) \/ Leave(s) \/ Disconnect(s) PROVE MembersAreUpToDate'
  <2>1. UNCHANGED <<log, room, seen, edit, work, restored>>
    BY <1>9 DEF Join, Leave, Disconnect, doc, editor, history
  <2>2. \A t \in room : client'[t] = "in" /\ join'[t] = "idle" =>
                          client[t] = "in" /\ join[t] = "idle"
    BY <1>1, <1>9 DEF Join, Leave, Disconnect
  <2> QED
    BY <1>1, <2>1, <2>2, MembersGrow
<1>10. ASSUME NEW s \in Sid, Scan(s) \/ Exists(s) \/ Drop(s) PROVE MembersAreUpToDate'
  <2>1. UNCHANGED <<log, client, seen, join, edit, work, restored>> /\ room' \subseteq room
    BY <1>10 DEF Scan, Exists, Drop, doc, clients, editor, history
  <2> QED
    BY <1>1, <2>1, MembersGrow
<1>11. ASSUME NEW x \in Exits, Clearing(x) PROVE MembersAreUpToDate'
  <2>1. UNCHANGED <<room, client, seen, join, edit, work, restored>> /\ log' \in {log, <<>>}
    BY <1>11 DEF Clearing, remove_user, get_users, ClearUpdates, ClearUsers, doc, clients,
                 editor, history
  <2>2. \A u \in Contents(log') : u \in Contents(log)
    BY <2>1, NoContents
  <2> QED
    BY <1>1, <2>1, <2>2, MembersGrow
<1>12. ASSUME UNCHANGED <<log, room, client, seen, join, edit, work, restored>>
       PROVE  MembersAreUpToDate'
  BY <1>1, <1>12, MembersGrow
<1>13. CASE UNCHANGED vars \/ \E u \in Update : debounced_save(u)
  BY <1>12, <1>13 DEF vars, debounced_save, doc, clients, editor, history
<1> QED
  BY <1>2, <1>3, <1>4, <1>5, <1>6, <1>7, <1>8, <1>9, <1>10, <1>11, <1>13
     DEF Next, Client, Handler

-----------------------------------------------------------------------------
(* Who is gone is removed. *)

LEMMA LeavesStep ==
  ASSUME DocType, LeavesUsers, OneBye, [Next]_vars
  PROVE  LeavesUsers' /\ OneBye'
<1>1. /\ client \in [Sid -> {"away", "in", "gone"}] /\ users \subseteq Sid
      /\ exit \in [Exits -> ExitSteps] /\ \A s \in Sid : <<s, "bye">> \in Exits
  BY ExitOf DEF DocType
<1>2. ASSUME users' \subseteq users, UNCHANGED client, missed \subseteq missed',
             \A s \in Sid : exit'[<<s, "bye">>] = exit[<<s, "bye">>]
      PROVE  LeavesUsers' /\ OneBye'
  BY <1>1, <1>2 DEF LeavesUsers, OneBye
<1>3. ASSUME NEW s \in Sid, add_user(s) PROVE LeavesUsers' /\ OneBye'
  <2>1. /\ UNCHANGED <<client, exit>> /\ users' = users \cup {s}
        /\ missed' = IF client[s] = "gone" THEN missed \cup {s} ELSE missed
    BY <1>3 DEF add_user, clients
  <2> QED
    BY <2>1 DEF LeavesUsers, OneBye
<1>4. ASSUME NEW s \in Sid,
             \/ enter_room(s) \/ get_updates(s) \/ Push(s) \/ Count(s) \/ ReadRange(s)
             \/ Compact(s) \/ Emit(s) \/ Join(s) \/ \E u \in Update : Edit(s, u)
      PROVE  UNCHANGED <<users, exit, missed>>
  BY <1>4 DEF enter_room, get_updates, Push, Count, ReadRange, Compact, Emit, Join, Edit, doc,
              history
<1>5. ASSUME NEW s \in Sid,
             \/ enter_room(s) \/ get_updates(s) \/ Push(s) \/ Count(s) \/ ReadRange(s)
             \/ Compact(s) \/ Emit(s) \/ \E u \in Update : Edit(s, u)
      PROVE  LeavesUsers' /\ OneBye'
  <2>1. UNCHANGED client
    BY <1>5 DEF enter_room, get_updates, Push, Count, ReadRange, Compact, Emit, Edit, clients
  <2> QED
    BY <1>2, <1>4, <1>5, <2>1
<1>6. ASSUME NEW s \in Sid, Join(s) PROVE LeavesUsers' /\ OneBye'
  <2>1. client[s] = "away" /\ client' = [client EXCEPT ![s] = "in"]
    BY <1>6 DEF Join
  <2> QED
    BY <1>1, <1>4, <1>6, <2>1 DEF LeavesUsers, OneBye
<1>7. ASSUME NEW s \in Sid, Leave(s) PROVE LeavesUsers' /\ OneBye'
  <2>1. /\ client[s] = "in" /\ client' = [client EXCEPT ![s] = "away"]
        /\ exit' = [exit EXCEPT ![<<s, "leave">>] = "remove"] /\ UNCHANGED <<users, missed>>
    BY <1>7 DEF Leave, Step, doc, history
  <2>2. \A t \in Sid : exit'[<<t, "bye">>] = exit[<<t, "bye">>]
    BY <1>1, <2>1
  <2> QED
    BY <1>1, <2>1, <2>2 DEF LeavesUsers, OneBye
<1>8. ASSUME NEW s \in Sid, Disconnect(s) PROVE LeavesUsers' /\ OneBye'
  <2>1. /\ client' = [client EXCEPT ![s] = "gone"] /\ UNCHANGED users
        /\ \/ exit' = [exit EXCEPT ![<<s, "bye">>] = "scan"] /\ missed' = missed
           \/ exit' = [exit EXCEPT ![<<s, "bye">>] = "drop"] /\ missed' = missed \cup {s}
    BY <1>8 DEF Disconnect, Step, doc
  <2>2. /\ \A t \in Sid \ {s} : exit'[<<t, "bye">>] = exit[<<t, "bye">>]
        /\ exit'[<<s, "bye">>] = "scan" \/ s \in missed'
    BY <1>1, <2>1
  <2> QED
    BY <1>1, <2>1, <2>2 DEF LeavesUsers, OneBye
<1>9. ASSUME NEW s \in Sid, Scan(s) PROVE LeavesUsers' /\ OneBye'
  <2>1. /\ UNCHANGED <<client, users, missed>> /\ exit[<<s, "bye">>] = "scan"
        /\ exit' = [exit EXCEPT ![<<s, "bye">>] = IF users = {} THEN "drop" ELSE "remove"]
    BY <1>9 DEF Scan, Step, doc, clients, history
  <2>2. /\ \A t \in Sid \ {s} : exit'[<<t, "bye">>] = exit[<<t, "bye">>]
        /\ users # {} => exit'[<<s, "bye">>] = "remove"
    BY <1>1, <2>1
  <2> QED
    BY <1>1, <2>1, <2>2 DEF LeavesUsers, OneBye
<1>10. ASSUME NEW s \in Sid, Exists(s) PROVE LeavesUsers' /\ OneBye'
  <2>1. /\ UNCHANGED <<client, users, missed>>
        /\ \E next : exit' = [exit EXCEPT ![<<s, "leave">>] = next]
    BY <1>10 DEF Exists, Step, doc, clients, history
  <2>2. \A t \in Sid : exit'[<<t, "bye">>] = exit[<<t, "bye">>]
    BY <1>1, <2>1
  <2> QED
    BY <1>2, <2>1, <2>2
<1>11. ASSUME NEW s \in Sid, Drop(s) PROVE LeavesUsers' /\ OneBye'
  <2>1. /\ UNCHANGED <<client, users, missed>> /\ exit[<<s, "bye">>] = "drop"
        /\ exit' = [exit EXCEPT ![<<s, "bye">>] = "idle"]
    BY <1>11 DEF Drop, Step, doc, clients, history
  <2>2. /\ \A t \in Sid \ {s} : exit'[<<t, "bye">>] = exit[<<t, "bye">>]
        /\ exit'[<<s, "bye">>] = "idle"
    BY <1>1, <2>1
  <2> QED
    BY <1>1, <2>1, <2>2 DEF LeavesUsers, OneBye
<1>12. ASSUME NEW x \in Exits, Clearing(x) PROVE LeavesUsers' /\ OneBye'
  <2>1. PICK s \in Sid, how \in {"leave", "bye"} : x = <<s, how>>
    BY DEF Exits
  <2>2. x[1] = s /\ x[2] = how
    BY <2>1
  <2>3. /\ UNCHANGED client /\ missed' = missed /\ users' \subseteq users
        /\ exit[x] # "scan" /\ exit[x] # "idle"
        /\ exit[x] = "remove" => users' = users \ {s}
        /\ \E next : exit' = [exit EXCEPT ![x] = next]
    BY <1>12, <2>2 DEF Clearing, remove_user, get_users, ClearUpdates, ClearUsers, Step, Done,
                       doc, clients, history
  <2>4. /\ \A y \in Exits \ {x} : exit'[y] = exit[y]
        /\ \A t \in Sid : <<t, "bye">> = x => t = s
    BY <1>1, <2>1, <2>3
  <2>5. OneBye'
    BY <1>1, <2>3, <2>4 DEF OneBye
  <2>6. ASSUME NEW t \in users', client'[t] = "gone"
        PROVE  t \in missed' \/ exit'[<<t, "bye">>] \in {"scan", "remove"}
    <3>1. t \in users /\ client[t] = "gone" /\ t \in Sid
      BY <1>1, <2>3, <2>6
    <3>2. CASE <<t, "bye">> = x
      BY <2>3, <2>4, <2>6, <3>1, <3>2 DEF LeavesUsers
    <3>3. CASE <<t, "bye">> # x
      BY <1>1, <2>3, <2>4, <3>1, <3>3 DEF LeavesUsers
    <3> QED
      BY <3>2, <3>3
  <2> QED
    BY <2>5, <2>6 DEF LeavesUsers
<1>13. CASE UNCHANGED vars \/ \E u \in Update : debounced_save(u)
  <2>1. UNCHANGED <<users, client, missed, exit>>
    BY <1>13 DEF vars, debounced_save, doc, clients, history
  <2> QED
    BY <1>2, <2>1
<1> QED
  BY <1>3, <1>5, <1>6, <1>7, <1>8, <1>9, <1>10, <1>11, <1>12, <1>13
     DEF Next, Client, Handler

-----------------------------------------------------------------------------
(* The last one out clears. *)

\* Nothing is added, no user goes, and who looks keeps looking.
LEMMA StillCleared ==
  ASSUME WillBeCleared,
         \A u \in Contents(log)' : u \in Contents(log) \/ u \in restored' \/ u \in stray'
                                   \/ users' # {},
         stray \subseteq stray', restored \subseteq restored',
         users # {} => \/ users' # {} \/ \E x \in Exits : Looks(x)',
         \A x \in Exits : Looks(x) => Looks(x)'
  PROVE  WillBeCleared'
  BY DEF WillBeCleared

LEMMA ClearedStep ==
  ASSUME DocType, OneBye, WillBeCleared, [Next]_vars
  PROVE  WillBeCleared'
<1>1. /\ log \in Seq(SUBSET Update) /\ \A s \in Sid : read[s] \in Seq(SUBSET Update)
      /\ exit \in [Exits -> ExitSteps]
      /\ \A s \in Sid : <<s, "bye">> \in Exits /\ <<s, "leave">> \in Exits
  BY ExitOf DEF DocType
<1>2. ASSUME users \subseteq users', UNCHANGED <<log, stray, restored>>,
             \A x \in Exits : Looks(x) => exit'[x] = exit[x]
      PROVE  WillBeCleared'
  BY <1>2, StillCleared DEF Looks
<1>3. ASSUME NEW s \in Sid,
             \/ add_user(s) \/ enter_room(s) \/ get_updates(s) \/ Count(s) \/ ReadRange(s)
             \/ Emit(s) \/ Join(s) \/ \E u \in Update : Edit(s, u)
      PROVE  WillBeCleared'
  <2>1. users \subseteq users' /\ UNCHANGED <<log, stray, restored, exit>>
    BY <1>3 DEF add_user, enter_room, get_updates, Count, ReadRange, Emit, Join, Edit, doc, history
  <2> QED
    BY <1>2, <2>1
<1>4. ASSUME NEW s \in Sid, Push(s) PROVE WillBeCleared'
  <2>1. /\ UNCHANGED <<users, exit, restored>> /\ log' = Append(log, {work[s]})
        /\ stray' = IF s \in users THEN stray ELSE stray \cup {work[s]}
        /\ {work[s]} \in SUBSET Update
    BY <1>4 DEF Push, DocType
  <2>2. Contents(log') = Contents(log) \cup {work[s]}
    BY <1>1, <2>1, AppendContents
  <2> QED
    BY <2>1, <2>2, StillCleared DEF Looks
<1>5. ASSUME NEW s \in Sid, Compact(s) PROVE WillBeCleared'
  <2>1. /\ UNCHANGED <<users, exit, stray>> /\ log' = Compacted(read[s])
        /\ restored' = restored \cup (Contents(read[s]) \ Contents(log))
    BY <1>5 DEF Compact
  <2>2. Contents(log') = Contents(read[s])
    BY <1>1, <2>1, CompactedContents
  <2> QED
    BY <2>1, <2>2, StillCleared DEF Looks
<1>6. ASSUME NEW s \in Sid, Leave(s) \/ Disconnect(s) \/ Scan(s) \/ Drop(s)
      PROVE  WillBeCleared'
  <2>1. UNCHANGED <<log, users, stray, restored>>
    BY <1>6 DEF Leave, Disconnect, Scan, Drop, doc, history
  <2>2. PICK x \in Exits : ~Looks(x) /\ \E next : exit' = [exit EXCEPT ![x] = next]
    BY <1>1, <1>6 DEF Leave, Disconnect, Scan, Drop, Step, Looks, OneBye
  <2>3. \A y \in Exits : Looks(y) => exit'[y] = exit[y]
    BY <1>1, <2>2
  <2> QED
    BY <1>2, <2>1, <2>3
<1>7. ASSUME NEW s \in Sid, Exists(s) PROVE WillBeCleared'
  <2>1. /\ UNCHANGED <<log, users, stray, restored>>
        /\ exit' = [exit EXCEPT ![<<s, "leave">>] = IF log # <<>> THEN "members" ELSE "idle"]
    BY <1>7 DEF Exists, Step, doc, history
  <2>2. CASE log # <<>>
    <3>1. \A x \in Exits : Looks(x) => Looks(x)'
      BY <1>1, <2>1, <2>2 DEF Looks
    <3> QED
      BY <2>1, <3>1, StillCleared
  <2>3. CASE log = <<>>
    BY <2>1, <2>3, NoContents DEF WillBeCleared
  <2> QED
    BY <2>2, <2>3
<1>8. ASSUME NEW x \in Exits, remove_user(x) PROVE WillBeCleared'
  <2>1. /\ UNCHANGED <<log, stray, restored>>
        /\ \E next \in {"members", "exists"} : exit' = [exit EXCEPT ![x] = next]
    BY <1>8 DEF remove_user, Step, history
  <2>2. Looks(x)' /\ \A y \in Exits : Looks(y) => Looks(y)'
    BY <1>1, <2>1 DEF Looks
  <2> QED
    BY <2>1, <2>2, StillCleared
<1>9. ASSUME NEW x \in Exits, get_users(x) PROVE WillBeCleared'
  <2>1. UNCHANGED <<log, users, stray, restored>>
    BY <1>9 DEF get_users, doc, history
  <2>2. CASE users = {}
    <3>1. exit' = [exit EXCEPT ![x] = "clear"]
      BY <1>9, <2>2 DEF get_users, Step
    <3>2. \A y \in Exits : Looks(y) => Looks(y)'
      BY <1>1, <3>1 DEF Looks
    <3> QED
      BY <2>1, <3>2, StillCleared
  <2>3. CASE users # {}
    BY <2>1, <2>3 DEF WillBeCleared
  <2> QED
    BY <2>2, <2>3
<1>10. ASSUME NEW x \in Exits, ClearUpdates(x) PROVE WillBeCleared'
  BY <1>10, NoContents DEF ClearUpdates, WillBeCleared
<1>11. ASSUME NEW x \in Exits, ClearUsers(x) PROVE WillBeCleared'
  BY <1>11 DEF ClearUsers, WillBeCleared
<1>12. CASE UNCHANGED vars \/ \E u \in Update : debounced_save(u)
  <2>1. UNCHANGED <<log, users, exit, stray, restored>>
    BY <1>12 DEF vars, debounced_save, doc, history
  <2> QED
    BY <1>2, <2>1
<1> QED
  BY <1>3, <1>4, <1>5, <1>6, <1>7, <1>8, <1>9, <1>10, <1>11, <1>12
     DEF Next, Client, Handler, Clearing

-----------------------------------------------------------------------------
(* Everything in the document was made by a client. *)

LEMMA InMade == ASSUME NEW u PROVE u \in Made <=> \E s \in Sid : u \in seen[s]
  BY DEF Made

\* A client forgets nothing.
LEMMA SeenGrows ==
  ASSUME DocType, [Next]_vars
  PROVE  \A s \in Sid : seen[s] \subseteq seen'[s]
<1>1. seen \in [Sid -> SUBSET Update]
  BY DEF DocType
<1>2. ASSUME NEW s \in Sid, get_updates(s) \/ Emit(s) \/ \E u \in Update : Edit(s, u)
      PROVE  \A t \in Sid : seen[t] \subseteq seen'[t]
  BY <1>1, <1>2 DEF get_updates, Emit, Edit
<1>3. ASSUME NEW s \in Sid,
             \/ add_user(s) \/ enter_room(s) \/ Push(s) \/ Count(s) \/ ReadRange(s) \/ Compact(s)
             \/ Join(s) \/ Leave(s) \/ Disconnect(s) \/ Scan(s) \/ Exists(s) \/ Drop(s)
      PROVE  UNCHANGED seen
  BY <1>3 DEF add_user, enter_room, Push, Count, ReadRange, Compact, Join, Leave, Disconnect, Scan,
              Exists, Drop, clients
<1>4. ASSUME NEW x \in Exits, Clearing(x) PROVE UNCHANGED seen
  BY <1>4 DEF Clearing, remove_user, get_users, ClearUpdates, ClearUsers, clients
<1>5. ASSUME UNCHANGED vars \/ \E u \in Update : debounced_save(u) PROVE UNCHANGED seen
  BY <1>5 DEF vars, debounced_save, clients
<1> QED
  BY <1>2, <1>3, <1>4, <1>5 DEF Next, Client, Handler

LEMMA MadeGrows == ASSUME DocType, [Next]_vars PROVE Made \subseteq Made'
  BY SeenGrows DEF Made

LEMMA MadeStep ==
  ASSUME DocType, MadeByClients, [Next]_vars
  PROVE  MadeByClients'
<1>1. /\ edit \in [Sid -> {"idle", "push", "count", "range", "write", "emit"}]
      /\ work \in [Sid -> Update \cup {Nothing}]
      /\ log \in Seq(SUBSET Update) /\ read \in [Sid -> Seq(SUBSET Update)]
      /\ seen \in [Sid -> SUBSET Update] /\ seen' \in [Sid -> SUBSET Update]
      /\ \A s \in Sid : edit[s] # "idle" => work[s] \in Update
  BY DocTypeStep DEF DocType
<1>2. /\ \A s \in Sid : seen[s] \subseteq seen'[s]
      /\ Made \subseteq Made'
  BY SeenGrows, MadeGrows
<1>3. /\ Contents(log) \subseteq Made'
      /\ \A s \in Sid : Contents(read[s]) \subseteq Made'
      /\ \A s \in Sid : edit[s] # "idle" => work[s] \in seen'[s] /\ work[s] \in Made
  BY <1>2, InMade DEF MadeByClients
<1>4. ASSUME Contents(log') \subseteq Made',
             \A s \in Sid : read'[s] = read[s] \/ Contents(read'[s]) \subseteq Made',
             \A s \in Sid : edit'[s] # "idle" => edit[s] # "idle" /\ work'[s] = work[s]
      PROVE  MadeByClients'
  BY <1>3, <1>4 DEF MadeByClients
<1>5. ASSUME NEW s \in Sid, NEW u \in Update, Edit(s, u) PROVE MadeByClients'
  <2>1. /\ UNCHANGED <<log, read>> /\ seen' = [seen EXCEPT ![s] = @ \cup {u}]
        /\ work' = [work EXCEPT ![s] = u] /\ edit' = [edit EXCEPT ![s] = "push"]
    BY <1>5 DEF Edit, doc
  <2>2. \A t \in Sid : edit'[t] # "idle" => work'[t] \in seen'[t]
    BY <1>1, <1>3, <2>1
  <2> QED
    BY <1>3, <2>1, <2>2 DEF MadeByClients
<1>6. ASSUME NEW s \in Sid, Push(s) PROVE MadeByClients'
  <2>1. /\ UNCHANGED <<read, work>> /\ log' = Append(log, {work[s]}) /\ edit[s] = "push"
        /\ edit' = [edit EXCEPT ![s] = "count"]
    BY <1>6 DEF Push
  <2>2. {work[s]} \in SUBSET Update
    BY <1>1, <2>1
  <2>3. Contents(log') = Contents(log) \cup {work[s]} /\ work[s] \in Made'
    BY <1>1, <1>2, <1>3, <2>1, <2>2, AppendContents
  <2> QED
    BY <1>1, <1>3, <1>4, <2>1, <2>3
<1>7. ASSUME NEW s \in Sid, Count(s) \/ ReadRange(s) PROVE MadeByClients'
  <2>1. /\ UNCHANGED <<log, work>> /\ edit[s] # "idle"
        /\ \E next \in {"range", "emit", "write"} : edit' = [edit EXCEPT ![s] = next]
        /\ read' = read \/ read' = [read EXCEPT ![s] = log]
    BY <1>7 DEF Count, ReadRange, doc
  <2>2. \A t \in Sid : read'[t] = read[t] \/ Contents(read'[t]) \subseteq Made'
    BY <1>1, <1>3, <2>1
  <2> QED
    BY <1>1, <1>3, <1>4, <2>1, <2>2
<1>8. ASSUME NEW s \in Sid, Compact(s) PROVE MadeByClients'
  <2>1. /\ UNCHANGED work /\ log' = Compacted(read[s]) /\ edit[s] = "write"
        /\ read' = [read EXCEPT ![s] = <<>>] /\ edit' = [edit EXCEPT ![s] = "emit"]
    BY <1>8 DEF Compact
  <2>2. Contents(log') \subseteq Made'
    BY <1>1, <1>3, <2>1, CompactedContents
  <2>3. \A t \in Sid : read'[t] = read[t] \/ Contents(read'[t]) \subseteq Made'
    BY <1>1, <2>1, NoContents
  <2> QED
    BY <1>1, <1>4, <2>1, <2>2, <2>3
<1>9. ASSUME NEW s \in Sid, Emit(s) PROVE MadeByClients'
  <2>1. /\ UNCHANGED log /\ work' = [work EXCEPT ![s] = Nothing]
        /\ read' = [read EXCEPT ![s] = <<>>] /\ edit' = [edit EXCEPT ![s] = "idle"]
    BY <1>9 DEF Emit, doc
  <2>2. \A t \in Sid : read'[t] = read[t] \/ Contents(read'[t]) \subseteq Made'
    BY <1>1, <2>1, NoContents
  <2> QED
    BY <1>1, <1>3, <1>4, <2>1, <2>2
<1>10. ASSUME NEW x \in Exits, Clearing(x) PROVE MadeByClients'
  <2>1. UNCHANGED <<edit, work, read>> /\ log' \in {log, <<>>}
    BY <1>10 DEF Clearing, remove_user, get_users, ClearUpdates, ClearUsers, doc, editor
  <2>2. Contents(log') \subseteq Made'
    BY <1>3, <2>1, NoContents
  <2> QED
    BY <1>4, <2>1, <2>2
<1>11. ASSUME UNCHANGED <<log, edit, work, read>> PROVE MadeByClients'
  BY <1>3, <1>4, <1>11
<1>12. ASSUME NEW s \in Sid,
              \/ add_user(s) \/ enter_room(s) \/ get_updates(s) \/ Join(s) \/ Leave(s)
              \/ Disconnect(s) \/ Scan(s) \/ Exists(s) \/ Drop(s)
       PROVE  MadeByClients'
  BY <1>11, <1>12 DEF add_user, enter_room, get_updates, Join, Leave, Disconnect, Scan, Exists,
                      Drop, doc, editor
<1>13. CASE UNCHANGED vars \/ \E u \in Update : debounced_save(u)
  BY <1>11, <1>13 DEF vars, debounced_save, doc, editor
<1> QED
  BY <1>5, <1>6, <1>7, <1>8, <1>9, <1>10, <1>12, <1>13 DEF Next, Client, Handler

-----------------------------------------------------------------------------
(* An edit is saved. *)

\* Nothing new is made; what was being saved is, or has been.
LEMMA StillSaved ==
  ASSUME WillBeSaved, Made' \subseteq Made, Made \subseteq Made',
         note # Nothing => note' # Nothing,
         saves # {} => saves' # {} \/ note' # Nothing,
         \A s \in Sid : edit[s] # "idle" => edit'[s] # "idle"
  PROVE  WillBeSaved'
  BY DEF WillBeSaved

LEMMA SavedStep ==
  ASSUME DocType, MadeByClients, WillBeSaved, [Next]_vars
  PROVE  WillBeSaved'
<1>1. /\ edit \in [Sid -> {"idle", "push", "count", "range", "write", "emit"}]
      /\ seen \in [Sid -> SUBSET Update]
      /\ saves \subseteq Update
  BY DEF DocType
<1>2. Made \subseteq Made'
  BY MadeGrows
<1>3. ASSUME UNCHANGED <<seen, saves, note>>,
             \A s \in Sid : edit[s] # "idle" => edit'[s] # "idle"
      PROVE  WillBeSaved'
  <2>1. Made' = Made
    BY <1>3 DEF Made
  <2> QED
    BY <1>3, <2>1, StillSaved
<1>4. ASSUME NEW s \in Sid,
             \/ add_user(s) \/ enter_room(s) \/ Join(s) \/ Leave(s) \/ Disconnect(s)
             \/ Scan(s) \/ Exists(s) \/ Drop(s)
      PROVE  WillBeSaved'
  BY <1>3, <1>4 DEF add_user, enter_room, Join, Leave, Disconnect, Scan, Exists, Drop, clients,
                    editor, saving
<1>5. ASSUME NEW s \in Sid, Push(s) \/ Count(s) \/ ReadRange(s) \/ Compact(s) PROVE WillBeSaved'
  <2>1. /\ UNCHANGED <<seen, saves, note>>
        /\ \E next \in {"count", "range", "emit", "write"} : edit' = [edit EXCEPT ![s] = next]
    BY <1>5 DEF Push, Count, ReadRange, Compact, clients, saving
  <2> QED
    BY <1>1, <1>3, <2>1
<1>6. ASSUME NEW s \in Sid, get_updates(s) PROVE WillBeSaved'
  <2>1. /\ UNCHANGED <<edit, saves, note>>
        /\ seen' = [seen EXCEPT ![s] = @ \cup Contents(log)]
    BY <1>6 DEF get_updates, editor, saving
  <2>2. Contents(log) \subseteq Made
    BY DEF MadeByClients
  <2>3. Made' \subseteq Made
    BY <1>1, <2>1, <2>2 DEF Made
  <2> QED
    BY <1>2, <2>1, <2>3, StillSaved
<1>7. ASSUME NEW s \in Sid, NEW u \in Update, Edit(s, u) PROVE WillBeSaved'
  <2>1. edit'[s] = "push"
    BY <1>1, <1>7 DEF Edit
  <2> QED
    BY <2>1 DEF WillBeSaved
<1>8. ASSUME NEW s \in Sid, Emit(s) PROVE WillBeSaved'
  <2>1. edit[s] = "emit" /\ saves' = saves \cup ({work[s]} \cap WithData)
    BY <1>8 DEF Emit
  <2>2. work[s] \in Made'
    BY <1>2, <2>1, InMade DEF MadeByClients
  <2> QED
    BY <2>1, <2>2 DEF WillBeSaved
<1>9. ASSUME NEW u \in Update, debounced_save(u) PROVE WillBeSaved'
  BY <1>9, YdocAssumption DEF debounced_save, WillBeSaved
<1>10. ASSUME NEW x \in Exits, Clearing(x) PROVE WillBeSaved'
  BY <1>3, <1>10 DEF Clearing, remove_user, get_users, ClearUpdates, ClearUsers, clients, editor,
                     saving
<1>11. CASE UNCHANGED vars
  BY <1>3, <1>11 DEF vars, clients, editor, saving
<1> QED
  BY <1>4, <1>5, <1>6, <1>7, <1>8, <1>9, <1>10, <1>11 DEF Next, Client, Handler

-----------------------------------------------------------------------------
LEMMA DocInit == Init => DocInv
<1> SUFFICES ASSUME Init PROVE DocInv
  OBVIOUS
<1>1. DocType
  BY DEF Init, DocType, ExitSteps
<1>2. Contents(log) = {} /\ \A s \in Sid : Contents(read[s]) = {}
  BY NoContents DEF Init
<1>3. MembersAreUpToDate /\ LeavesUsers
  BY DEF Init, MembersAreUpToDate, LeavesUsers
<1>4. OneBye
  BY ExitOf DEF Init, OneBye
<1>5. WillBeCleared /\ MadeByClients
  BY <1>2 DEF Init, WillBeCleared, MadeByClients
<1>6. Made = {}
  BY DEF Init, Made
<1>7. WillBeSaved
  BY <1>6 DEF WillBeSaved
<1> QED
  BY <1>1, <1>3, <1>4, <1>5, <1>7 DEF DocInv

(* Every reachable state of a document, its members and the handlers of    *)
(* their sessions agrees as DocInv says: which update is on its way to     *)
(* whom, who is still to remove a user, to clear or to save.               *)
THEOREM DocInvariant == Spec => []DocInv
<1>1. DocInv /\ [Next]_vars => DocInv'
  BY DocTypeStep, MembersStep, LeavesStep, ClearedStep, MadeStep, SavedStep DEF DocInv
<1> QED
  BY DocInit, <1>1, PTL DEF Spec

(* A client that has joined has every update of the document or will get   *)
(* it: no update falls between the state a joiner is sent and the          *)
(* broadcasts after it, however many handlers interleave.                  *)
THEOREM JoinersMissNothing == Spec => []MembersAreUpToDate
<1>1. DocInv => MembersAreUpToDate
  BY DEF DocInv
<1> QED
  BY DocInvariant, <1>1, PTL

(* disconnect removes the session from the users of the document, whatever *)
(* the handlers of the other sessions clear and re-create meanwhile.       *)
THEOREM GoneAreRemoved == Spec => []GoneIsRemoved
<1>1. DocInv => GoneIsRemoved
  BY DEF DocInv, LeavesUsers, GoneIsRemoved, Idle
<1> QED
  BY DocInvariant, <1>1, PTL

(* When all have left, in any order and at once, the document is cleared   *)
(* of all that a clean-up could look for: somebody found no user left.     *)
THEOREM LastClears == Spec => []LastOneOutClears
<1>1. ASSUME DocInv, Quiet, users = {}
      PROVE  Contents(log) \subseteq stray \cup restored
  <2>1. ASSUME NEW x \in Exits PROVE exit[x] = "idle"
    <3>1. PICK s \in Sid, how \in {"leave", "bye"} : x = <<s, how>>
      BY DEF Exits
    <3> QED
      BY <1>1, <3>1 DEF Quiet, Idle
  <2>2. \A x \in Exits : ~Looks(x)
    BY <2>1 DEF Looks
  <2> QED
    BY <1>1, <2>2 DEF DocInv, WillBeCleared
<1>2. DocInv => LastOneOutClears
  BY <1>1 DEF LastOneOutClears
<1> QED
  BY DocInvariant, <1>2, PTL

(* Updates cancel the saves of the ones before them, and the cancelled one *)
(* is always followed by a save of its own: the note gets written.         *)
THEOREM EditsAreSaved == Spec => []AnEditIsSaved
<1>1. DocInv => AnEditIsSaved
  BY DEF DocInv, WillBeSaved, AnEditIsSaved, Quiet, Idle
<1> QED
  BY DocInvariant, <1>1, PTL

-----------------------------------------------------------------------------
(* tasks.py in one process.                                                *)

\* Ids are in the dictionaries from their creation on, and nobody asked for
\* the cancellation of one that is in `tasks'.
TasksAreBorn ==
  /\ \A t \in tasks : coro[t] \in {"running", "ended", "failed"}
  /\ \A k \in Key : \A j \in DOMAIN item_tasks[k] : coro[item_tasks[k][j]] # "unborn"

RunningIsKnown == \A t \in Task : coro[t] = "running" => t \in tasks

\* cleanup_task comes after the end.
CleanIsOver == \A t \in Task : clean[t] # "no" => ~Live(t) /\ coro[t] # "unborn"

\* A stopper waits for, or answered of, a task there was.
StoppersHold ==
  \A s \in Stopper :
    /\ cur[s] \in Task => coro[cur[s]] # "unborn"
    /\ pc[s] = "waiting" \/ answer[s] \in {"stopped", "notfound"} => cur[s] \in Task

MemoryInv ==
  /\ MemoryTypeOK /\ TasksAreBorn /\ RunningIsKnown /\ CleanIsOver /\ StoppersHold
  /\ AnswersAreTrue

-----------------------------------------------------------------------------
\* A set of positions has a first one.
LEMMA LeastOf ==
  ASSUME NEW T \in SUBSET Nat, T # {}
  PROVE  \E x \in T : \A y \in T : x <= y
<1>1. PICK x \in T : \A y \in T : <<y, x>> \notin OpToRel(<, Nat)
  BY WFMin, NatLessThanWellFounded, Zenon
<1>2. \A y \in T : ~(y < x)
  BY <1>1, Zenon DEF OpToRel
<1> QED
  BY <1>2

\* What list.remove leaves of a list.
LEMMA Removed ==
  ASSUME NEW S, NEW l \in Seq(S), NEW e
  PROVE  /\ RemoveFirst(l, e) \in Seq(S)
         /\ \A j \in DOMAIN RemoveFirst(l, e) :
              \E i \in DOMAIN l : RemoveFirst(l, e)[j] = l[i]
<1>1. CASE ~\E i \in 1..Len(l) : l[i] = e
  BY <1>1 DEF RemoveFirst
<1>2. CASE \E i \in 1..Len(l) : l[i] = e
  <2> DEFINE I == {i \in 1..Len(l) : l[i] = e}
             k == CHOOSE x \in I : \A y \in I : x <= y
  <2>1. k \in I
    <3>1. I \subseteq Nat /\ I # {}
      BY <1>2
    <3>2. \E x \in I : \A y \in I : x <= y
      BY <3>1, LeastOf
    <3> QED
      BY <3>2
  <2>2. RemoveFirst(l, e) = SubSeq(l, 1, k - 1) \o SubSeq(l, k + 1, Len(l))
    BY <1>2 DEF RemoveFirst, RemoveAt, SelectInSeq, Min
  <2> HIDE DEF k
  <2>3. k \in 1..Len(l)
    BY <2>1
  <2> DEFINE a == SubSeq(l, 1, k - 1)
             b == SubSeq(l, k + 1, Len(l))
  <2>4. a \in Seq(S) /\ Len(a) = k - 1 /\ \A j \in 1..(k - 1) : a[j] = l[j]
    BY <2>3
  <2>5. b \in Seq(S) /\ Len(b) = Len(l) - k /\ \A j \in 1..(Len(l) - k) : b[j] = l[k + j]
    BY <2>3
  <2> HIDE DEF a, b
  <2>6. a \o b \in Seq(S) /\ DOMAIN (a \o b) = 1..(Len(l) - 1)
    BY <2>3, <2>4, <2>5
  <2>7. ASSUME NEW j \in 1..(Len(l) - 1) PROVE \E i \in DOMAIN l : (a \o b)[j] = l[i]
    <3>1. CASE j <= k - 1
      <4>1. (a \o b)[j] = a[j]
        BY <2>3, <2>4, <2>5, <3>1
      <4>2. a[j] = l[j] /\ j \in DOMAIN l
        BY <2>3, <2>4, <3>1
      <4> QED
        BY <4>1, <4>2
    <3>2. CASE j > k - 1
      <4>1. PICK i \in 1..(Len(l) - k) : i = j - (k - 1)
        BY <2>3, <3>2
      <4>2. (a \o b)[j] = b[i]
        BY <2>3, <2>4, <2>5, <3>2, <4>1
      <4>3. b[i] = l[k + i] /\ k + i \in DOMAIN l
        BY <2>3, <2>5, <4>1
      <4> QED
        BY <4>2, <4>3
    <3>3. j <= k - 1 \/ j > k - 1
      BY <2>3
    <3> QED
      BY <3>1, <3>2, <3>3, Zenon
  <2> QED
    BY <2>2, <2>6, <2>7 DEF a, b
<1> QED
  BY <1>1, <1>2

-----------------------------------------------------------------------------
(* What a stopper does.                                                    *)

Over(gone) == gone \subseteq Task /\ \A t \in gone : ~Live(t) /\ coro[t] # "unborn"

\* It answers, truly.
Answered(s) ==
  \E a \in {"stopped", "all", "notfound", "error"}, gone \in SUBSET Task :
    /\ Over(gone) /\ Answer(s, a, gone)
    /\ a \in {"stopped", "notfound"} => cur'[s] \in Task /\ coro[cur'[s]] # "running"
    /\ a = "stopped" => ~Live(cur'[s])

\* It waits for a task that ran until then.
Waits(s) ==
  \E t \in tasks, gone \in SUBSET Task :
    /\ Over(gone) /\ CancelAndWait(s, t, gone)
    /\ coro[t] = "running" /\ cur'[s] = t

\* Its other variables.
Position(s) ==
  /\ pos' \in [Stopper -> Nat]
  /\ cur' \in [Stopper -> Task \cup {NoTask}]
  /\ \A u \in Stopper \ {s} : cur'[u] = cur[u]
  /\ cur'[s] \in Task => coro[cur'[s]] # "unborn"

Stops(s) == Position(s) /\ (Answered(s) \/ Waits(s))

LEMMA StopsOne ==
  ASSUME MemoryInv, NEW s \in Stopper, NEW t \in Task, NEW gone \in SUBSET Task, Over(gone),
         t \in tasks => coro[t] # "ended", cur'[s] = t, StopOne(s, t, gone)
  PROVE  Answered(s) \/ Waits(s)
<1>1. CASE t \notin tasks
  <2>1. coro[t] # "running" /\ Answer(s, "notfound", gone)
    BY <1>1 DEF StopOne, MemoryInv, RunningIsKnown
  <2> QED
    BY <2>1 DEF Answered
<1>2. CASE t \in tasks /\ coro[t] = "failed"
  <2>1. Over(gone \cup {t}) /\ Answer(s, "error", gone \cup {t})
    BY <1>2 DEF StopOne, Over, Live
  <2> QED
    BY <2>1 DEF Answered
<1>3. CASE t \in tasks /\ coro[t] # "failed"
  <2>1. coro[t] = "running" /\ CancelAndWait(s, t, gone)
    BY <1>3 DEF StopOne, MemoryInv, TasksAreBorn
  <2> QED
    BY <1>3, <2>1 DEF Waits
<1> QED
  BY <1>1, <1>2, <1>3

LEMMA Iterates ==
  ASSUME MemoryInv, NEW s \in Stopper, NEW n \in Nat \ {0}, NEW l \in Seq(Task),
         \A j \in DOMAIN l : coro[l[j]] # "unborn", Iterate(s, l, n)
  PROVE  Stops(s)
<1> DEFINE stops == {j \in n..Len(l) : Halts(l[j])}
           first == CHOOSE j \in stops : \A h \in stops : j <= h
           passed(j) == {l[h] : h \in n..(j - 1)}
<1>1. \A h \in n..Len(l) : l[h] \in Task /\ coro[l[h]] # "unborn"
  OBVIOUS
<1>2. CASE stops = {}
  <2>1. Answer(s, "all", passed(Len(l) + 1)) /\ UNCHANGED <<pos, cur>>
    BY <1>2 DEF Iterate
  <2>2. Over(passed(Len(l) + 1))
    BY <1>1, <1>2 DEF Over, Halts
  <2>3. Position(s)
    BY <2>1 DEF Position, MemoryInv, MemoryTypeOK, StoppersHold
  <2> QED
    BY <2>1, <2>2, <2>3 DEF Stops, Answered
<1>3. CASE stops # {}
  <2>1. first \in stops /\ \A h \in stops : first <= h
    <3>1. stops \in SUBSET Nat
      OBVIOUS
    <3>2. \E j \in stops : \A h \in stops : j <= h
      <4> HIDE DEF stops
      <4> QED
        BY <1>3, <3>1, LeastOf
    <3> QED
      BY <3>2
  <2>2. /\ StopOne(s, l[first], passed(first))
        /\ pos' = [pos EXCEPT ![s] = first] /\ cur' = [cur EXCEPT ![s] = l[first]]
    BY <1>3 DEF Iterate
  <2> HIDE DEF first
  <2>3. first \in n..Len(l) /\ Halts(l[first]) /\ first \in Nat
    BY <2>1
  <2>4. Over(passed(first))
    <3>1. ASSUME NEW h \in n..(first - 1) PROVE h \in n..Len(l) /\ ~Halts(l[h])
      BY <2>1, <2>3, <3>1
    <3> QED
      BY <1>1, <3>1 DEF Over, Halts
  <2>5. PICK t \in Task : t = l[first] /\ coro[t] # "unborn"
    BY <1>1, <2>3
  <2>6. cur'[s] = t /\ Position(s)
    BY <2>2, <2>3, <2>5 DEF Position, MemoryInv, MemoryTypeOK
  <2>7. t \in tasks => coro[t] # "ended"
    BY <2>3, <2>5 DEF Halts, Live
  <2>8. PICK gone \in SUBSET Task : Over(gone) /\ StopOne(s, t, gone)
    BY <2>2, <2>4, <2>5 DEF Over
  <2> QED
    BY <2>6, <2>7, <2>8, StopsOne DEF Stops
<1> QED
  BY <1>2, <1>3

LEMMA ItemStops ==
  ASSUME MemoryInv, NEW s \in Stopper, NEW k \in Item, stop_item_tasks(s, k)
  PROVE  Stops(s)
<1>1. PICK l \in Seq(Task) : l = item_tasks[k]
  BY DEF MemoryInv, MemoryTypeOK, Key
<1>2. Iterate(s, l, 1) /\ \A j \in DOMAIN l : coro[l[j]] # "unborn"
  BY <1>1 DEF stop_item_tasks, MemoryInv, TasksAreBorn, Key
<1> QED
  BY <1>2, Iterates

LEMMA TaskStops ==
  ASSUME MemoryInv, NEW s \in Stopper, NEW t \in Task, stop_task(s, t)
  PROVE  Stops(s)
<1>1. cur'[s] = t /\ coro[t] # "unborn" /\ Position(s)
  BY DEF stop_task, Position, MemoryInv, MemoryTypeOK
<1>2. CASE t \in tasks /\ coro[t] = "ended"
  <2>1. Over({t}) /\ Answer(s, "stopped", {t})
    BY <1>2 DEF stop_task, Over, Live
  <2> QED
    BY <1>1, <1>2, <2>1 DEF Stops, Answered, Live
<1>3. CASE ~(t \in tasks /\ coro[t] = "ended")
  <2>1. StopOne(s, t, {}) /\ Over({})
    BY <1>3 DEF stop_task, Over
  <2> QED
    BY <1>1, <1>3, <2>1, StopsOne DEF Stops
<1> QED
  BY <1>2, <1>3

LEMMA Resumes ==
  ASSUME MemoryInv, NEW s \in Stopper, Resume(s)
  PROVE  Stops(s)
<1>1. cur[s] \in Task /\ coro[cur[s]] # "unborn" /\ ~Live(cur[s])
  BY DEF Resume, MemoryInv, StoppersHold
<1>2. Over({})
  BY DEF Over
<1>3. CASE coro[cur[s]] = "failed" \/ on[s] = NoItem
  <2>1. \/ Answer(s, "error", {})
        \/ Answer(s, "stopped", {})
    BY <1>3 DEF Resume
  <2>2. UNCHANGED <<pos, cur>>
    BY <1>3 DEF Resume
  <2>3. Position(s)
    BY <2>2 DEF Position, MemoryInv, MemoryTypeOK, StoppersHold
  <2> QED
    BY <1>1, <1>2, <2>1, <2>2, <2>3 DEF Stops, Answered, Live
<1>4. CASE coro[cur[s]] # "failed" /\ on[s] # NoItem
  <2>1. PICK l : l = IF attached[s] THEN item_tasks[on[s]] ELSE <<>>
    OBVIOUS
  <2>2. Iterate(s, l, pos[s] + 1) /\ pos[s] + 1 \in Nat \ {0}
    BY <1>4, <2>1 DEF Resume, MemoryInv, MemoryTypeOK
  <2>3. l \in Seq(Task) /\ \A j \in DOMAIN l : coro[l[j]] # "unborn"
    BY <2>1 DEF MemoryInv, MemoryTypeOK, TasksAreBorn
  <2> QED
    BY <2>2, <2>3, Iterates
<1> QED
  BY <1>3, <1>4

-----------------------------------------------------------------------------
(* The invariant. *)

LEMMA StopTypes ==
  ASSUME MemoryInv, NEW s \in Stopper,
         \/ \E k \in Item : stop_item_tasks(s, k)
         \/ \E t \in Task : stop_task(s, t)
         \/ Resume(s)
  PROVE  /\ UNCHANGED <<item, clean, item_tasks>>
         /\ on' \in [Stopper -> Key]
         /\ attached' \in [Stopper -> BOOLEAN]
         /\ listed' \in [Stopper -> SUBSET Task]
<1>1. ASSUME NEW k \in Item PROVE Members(item_tasks[k]) \subseteq Task
  BY DEF MemoryInv, MemoryTypeOK, Members, Key
<1>2. ASSUME NEW k \in Item, stop_item_tasks(s, k)
      PROVE  /\ UNCHANGED <<item, clean, item_tasks>>
             /\ on' = [on EXCEPT ![s] = k] /\ k \in Key
             /\ attached' = [attached EXCEPT ![s] = TRUE]
             /\ \E S \in SUBSET Task : listed' = [listed EXCEPT ![s] = S]
  BY <1>1, <1>2 DEF stop_item_tasks, Key
<1>3. ASSUME NEW t \in Task, stop_task(s, t)
      PROVE  /\ UNCHANGED <<item, clean, item_tasks>>
             /\ on' = [on EXCEPT ![s] = NoItem] /\ NoItem \in Key
             /\ attached' = [attached EXCEPT ![s] = FALSE]
             /\ listed' = [listed EXCEPT ![s] = {t}]
  BY <1>3 DEF stop_task, Key
<1>4. ASSUME Resume(s)
      PROVE  UNCHANGED <<item, clean, item_tasks, on, attached, listed>>
  BY <1>4 DEF Resume
<1>5. /\ on \in [Stopper -> Key] /\ attached \in [Stopper -> BOOLEAN]
      /\ listed \in [Stopper -> SUBSET Task]
  BY DEF MemoryInv, MemoryTypeOK
<1>6. CASE \E k \in Item : stop_item_tasks(s, k)
  <2>1. PICK k \in Item : stop_item_tasks(s, k)
    BY <1>6
  <2> QED
    BY <1>2, <1>5, <2>1
<1>7. CASE \E t \in Task : stop_task(s, t)
  <2>1. PICK t \in Task : stop_task(s, t)
    BY <1>7
  <2>2. {t} \in SUBSET Task
    OBVIOUS
  <2> QED
    BY <1>3, <1>5, <2>1, <2>2
<1>8. CASE Resume(s)
  BY <1>4, <1>5, <1>8
<1> QED
  BY <1>6, <1>7, <1>8

LEMMA StopKeeps ==
  ASSUME MemoryInv, NEW s \in Stopper, Stops(s),
         UNCHANGED <<item, clean, item_tasks>>,
         on' \in [Stopper -> Key], attached' \in [Stopper -> BOOLEAN],
         listed' \in [Stopper -> SUBSET Task]
  PROVE  MemoryInv'
<1>1. CASE Answered(s)
  <2>1. PICK a \in {"stopped", "all", "notfound", "error"}, gone \in SUBSET Task :
          /\ Over(gone) /\ Answer(s, a, gone)
          /\ a \in {"stopped", "notfound"} => cur'[s] \in Task /\ coro[cur'[s]] # "running"
          /\ a = "stopped" => ~Live(cur'[s])
    BY <1>1 DEF Answered
  <2>2. /\ tasks' = tasks \ gone /\ coro' = coro /\ asked' = asked
        /\ answer' = [answer EXCEPT ![s] = a] /\ pc' = [pc EXCEPT ![s] = "idle"]
    BY <2>1 DEF Answer
  <2>3. MemoryTypeOK'
    BY <2>2 DEF Stops, Position, MemoryInv, MemoryTypeOK
  <2>4. TasksAreBorn' /\ CleanIsOver'
    BY <2>2 DEF MemoryInv, TasksAreBorn, CleanIsOver, Live
  <2>5. RunningIsKnown'
    BY <2>1, <2>2 DEF MemoryInv, RunningIsKnown, Over, Live
  <2>6. StoppersHold'
    BY <2>1, <2>2 DEF Stops, Position, MemoryInv, MemoryTypeOK, StoppersHold
  <2>7. AnswersAreTrue'
    BY <2>1, <2>2 DEF Stops, Position, MemoryInv, MemoryTypeOK, AnswersAreTrue, Live
  <2> QED
    BY <2>3, <2>4, <2>5, <2>6, <2>7 DEF MemoryInv
<1>2. CASE Waits(s)
  <2>1. PICK t \in tasks, gone \in SUBSET Task : /\ Over(gone) /\ CancelAndWait(s, t, gone)
                                 /\ coro[t] = "running" /\ cur'[s] = t
    BY <1>2 DEF Waits
  <2>2. /\ tasks' = tasks \ (gone \cup {t}) /\ coro' = [coro EXCEPT ![t] = "cancelling"]
        /\ asked' = asked \cup {t} /\ pc' = [pc EXCEPT ![s] = "waiting"] /\ answer' = answer
        /\ t \in Task
    BY <2>1 DEF CancelAndWait, MemoryInv, MemoryTypeOK
  <2>3. MemoryTypeOK'
    BY <2>2 DEF Stops, Position, MemoryInv, MemoryTypeOK
  <2>4. TasksAreBorn' /\ CleanIsOver'
    BY <2>1, <2>2 DEF MemoryInv, MemoryTypeOK, TasksAreBorn, CleanIsOver, Live
  <2>5. RunningIsKnown'
    BY <2>1, <2>2 DEF MemoryInv, MemoryTypeOK, RunningIsKnown, Over, Live
  <2>6. StoppersHold'
    BY <2>1, <2>2 DEF Stops, Position, MemoryInv, MemoryTypeOK, StoppersHold
  <2>7. AnswersAreTrue'
    BY <2>1, <2>2 DEF Stops, Position, MemoryInv, MemoryTypeOK, StoppersHold, AnswersAreTrue, Live
  <2> QED
    BY <2>3, <2>4, <2>5, <2>6, <2>7 DEF MemoryInv
<1> QED
  BY <1>1, <1>2 DEF Stops

LEMMA CreateKeeps ==
  ASSUME MemoryInv, NEW t \in Task, NEW k \in Key, create_task(t, k)
  PROVE  MemoryInv'
<1>1. /\ coro[t] = "unborn" /\ coro' = [coro EXCEPT ![t] = "running"]
      /\ item' = [item EXCEPT ![t] = k] /\ tasks' = tasks \cup {t}
      /\ item_tasks' = [item_tasks EXCEPT ![k] = Append(@, t)]
      /\ UNCHANGED <<clean, stopVars, asked>>
  BY DEF create_task
<1>2. PICK l \in Seq(Task) : l = item_tasks[k]
  BY DEF MemoryInv, MemoryTypeOK
<1>3. /\ Append(l, t) \in Seq(Task) /\ DOMAIN Append(l, t) = 1..(Len(l) + 1)
      /\ \A j \in 1..Len(l) : Append(l, t)[j] = l[j]
      /\ Append(l, t)[Len(l) + 1] = t
  BY <1>2
<1>4. MemoryTypeOK'
  BY <1>1, <1>2, <1>3 DEF MemoryInv, MemoryTypeOK, stopVars
<1>5. TasksAreBorn'
  <2>1. \A u \in tasks' : coro'[u] \in {"running", "ended", "failed"}
    BY <1>1 DEF MemoryInv, MemoryTypeOK, TasksAreBorn
  <2>2. ASSUME NEW i \in Key, NEW j \in DOMAIN item_tasks'[i]
        PROVE  coro'[item_tasks'[i][j]] # "unborn"
    <3>1. CASE i = k
      <4>1. item_tasks'[i] = Append(l, t)
        BY <1>1, <1>2, <3>1 DEF MemoryInv, MemoryTypeOK
      <4>2. CASE j \in 1..Len(l)
        <5>1. item_tasks'[i][j] = l[j] /\ l[j] \in Task /\ coro[l[j]] # "unborn"
          BY <1>2, <1>3, <3>1, <4>1, <4>2 DEF MemoryInv, TasksAreBorn
        <5> QED
          BY <1>1, <5>1 DEF MemoryInv, MemoryTypeOK
      <4>3. CASE j = Len(l) + 1
        BY <1>1, <1>3, <4>1, <4>3 DEF MemoryInv, MemoryTypeOK
      <4> QED
        BY <1>2, <1>3, <2>2, <4>1, <4>2, <4>3
    <3>2. CASE i # k
      <4>1. item_tasks'[i] = item_tasks[i] /\ item_tasks[i] \in Seq(Task)
        BY <1>1, <3>2 DEF MemoryInv, MemoryTypeOK
      <4>2. item_tasks[i][j] \in Task /\ coro[item_tasks[i][j]] # "unborn"
        BY <2>2, <4>1 DEF MemoryInv, TasksAreBorn
      <4> QED
        BY <1>1, <4>1, <4>2 DEF MemoryInv, MemoryTypeOK
    <3> QED
      BY <3>1, <3>2
  <2> QED
    BY <2>1, <2>2 DEF TasksAreBorn
<1>6. RunningIsKnown' /\ CleanIsOver'
  BY <1>1 DEF MemoryInv, MemoryTypeOK, RunningIsKnown, CleanIsOver, Live
<1>7. StoppersHold'
  BY <1>1 DEF MemoryInv, MemoryTypeOK, StoppersHold, stopVars
<1>8. AnswersAreTrue'
  BY <1>1 DEF MemoryInv, MemoryTypeOK, StoppersHold, AnswersAreTrue, Live, stopVars
<1> QED
  BY <1>4, <1>5, <1>6, <1>7, <1>8 DEF MemoryInv

LEMMA EndKeeps ==
  ASSUME MemoryInv, NEW t \in Task, NEW how, how = "ended" \/ how = "failed", TaskEnds(t, how)
  PROVE  MemoryInv'
<1>1. /\ Live(t) /\ coro' = [coro EXCEPT ![t] = how] /\ clean' = [clean EXCEPT ![t] = "due"]
      /\ UNCHANGED <<item, tasks, item_tasks, stopVars, asked>>
  BY DEF TaskEnds
<1>2. MemoryTypeOK'
  BY <1>1 DEF MemoryInv, MemoryTypeOK, stopVars
<1>3. TasksAreBorn'
  <2>1. \A k \in Key : \A j \in DOMAIN item_tasks[k] : item_tasks[k][j] \in Task
    BY DEF MemoryInv, MemoryTypeOK
  <2> QED
    BY <1>1, <2>1 DEF MemoryInv, MemoryTypeOK, TasksAreBorn
<1>4. RunningIsKnown' /\ CleanIsOver'
  BY <1>1 DEF MemoryInv, MemoryTypeOK, RunningIsKnown, CleanIsOver, Live
<1>5. StoppersHold' /\ AnswersAreTrue'
  BY <1>1 DEF MemoryInv, MemoryTypeOK, StoppersHold, AnswersAreTrue, Live, stopVars
<1> QED
  BY <1>2, <1>3, <1>4, <1>5 DEF MemoryInv

LEMMA CleanupKeeps ==
  ASSUME MemoryInv, NEW t \in Task, cleanup_task(t)
  PROVE  MemoryInv'
<1> DEFINE k == item[t]
           l == RemoveFirst(item_tasks[k], t)
<1>1. /\ clean[t] = "due" /\ clean' = [clean EXCEPT ![t] = "done"] /\ tasks' = tasks \ {t}
      /\ UNCHANGED <<coro, item, pc, on, pos, cur, answer, listed, asked>>
  BY DEF cleanup_task
<1>2. k \in Key /\ item_tasks[k] \in Seq(Task)
  BY DEF MemoryInv, MemoryTypeOK
<1>3. \/ UNCHANGED <<item_tasks, attached>>
      \/ /\ item_tasks' = [item_tasks EXCEPT ![k] = l]
         /\ attached' \in [Stopper -> BOOLEAN]
  BY DEF cleanup_task, MemoryInv, MemoryTypeOK
<1>4. l \in Seq(Task) /\ \A j \in DOMAIN l : \E i \in DOMAIN item_tasks[k] : l[j] = item_tasks[k][i]
  <2>1. PICK m \in Seq(Task) : m = item_tasks[k]
    BY <1>2
  <2> QED
    BY <2>1, Removed
<1> HIDE DEF l
<1>5. MemoryTypeOK'
  BY <1>1, <1>2, <1>3, <1>4 DEF MemoryInv, MemoryTypeOK
<1>6. TasksAreBorn'
  <2>1. \A u \in tasks' : coro'[u] \in {"running", "ended", "failed"}
    BY <1>1 DEF MemoryInv, TasksAreBorn
  <2>2. ASSUME NEW o \in Key, NEW j \in DOMAIN item_tasks'[o]
        PROVE  \E i \in DOMAIN item_tasks[o] : item_tasks'[o][j] = item_tasks[o][i]
    <3>1. \/ item_tasks'[o] = item_tasks[o]
          \/ o = k /\ item_tasks'[o] = l
      BY <1>2, <1>3 DEF MemoryInv, MemoryTypeOK
    <3> QED
      BY <1>4, <2>2, <3>1
  <2> QED
    BY <1>1, <2>1, <2>2 DEF MemoryInv, TasksAreBorn
<1>7. RunningIsKnown' /\ CleanIsOver'
  BY <1>1 DEF MemoryInv, MemoryTypeOK, RunningIsKnown, CleanIsOver, Live
<1>8. StoppersHold' /\ AnswersAreTrue'
  BY <1>1 DEF MemoryInv, StoppersHold, AnswersAreTrue, Live
<1> QED
  BY <1>5, <1>6, <1>7, <1>8 DEF MemoryInv

LEMMA MemoryStep == MemoryInv /\ [MemoryNext]_memoryVars => MemoryInv'
<1> SUFFICES ASSUME MemoryInv, [MemoryNext]_memoryVars PROVE MemoryInv'
  OBVIOUS
<1>1. ASSUME NEW t \in Task, NEW k \in Key, create_task(t, k) PROVE MemoryInv'
  BY <1>1, CreateKeeps
<1>2. ASSUME NEW t \in Task, TaskEnds(t, "ended") \/ TaskEnds(t, "failed") PROVE MemoryInv'
  BY <1>2, EndKeeps
<1>3. ASSUME NEW t \in Task, cleanup_task(t) PROVE MemoryInv'
  BY <1>3, CleanupKeeps
<1>4. ASSUME NEW s \in Stopper,
             \/ \E k \in Item : stop_item_tasks(s, k)
             \/ \E t \in Task : stop_task(s, t)
             \/ Resume(s)
      PROVE  MemoryInv'
  BY <1>4, StopTypes, StopKeeps, ItemStops, TaskStops, Resumes
<1>5. CASE UNCHANGED memoryVars
  BY <1>5 DEF memoryVars, taskVars, stopVars, MemoryInv, MemoryTypeOK, TasksAreBorn,
              RunningIsKnown, CleanIsOver, StoppersHold, AnswersAreTrue, Live
<1> QED
  BY <1>1, <1>2, <1>3, <1>4, <1>5 DEF MemoryNext

LEMMA MemoryStart == MemoryInit => MemoryInv
<1> SUFFICES ASSUME MemoryInit PROVE MemoryInv
  OBVIOUS
<1>1. \A k \in Key : item_tasks[k] = <<>>
  BY DEF MemoryInit
<1>2. TasksAreBorn
  BY <1>1 DEF MemoryInit, TasksAreBorn
<1>3. MemoryTypeOK /\ RunningIsKnown /\ CleanIsOver /\ StoppersHold /\ AnswersAreTrue
  BY ConstantsAssumption DEF MemoryInit, MemoryTypeOK, Key, RunningIsKnown, CleanIsOver, StoppersHold,
         AnswersAreTrue, Live
<1> QED
  BY <1>2, <1>3 DEF MemoryInv

(* What stop_task answers is true when it answers, whichever tasks end, are *)
(* created, cleaned up or stopped by others while it waits.                *)
THEOREM TrueAnswers == MemorySpec => []AnswersAreTrue
<1>1. MemoryInv => AnswersAreTrue
  BY DEF MemoryInv
<1> QED
  BY MemoryStart, MemoryStep, <1>1, PTL DEF MemorySpec

-----------------------------------------------------------------------------
(* One process implements TaskLife. *)

LEMMA StopIsLife ==
  ASSUME MemoryInv, NEW s \in Stopper, Stops(s)
  PROVE  (\E t \in Task : Life!Stop(t)) \/ UNCHANGED Life!vars
<1>1. CASE Answered(s)
  BY <1>1 DEF Answered, Answer, Life!vars, LifeOf
<1>2. CASE Waits(s)
  <2>1. PICK t \in tasks : /\ coro' = [coro EXCEPT ![t] = "cancelling"]
                           /\ asked' = asked \cup {t} /\ coro[t] = "running"
    BY <1>2 DEF Waits, CancelAndWait
  <2>2. t \in Task
    BY DEF MemoryInv, MemoryTypeOK
  <2>3. Life!Stop(t)
    BY <2>1, <2>2 DEF Life!Stop, LifeOf, MemoryInv, MemoryTypeOK
  <2> QED
    BY <2>2, <2>3
<1> QED
  BY <1>1, <1>2 DEF Stops

LEMMA MemoryLifeStep == MemoryInv /\ [MemoryNext]_memoryVars => [Life!Next]_(Life!vars)
<1> SUFFICES ASSUME MemoryInv, [MemoryNext]_memoryVars PROVE [Life!Next]_(Life!vars)
  OBVIOUS
<1>1. ASSUME NEW t \in Task, NEW k \in Key, create_task(t, k) PROVE Life!Start(t)
  BY <1>1 DEF create_task, Life!Start, LifeOf, MemoryInv, MemoryTypeOK
<1>2. ASSUME NEW t \in Task, NEW how, how = "ended" \/ how = "failed", TaskEnds(t, how)
      PROVE  Life!End({t})
  BY <1>2 DEF TaskEnds, Life!End, Life!LiveStates, Live, LifeOf, MemoryInv, MemoryTypeOK
<1>3. ASSUME NEW t \in Task, cleanup_task(t) PROVE UNCHANGED Life!vars
  BY <1>3 DEF cleanup_task, Life!vars, LifeOf
<1>4. ASSUME NEW s \in Stopper,
             \/ \E k \in Item : stop_item_tasks(s, k)
             \/ \E t \in Task : stop_task(s, t)
             \/ Resume(s)
      PROVE  (\E t \in Task : Life!Stop(t)) \/ UNCHANGED Life!vars
  BY <1>4, StopIsLife, ItemStops, TaskStops, Resumes
<1>5. CASE UNCHANGED memoryVars
  BY <1>5 DEF memoryVars, taskVars, Life!vars, LifeOf
<1>6. ASSUME NEW t \in Task, TaskEnds(t, "ended") \/ TaskEnds(t, "failed")
      PROVE  \E S \in SUBSET Task : Life!End(S)
  BY <1>2, <1>6
<1> QED
  BY <1>1, <1>3, <1>4, <1>5, <1>6 DEF MemoryNext, Life!Next

(* tasks.py in one process implements TaskLife: however stoppers walk a    *)
(* list that changes under them, only what runs and was named is cancelled *)
(* and nothing starts again.                                               *)
THEOREM MemoryImplements == MemorySpec => ImplementsTaskLife
<1>1. MemoryInit => Life!Init
  BY DEF MemoryInit, Life!Init, LifeOf
<1>2. MemoryInv /\ [MemoryNext]_memoryVars => [Life!Next]_(Life!vars)
  BY MemoryLifeStep
<1> QED
  BY <1>1, <1>2, MemoryStart, MemoryStep, PTL DEF MemorySpec, ImplementsTaskLife, Life!Spec
=============================================================================
