-------------------------------- MODULE Ydoc --------------------------------
(***************************************************************************)
(* One shared document: YdocManager of socket/utils.py in Redis mode (a    *)
(* list of updates, a set of users) and the ydoc:document:* handlers and   *)
(* disconnect of socket/main.py that use it.                               *)
(*                                                                         *)
(* socket.io runs every event in a task of its own and Redis answers one   *)
(* command at a time, so each handler is a sequence of commands that       *)
(* interleaves with all the others, those of its own session included.     *)
(*                                                                         *)
(* An entry of the list is the set of updates squashed into it: merging    *)
(* Yjs updates is a union.  An emit reaches the room at once.              *)
(***************************************************************************)
EXTENDS Naturals, Sequences, FiniteSets

CONSTANTS Sid,                  \* socket.io sessions
          Update,               \* updates the clients can make
          Nothing,              \* no update
          CompactionThreshold,
          MaxHandlers,          \* bound: handlers running at once
          MaxJoins,             \* bound: joins in all
          WithData              \* updates sent with the note's contents, by
                                \* a session that is still in SESSION_POOL

ASSUME YdocAssumption == /\ CompactionThreshold \in Nat \ {0}
                         /\ MaxHandlers \in Nat /\ MaxJoins \in Nat
                         /\ WithData \subseteq Update
                         /\ Nothing \notin Update

VARIABLES
  log,          \* the Redis list `updates'
  users,        \* the Redis set `users'
  room,         \* sids in the room doc_<id>
  client,       \* sid: in or away, as it last asked for; gone: disconnected
  seen,         \* sid: the updates in the client's own copy
  joins,        \* how many joins there were
  join,         \* sid: next step of its ydoc:document:join handler
  edit,         \* sid: next step of its ydoc:document:update handler
  work,         \* sid: the update that handler was given
  read,         \* sid: the list its compaction has read
  exit,         \* sid, "leave" or "bye": next step of its
                \* ydoc:document:leave handler, of its disconnect handler
  saves,        \* updates whose debounced_save is alive
  note,         \* the update whose save wrote the note last
  missed,       \* history: sids that no clean-up will look for
  stray,        \* history: updates in the log that no clean-up will look for
  restored      \* history: cleared updates that a compaction brought back

doc == <<log, users>>
clients == <<client, seen, joins>>
editor == <<edit, work, read>>
saving == <<saves, note>>
history == <<missed, stray, restored>>
vars == <<doc, room, clients, join, editor, exit, saving, history>>

Exits == Sid \X {"leave", "bye"}
ExitSteps == {"idle", "scan", "remove", "exists", "members",
              "clear", "forget", "drop"}

TypeOK ==
  /\ log \in Seq(SUBSET Update)
  /\ users \subseteq Sid /\ room \subseteq Sid
  /\ client \in [Sid -> {"away", "in", "gone"}]
  /\ seen \in [Sid -> SUBSET Update]
  /\ joins \in Nat
  /\ join \in [Sid -> {"idle", "add", "enter", "get"}]
  /\ edit \in [Sid -> {"idle", "push", "count", "range", "write", "emit"}]
  /\ work \in [Sid -> Update \cup {Nothing}]
  /\ read \in [Sid -> Seq(SUBSET Update)]
  /\ exit \in [Exits -> ExitSteps]
  /\ saves \subseteq Update
  /\ note \in Update \cup {Nothing}
  /\ missed \subseteq Sid /\ stray \subseteq Update /\ restored \subseteq Update

Init ==
  /\ log = <<>> /\ users = {} /\ room = {}
  /\ client = [s \in Sid |-> "away"]
  /\ seen = [s \in Sid |-> {}]
  /\ joins = 0
  /\ join = [s \in Sid |-> "idle"]
  /\ edit = [s \in Sid |-> "idle"]
  /\ work = [s \in Sid |-> Nothing]
  /\ read = [s \in Sid |-> <<>>]
  /\ exit = [x \in Exits |-> "idle"]
  /\ saves = {} /\ note = Nothing
  /\ missed = {} /\ stray = {} /\ restored = {}

Contents(l) == UNION {l[i] : i \in 1..Len(l)}
Running == Cardinality({s \in Sid : join[s] # "idle"})
           + Cardinality({s \in Sid : edit[s] # "idle"})
           + Cardinality({x \in Exits : exit[x] # "idle"})

Made == UNION {seen[s] : s \in Sid}     \* a client has what it makes

-----------------------------------------------------------------------------
(* ydoc:document:join: add_user, enter_room, get_updates, emit the state.  *)

Join(s) ==
  /\ client[s] = "away" /\ join[s] = "idle"
  /\ joins < MaxJoins
  /\ joins' = joins + 1
  /\ client' = [client EXCEPT ![s] = "in"]
  /\ join' = [join EXCEPT ![s] = "add"]
  /\ UNCHANGED <<doc, room, seen, editor, exit, saving, history>>

\* An SADD after the disconnect has begun is one no clean-up will undo.
add_user(s) ==
  /\ join[s] = "add"
  /\ users' = users \cup {s}
  /\ join' = [join EXCEPT ![s] = "enter"]
  /\ missed' = IF client[s] = "gone" THEN missed \cup {s} ELSE missed
  /\ UNCHANGED <<log, room, clients, editor, exit, saving, stray, restored>>

\* enter_room raises for a session that is gone: the handler ends.
Connected(s) == client[s] # "gone" \/ exit[<<s, "bye">>] # "idle"
enter_room(s) ==
  /\ join[s] = "enter"
  /\ IF Connected(s)
     THEN room' = room \cup {s} /\ join' = [join EXCEPT ![s] = "get"]
     ELSE join' = [join EXCEPT ![s] = "idle"] /\ UNCHANGED room
  /\ UNCHANGED <<doc, clients, editor, exit, saving, history>>

\* mutant: LRANGE 0 -2.
GetAllButLast(s) ==
  /\ join[s] = "get"
  /\ seen' = [seen EXCEPT ![s] = @ \cup Contents(SubSeq(log, 1, Len(log) - 1))]
  /\ join' = [join EXCEPT ![s] = "idle"]
  /\ UNCHANGED <<doc, room, client, joins, editor, exit, saving, history>>

get_updates(s) ==
  /\ join[s] = "get"
  /\ seen' = [seen EXCEPT ![s] = @ \cup Contents(log)]
  /\ join' = [join EXCEPT ![s] = "idle"]
  /\ UNCHANGED <<doc, room, client, joins, editor, exit, saving, history>>

-----------------------------------------------------------------------------
(* ydoc:document:update: stop_item_tasks, append_to_updates with its       *)
(* compaction, broadcast, a new debounced save.  It does not ask whether   *)
(* the session has joined.                                                 *)

\* It cancels the saves it finds listed and reaches before they run: the
\* registry may not list one yet, or miss it (see TaskRegistry).
StopPendingSaves == \E S \in SUBSET saves : saves' = saves \ S

Edit(s, u) ==
  /\ client[s] = "in" /\ edit[s] = "idle"
  /\ u \notin Made
  /\ seen' = [seen EXCEPT ![s] = @ \cup {u}]
  /\ work' = [work EXCEPT ![s] = u]
  /\ edit' = [edit EXCEPT ![s] = "push"]
  /\ StopPendingSaves
  /\ UNCHANGED <<doc, room, client, joins, join, read, exit, note, history>>

Push(s) ==
  /\ edit[s] = "push"
  /\ log' = Append(log, {work[s]})
  /\ edit' = [edit EXCEPT ![s] = "count"]
  /\ stray' = IF s \in users THEN stray ELSE stray \cup {work[s]}
  /\ UNCHANGED <<users, room, clients, join, work, read, exit, saving, missed, restored>>

Count(s) ==
  /\ edit[s] = "count"
  /\ edit' = [edit EXCEPT ![s] = IF Len(log) >= CompactionThreshold
                                 THEN "range" ELSE "emit"]
  /\ UNCHANGED <<doc, room, clients, join, work, read, exit, saving, history>>

\* _compact_updates_redis: LRANGE, then DEL and RPUSH in one transaction.
ReadRange(s) ==
  /\ edit[s] = "range"
  /\ read' = [read EXCEPT ![s] = log]
  /\ edit' = [edit EXCEPT ![s] = IF Len(log) <= 1 THEN "emit" ELSE "write"]
  /\ UNCHANGED <<doc, room, clients, join, work, exit, saving, history>>

\* The oldest half squashed into one entry.
Compacted(l) == LET mid == Len(l) \div 2
                IN <<Contents(SubSeq(l, 1, mid))>> \o SubSeq(l, mid + 1, Len(l))

Compact(s) ==
  /\ edit[s] = "write"
  /\ log' = Compacted(read[s])
  /\ read' = [read EXCEPT ![s] = <<>>]
  /\ edit' = [edit EXCEPT ![s] = "emit"]
  /\ restored' = restored \cup (Contents(read[s]) \ Contents(log))
  /\ UNCHANGED <<users, room, clients, join, work, exit, saving, missed, stray>>

\* mutant: stop_item_tasks comes after create_task.
EmitThenStop(s) ==
  /\ edit[s] = "emit"
  /\ seen' = [t \in Sid |-> IF t \in room THEN seen[t] \cup {work[s]} ELSE seen[t]]
  /\ saves' = {}
  /\ edit' = [edit EXCEPT ![s] = "idle"]
  /\ work' = [work EXCEPT ![s] = Nothing]
  /\ UNCHANGED <<doc, room, client, joins, join, read, exit, note, history>>

\* Broadcast to the room without the sender, then create_task.
Emit(s) ==
  /\ edit[s] = "emit"
  /\ seen' = [t \in Sid |-> IF t \in room THEN seen[t] \cup {work[s]} ELSE seen[t]]
  /\ saves' = saves \cup ({work[s]} \cap WithData)
  /\ edit' = [edit EXCEPT ![s] = "idle"]
  /\ work' = [work EXCEPT ![s] = Nothing]
  /\ read' = [read EXCEPT ![s] = <<>>]
  /\ UNCHANGED <<doc, room, client, joins, join, exit, note, history>>

\* After its sleep: what the client sent is its copy as of that update.
debounced_save(u) ==
  /\ u \in saves
  /\ note' = u
  /\ saves' = saves \ {u}
  /\ UNCHANGED <<doc, room, clients, join, editor, exit, history>>

-----------------------------------------------------------------------------
(* ydoc:document:leave and disconnect: remove the user, then clear the     *)
(* document (updates, then users) if its set of users is found empty.      *)

Step(x, next) == exit' = [exit EXCEPT ![x] = next]
Done(x) == Step(x, IF x[2] = "bye" THEN "drop" ELSE "idle")

Leave(s) ==
  /\ client[s] = "in" /\ exit[<<s, "leave">>] = "idle"
  /\ client' = [client EXCEPT ![s] = "away"]
  /\ Step(<<s, "leave">>, "remove")
  /\ UNCHANGED <<doc, room, seen, joins, join, editor, saving, history>>

\* A session no longer in SESSION_POOL is not cleaned up after.
Disconnect(s) ==
  /\ client[s] # "gone"
  /\ client' = [client EXCEPT ![s] = "gone"]
  /\ \/ /\ Step(<<s, "bye">>, "scan")
        /\ UNCHANGED missed
     \/ /\ Step(<<s, "bye">>, "drop")
        /\ missed' = missed \cup {s}
  /\ UNCHANGED <<doc, room, seen, joins, join, editor, saving, stray, restored>>

\* remove_user_from_all_documents finds the keys of non-empty sets.
Scan(s) ==
  /\ exit[<<s, "bye">>] = "scan"
  /\ Step(<<s, "bye">>, IF users = {} THEN "drop" ELSE "remove")
  /\ UNCHANGED <<doc, room, clients, join, editor, saving, history>>

\* mutant: disconnect removes the session only from documents it is alone in.
RemoveLast(x) ==
  /\ exit[x] = "remove"
  /\ users' = IF x[2] = "bye" /\ users # {x[1]} THEN users ELSE users \ {x[1]}
  /\ Step(x, IF x[2] = "bye" THEN "members" ELSE "exists")
  /\ UNCHANGED <<log, room, clients, join, editor, saving, history>>

remove_user(x) ==
  /\ exit[x] = "remove"
  /\ users' = users \ {x[1]}
  /\ Step(x, IF x[2] = "bye" THEN "members" ELSE "exists")
  /\ UNCHANGED <<log, room, clients, join, editor, saving, history>>

\* leave_room (no await), then document_exists.
Exists(s) ==
  /\ exit[<<s, "leave">>] = "exists"
  /\ room' = room \ {s}
  /\ Step(<<s, "leave">>, IF log # <<>> THEN "members" ELSE "idle")
  /\ UNCHANGED <<doc, clients, join, editor, saving, history>>

\* mutant: the document is cleared when one user is left.
GetOneUser(x) ==
  /\ exit[x] = "members"
  /\ IF Cardinality(users) = 1 THEN Step(x, "clear") ELSE Done(x)
  /\ UNCHANGED <<doc, room, clients, join, editor, saving, history>>

get_users(x) ==
  /\ exit[x] = "members"
  /\ IF users = {} THEN Step(x, "clear") ELSE Done(x)
  /\ UNCHANGED <<doc, room, clients, join, editor, saving, history>>

\* clear_document: two DELs, one after the other.
ClearUpdates(x) ==
  /\ exit[x] = "clear"
  /\ log' = <<>>
  /\ Step(x, "forget")
  /\ UNCHANGED <<users, room, clients, join, editor, saving, history>>

\* Whoever joined in between is no longer a user of what is in the log.
ClearUsers(x) ==
  /\ exit[x] = "forget"
  /\ users' = {}
  /\ stray' = stray \cup Contents(log)
  /\ Done(x)
  /\ UNCHANGED <<log, room, clients, join, editor, saving, missed, restored>>

\* The server forgets the session and its rooms.
Drop(s) ==
  /\ exit[<<s, "bye">>] = "drop"
  /\ room' = room \ {s}
  /\ Step(<<s, "bye">>, "idle")
  /\ UNCHANGED <<doc, clients, join, editor, saving, history>>

-----------------------------------------------------------------------------
Client(s) == /\ Running < MaxHandlers
             /\ \/ Join(s) \/ Leave(s) \/ Disconnect(s)
                \/ \E u \in Update : Edit(s, u)
Handler(s) == \/ add_user(s) \/ enter_room(s) \/ get_updates(s)
              \/ Push(s) \/ Count(s) \/ ReadRange(s) \/ Compact(s) \/ Emit(s)
              \/ Scan(s) \/ Exists(s) \/ Drop(s)
Clearing(x) == \/ remove_user(x) \/ get_users(x)
               \/ ClearUpdates(x) \/ ClearUsers(x)

Next == \/ \E s \in Sid : Client(s) \/ Handler(s)
        \/ \E x \in Exits : Clearing(x)
        \/ \E u \in Update : debounced_save(u)

Spec == Init /\ [][Next]_vars

-----------------------------------------------------------------------------
(* Properties                                                              *)

Idle(s) == /\ join[s] = "idle" /\ edit[s] = "idle"
           /\ exit[<<s, "leave">>] = "idle" /\ exit[<<s, "bye">>] = "idle"
Quiet == \A s \in Sid : Idle(s)

(* A client whose join is complete has every update of the document, or    *)
(* the handler of that update has still to broadcast it: nothing falls     *)
(* between the state a joiner is sent and the broadcasts that follow.  The *)
(* exception are updates that had been cleared, and that a compaction      *)
(* which had read them before wrote back.                                  *)
InFlight == {work[s] : s \in {t \in Sid : edit[t] # "idle"}}
MembersAreUpToDate ==
  \A s \in room : client[s] = "in" /\ join[s] = "idle"
                     => Contents(log) \subseteq seen[s] \cup InFlight \cup restored

(* A session that disconnected is not a user any more, unless its own join *)
(* was still under way or it had left SESSION_POOL: however the handlers   *)
(* of others clear and re-create the set, the clean-up finds it.           *)
GoneIsRemoved ==
  \A s \in users : client[s] = "gone" /\ Idle(s) => s \in missed

(* The last one out clears the document: whenever all have left, in any    *)
(* order and at once, and nobody's removal was missed, what remains are    *)
(* updates pushed or restored, or users forgotten, behind its back.        *)
LastOneOutClears ==
  Quiet /\ users = {} /\ (\A s \in Sid : client[s] # "in")
    => Contents(log) \subseteq stray \cup restored

(* Updates that stop each other's saves never stop them all: after edits   *)
(* that all carry the contents, something was saved.                       *)
AnEditIsSaved ==
  Quiet /\ saves = {} /\ Made # {} /\ Made \subseteq WithData
    => note # Nothing

(* _compact_updates_redis: "Rolling compaction: squash oldest half into    *)
(* one snapshot": no update is lost by it.                                 *)
CompactionKeepsAll ==
  [][\A s \in Sid : Compact(s) => Contents(log) \subseteq Contents(log')]_vars
=============================================================================
