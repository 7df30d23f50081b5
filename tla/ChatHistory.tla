----------------------------- MODULE ChatHistory ----------------------------
(***************************************************************************)
(* One chat of models/chats.py and its messages.  A message is kept twice: *)
(* in the JSON history of the row in table `chat', and in a row of its own *)
(* in table `chat_message' (models/chat_messages.py).  Every change reads  *)
(* the whole history, changes it, and writes it back as a whole; then the  *)
(* message rows are brought in line one transaction at a time.             *)
(*                                                                         *)
(* The calls come from the request handlers and chat completions, which    *)
(* run on the event loop and do not suspend, from the event emitter, which *)
(* runs each call in a thread (asyncio.to_thread), and from other server   *)
(* instances.  The write of a chat is one step.  That of a row is two: it  *)
(* is looked up, then updated if it was there and inserted if it was not.  *)
(***************************************************************************)
EXTENDS Naturals

CONSTANTS Message,              \* message ids
          Content,              \* what a message can say
          Absent,               \* there is no such message
          Writer,               \* the event loops and threads that make calls
          Loop,                 \* those that share one event loop
          MaxCalls,             \* bound on calls
          MaxFaults             \* bound on failed transactions and crashes

ASSUME ChatAssumption == /\ Absent \notin Content /\ Absent \notin Message
                         /\ Loop \subseteq Writer
                         /\ MaxCalls \in Nat /\ MaxFaults \in Nat

VARIABLES
  foreignKeys,  \* does the database enforce them? (SQLite as opened: no)
  exists,       \* is the row in table `chat' there?
  history,      \* its chat["history"]["messages"]
  rows,         \* the rows of the chat in table `chat_message'
  pc,           \* writer: idle, or the next step of its call
  target,       \* writer: the message its call is about; Absent: any
  copy,         \* writer: the history it will write, or has written
  todo,         \* writer: messages whose row it has still to write
  at,           \* writer: the message whose row it has looked up, or Absent
  seen,         \* writer: and what was there
  lone,         \* history: has the last call overlapped no other call
                \* and met no fault?
  clashed,      \* history: has a row been inserted twice at once?
  calls, faults

stored == <<exists, history, rows>>
callVars == <<pc, target, copy, todo, at, seen>>
hist == <<lone, clashed>>
bounds == <<calls, faults>>
vars == <<foreignKeys, stored, callVars, hist, bounds>>

Histories == [Message -> Content \cup {Absent}]
In(h) == {m \in Message : h[m] # Absent}
Quiet == \A w \in Writer : pc[w] = "idle"

TypeOK ==
  /\ foreignKeys \in BOOLEAN /\ exists \in BOOLEAN /\ lone \in BOOLEAN
  /\ clashed \in BOOLEAN
  /\ history \in Histories /\ rows \in Histories
  /\ pc \in [Writer -> {"idle", "row", "write", "sync"}]
  /\ target \in [Writer -> Message \cup {Absent}]
  /\ copy \in [Writer -> Histories]
  /\ todo \in [Writer -> SUBSET Message]
  /\ at \in [Writer -> Message \cup {Absent}]
  /\ seen \in [Writer -> Content \cup {Absent}]
  /\ calls \in Nat /\ faults \in Nat

\* insert_new_chat has written both.
Nowhere == [m \in Message |-> Absent]
Init ==
  /\ foreignKeys \in BOOLEAN
  /\ exists = TRUE
  /\ history \in Histories
  /\ rows = history
  /\ pc = [w \in Writer |-> "idle"]
  /\ target = [w \in Writer |-> Absent]
  /\ copy = [w \in Writer |-> Nowhere]
  /\ todo = [w \in Writer |-> {}]
  /\ at = [w \in Writer |-> Absent] /\ seen = at
  /\ lone = TRUE /\ clashed = FALSE
  /\ calls = 0 /\ faults = 0

-----------------------------------------------------------------------------
(* The first transaction of a call reads the chat; what will be written is *)
(* computed at once.  Calls on one event loop do not overlap.  That the    *)
(* emitter has read the message once more before only decides what the     *)
(* content is, and contents are arbitrary.                                 *)

Begin(w, m, h, first) ==
  /\ pc[w] = "idle" /\ exists   \* else it returns None
  /\ w \in Loop => \A v \in Loop : pc[v] = "idle"
  /\ calls < MaxCalls
  /\ calls' = calls + 1
  /\ pc' = [pc EXCEPT ![w] = first]
  /\ target' = [target EXCEPT ![w] = m]
  /\ copy' = [copy EXCEPT ![w] = h]
  /\ lone' = Quiet
  /\ UNCHANGED <<foreignKeys, stored, todo, at, seen, clashed, faults>>

upsert_message_to_chat_by_id_and_message_id(w, m, c) ==
  Begin(w, m, [history EXCEPT ![m] = c], "row")

\* add_message_status..., add_message_files...: a message that is not there
\* stays away; the history is written back in any case.
add_to_message(w, m, c) ==
  Begin(w, m, IF m \in In(history) THEN [history EXCEPT ![m] = c] ELSE history,
        "write")

\* The client's form has a history of its own, or none (a new title, say).
update_chat(w, h) ==
  Begin(w, Absent, h, "write")

\* What a call knew is forgotten with it, and the row with its transaction.
Goto(w, step) ==
  /\ pc' = [pc EXCEPT ![w] = step]
  /\ at' = [at EXCEPT ![w] = Absent] /\ seen' = [seen EXCEPT ![w] = Absent]
  /\ IF step # "idle" THEN UNCHANGED <<target, copy>>
     ELSE /\ target' = [target EXCEPT ![w] = Absent]
          /\ copy' = [copy EXCEPT ![w] = Nowhere]

-----------------------------------------------------------------------------
(* ChatMessages.upsert_message: one row, in a transaction of its own.      *)

\* The message's row is written before the history, all rows after it.
RowsToWrite(w) == CASE pc[w] = "row"  -> {target[w]}
                    [] pc[w] = "sync" -> todo[w]
                    [] OTHER          -> {}

GetRow(w, m) ==
  /\ at[w] = Absent /\ m \in RowsToWrite(w)
  /\ at' = [at EXCEPT ![w] = m]
  /\ seen' = [seen EXCEPT ![w] = rows[m]]
  /\ UNCHANGED <<foreignKeys, stored, pc, target, copy, todo, hist, bounds>>

\* mutant: the foreign key of chat_message is left out.
KeyRefused(m) == rows[m] # Absent

\* The primary key, the foreign key, a row that went after it was read.
InsertRefused(m) == rows[m] # Absent \/ (foreignKeys /\ ~exists)
UpdateRefused(m) == rows[m] = Absent
RowRefused(w) == IF seen[w] = Absent THEN InsertRefused(at[w])
                                     ELSE UpdateRefused(at[w])

\* mutant: a row that exists is not updated.
InsertOnly(w) ==
  rows' = IF RowRefused(w) \/ seen[w] # Absent THEN rows
          ELSE [rows EXCEPT ![at[w]] = copy[w][at[w]]]

\* Only what differs from what was read is written.
PutRow(w) ==
  rows' = IF RowRefused(w) \/ copy[w][at[w]] = seen[w] THEN rows
          ELSE [rows EXCEPT ![at[w]] = copy[w][at[w]]]

NoteClash(w) ==
  clashed' = (clashed \/ (seen[w] = Absent /\ rows[at[w]] # Absent))

upsert_row(w) ==
  /\ pc[w] = "row" /\ at[w] # Absent
  /\ PutRow(w) /\ NoteClash(w)
  /\ Goto(w, "write")
  /\ UNCHANGED <<foreignKeys, exists, history, todo, lone, bounds>>

\* mutant: only the row of the message the call is about is written.
WriteAndSyncTarget(w) ==
  /\ pc[w] = "write" /\ exists
  /\ history' = copy[w]
  /\ todo' = [todo EXCEPT ![w] = {target[w]} \cap In(copy[w])]
  /\ Goto(w, IF todo'[w] = {} THEN "idle" ELSE "sync")
  /\ UNCHANGED <<foreignKeys, exists, rows, hist, bounds>>

\* update_chat_by_id replaces the whole history, if the chat is still there.
update_chat_by_id(w) ==
  /\ pc[w] = "write"
  /\ IF exists
     THEN /\ history' = copy[w]
          /\ todo' = [todo EXCEPT ![w] = In(copy[w])]
          /\ Goto(w, IF todo'[w] = {} THEN "idle" ELSE "sync")
     ELSE /\ Goto(w, "idle")
          /\ UNCHANGED <<history, todo>>
  /\ UNCHANGED <<foreignKeys, exists, rows, hist, bounds>>

\* "Dual-write updated messages": an error ends the loop.
SyncRow(w) ==
  /\ pc[w] = "sync" /\ at[w] # Absent
  /\ PutRow(w) /\ NoteClash(w)
  /\ todo' = [todo EXCEPT ![w] = IF RowRefused(w) THEN {} ELSE @ \ {at[w]}]
  /\ Goto(w, IF todo'[w] = {} THEN "idle" ELSE "sync")
  /\ UNCHANGED <<foreignKeys, exists, history, lone, bounds>>

-----------------------------------------------------------------------------
\* The message rows and the chat go in one transaction.
delete_chat_by_id(w) ==
  /\ pc[w] = "idle" /\ exists
  /\ w \in Loop => \A v \in Loop : pc[v] = "idle"
  /\ exists' = FALSE
  /\ history' = Nowhere
  /\ rows' = Nowhere
  /\ UNCHANGED <<foreignKeys, callVars, hist, bounds>>

Fault == /\ faults < MaxFaults
         /\ faults' = faults + 1
         /\ lone' = FALSE

\* A row's transaction fails: the error is logged and the call goes on.
RowFails(w) ==
  /\ pc[w] \in {"row", "sync"}
  /\ Fault
  /\ Goto(w, IF pc[w] = "row" THEN "write" ELSE "idle")
  /\ todo' = [todo EXCEPT ![w] = {}]
  /\ UNCHANGED <<foreignKeys, stored, clashed, calls>>

\* The write of the chat fails, or the process ends in the middle of a call.
CallDies(w) ==
  /\ pc[w] # "idle"
  /\ Fault
  /\ Goto(w, "idle")
  /\ todo' = [todo EXCEPT ![w] = {}]
  /\ UNCHANGED <<foreignKeys, stored, clashed, calls>>

-----------------------------------------------------------------------------
Call(w) == \/ \E m \in Message, c \in Content :
                \/ upsert_message_to_chat_by_id_and_message_id(w, m, c)
                \/ add_to_message(w, m, c)
           \/ \E h \in Histories : update_chat(w, h)
Continue(w) == \/ \E m \in Message : GetRow(w, m)
               \/ upsert_row(w) \/ update_chat_by_id(w) \/ SyncRow(w)

Next == \E w \in Writer : \/ Call(w) \/ Continue(w) \/ delete_chat_by_id(w)
                          \/ RowFails(w) \/ CallDies(w)

Spec == Init /\ [][Next]_vars

-----------------------------------------------------------------------------
(* Properties                                                              *)

(* When nothing runs, every message of the history has its row, whatever   *)
(* order the transactions of overlapping calls took, unless one failed or  *)
(* two inserted the same row at once (the one refused does not go on to    *)
(* the others): analytics, which reads the rows, misses no message.        *)
RowsCoverHistory ==
  Quiet /\ exists /\ faults = 0 /\ ~clashed => In(history) \subseteq In(rows)

(* Overlapping or failed calls can leave rows that differ from the history *)
(* (each keeps another call's content); the next call that overlaps none   *)
(* and meets no fault, about whichever message, repairs them all.          *)
LoneCallRepairs ==
  Quiet /\ exists /\ lone => \A m \in In(history) : rows[m] = history[m]

(* With foreign keys, no row outlives its chat: not even those a call that *)
(* had read the chat before its deletion still writes.                     *)
NoOrphanRows == foreignKeys /\ ~exists => In(rows) = {}

(* middleware.py saves the answer of one message ("Save message in the     *)
(* database"), the event emitter a status of another: saving one message   *)
(* leaves what was saved for the others.                                   *)
SavingOneKeepsOthers ==
  [][\A w \in Writer, m \in Message :
       pc[w] = "write" /\ pc'[w] # "write" /\ exists /\ target[w] \notin {m, Absent}
         => history'[m] = history[m]]_vars
=============================================================================
