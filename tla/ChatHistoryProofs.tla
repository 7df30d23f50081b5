-------------------------- MODULE ChatHistoryProofs --------------------------
(***************************************************************************)
(* The rows of a chat and its history, for any number of writers, messages *)
(* and calls: no row outlives its chat, no message misses its row, and a   *)
(* call that overlaps no other repairs what the others left.               *)
(***************************************************************************)
EXTENDS ChatHistory, TLAPS

Busy(w) == pc[w] # "idle"
\* Message m has a row, or some call has still to write it.
WillHaveRow(m) ==
  rows[m] # Absent \/ \E w \in Writer : pc[w] = "sync" /\ m \in todo[w]

\* Calls write what is in their copy, and look rows up only to write them.
InOrder(w) ==
  /\ pc[w] = "row" => target[w] \in Message /\ copy[w][target[w]] # Absent
  /\ pc[w] = "sync" => todo[w] \subseteq In(copy[w])
  /\ at[w] # Absent => at[w] \in RowsToWrite(w)

CallsInOrder == \A w \in Writer : InOrder(w)

\* Rows go with the chat only: one that was looked up is still there.
SeenIsThere ==
  exists => \A w \in Writer : at[w] # Absent /\ seen[w] # Absent
                                => rows[at[w]] # Absent

HistoryIsCovered ==
  exists /\ faults = 0 /\ ~clashed => \A m \in In(history) : WillHaveRow(m)

\* Until another call begins nothing changes but by this one.
Alone ==
  /\ \A v, w \in Writer : Busy(v) /\ Busy(w) => v = w
  /\ \A w \in Writer : at[w] # Absent => seen[w] = rows[at[w]]
  /\ \A w \in Writer : pc[w] = "sync" =>
       /\ history = copy[w]
       /\ \A m \in In(history) \ todo[w] : rows[m] = history[m]
  /\ Quiet => \A m \in In(history) : rows[m] = history[m]

RepairInv == exists /\ lone => Alone

ChatInv == /\ TypeOK
           /\ CallsInOrder
           /\ NoOrphanRows
           /\ SeenIsThere
           /\ HistoryIsCovered
           /\ RepairInv

-----------------------------------------------------------------------------
LEMMA NowhereType == Nowhere \in Histories /\ In(Nowhere) = {}
BY DEF Nowhere, Histories, In

LEMMA InitChat == Init => ChatInv
<1> SUFFICES ASSUME Init PROVE ChatInv
  OBVIOUS
<1>1. TypeOK
  BY NowhereType DEF Init, TypeOK
<1>2. CallsInOrder
  BY DEF Init, CallsInOrder, InOrder
<1>3. NoOrphanRows /\ SeenIsThere
  BY DEF Init, NoOrphanRows, SeenIsThere
<1>4. HistoryIsCovered
  BY DEF Init, HistoryIsCovered, WillHaveRow, In
<1>5. RepairInv
  BY DEF Init, RepairInv, Alone, Busy
<1> QED
  BY <1>1, <1>2, <1>3, <1>4, <1>5 DEF ChatInv

-----------------------------------------------------------------------------
(* How the parts of a call change.                                         *)

LEMMA OthersInOrder ==
  ASSUME CallsInOrder, NEW w \in Writer, InOrder(w)',
         \A v \in Writer \ {w} : pc'[v] = pc[v] /\ target'[v] = target[v]
           /\ copy'[v] = copy[v] /\ todo'[v] = todo[v] /\ at'[v] = at[v]
  PROVE  CallsInOrder'
<1>1. ASSUME NEW v \in Writer \ {w} PROVE InOrder(v)'
  <2>1. InOrder(v)
    BY DEF CallsInOrder
  <2> QED
    BY <2>1 DEF InOrder, RowsToWrite, In
<1> QED
  BY <1>1 DEF CallsInOrder

\* The call of w goes to another step, or is over.
LEMMA GoesTo ==
  ASSUME TypeOK, NEW w \in Writer, NEW step \in {"idle", "row", "write", "sync"},
         Goto(w, step)
  PROVE  /\ pc' = [pc EXCEPT ![w] = step]
         /\ at' = [at EXCEPT ![w] = Absent] /\ seen' = [seen EXCEPT ![w] = Absent]
         /\ pc' \in [Writer -> {"idle", "row", "write", "sync"}]
         /\ target' \in [Writer -> Message \cup {Absent}]
         /\ copy' \in [Writer -> Histories]
         /\ at' \in [Writer -> Message \cup {Absent}]
         /\ seen' \in [Writer -> Content \cup {Absent}]
         /\ \A v \in Writer \ {w} : pc'[v] = pc[v] /\ target'[v] = target[v]
                 /\ copy'[v] = copy[v] /\ at'[v] = at[v] /\ seen'[v] = seen[v]
         /\ pc'[w] = step /\ at'[w] = Absent /\ seen'[w] = Absent
         /\ step # "idle" => target'[w] = target[w] /\ copy'[w] = copy[w]
BY NowhereType DEF Goto, TypeOK

\* What writing the row that was looked up does to the rows.
LEMMA Written ==
  ASSUME ChatInv, NEW w \in Writer, at[w] # Absent, PutRow(w)
  PROVE  /\ at[w] \in Message /\ copy[w][at[w]] \in Content
         /\ rows' \in Histories
         /\ \A m \in Message : m # at[w] => rows'[m] = rows[m]
         /\ \A m \in Message : rows[m] # Absent => rows'[m] # Absent
         /\ exists /\ ~RowRefused(w) => rows'[at[w]] # Absent
         /\ exists /\ ~RowRefused(w) /\ seen[w] = rows[at[w]] =>
              rows'[at[w]] = copy[w][at[w]]
         /\ foreignKeys /\ ~exists => rows' = rows
<1>1. at[w] \in Message /\ copy[w] \in Histories /\ copy[w][at[w]] \in Content
  <2>1. at[w] \in Message /\ copy[w] \in Histories
    BY DEF ChatInv, TypeOK
  <2>2. at[w] \in RowsToWrite(w)
    BY DEF ChatInv, CallsInOrder, InOrder
  <2>3. copy[w][at[w]] # Absent
    BY <2>2 DEF ChatInv, CallsInOrder, InOrder, RowsToWrite, In, TypeOK
  <2> QED
    BY <2>1, <2>3 DEF Histories
<1>2. rows \in Histories
  BY DEF ChatInv, TypeOK
<1>3. rows' = rows \/ rows' = [rows EXCEPT ![at[w]] = copy[w][at[w]]]
  BY DEF PutRow
<1>4. copy[w][at[w]] # Absent
  BY <1>1, ChatAssumption
<1>5. /\ rows' \in Histories
      /\ \A m \in Message : m # at[w] => rows'[m] = rows[m]
      /\ \A m \in Message : rows[m] # Absent => rows'[m] # Absent
  BY <1>1, <1>2, <1>3, <1>4 DEF Histories
<1>6. ASSUME exists, ~RowRefused(w) PROVE rows'[at[w]] # Absent
  <2>1. CASE copy[w][at[w]] = seen[w]
    BY <1>1, <1>4, <1>5, <1>6, <2>1 DEF ChatInv, SeenIsThere
  <2>2. CASE copy[w][at[w]] # seen[w]
    BY <1>1, <1>2, <1>4, <1>6, <2>2 DEF PutRow, Histories
  <2> QED
    BY <2>1, <2>2
<1>7. ASSUME ~RowRefused(w), seen[w] = rows[at[w]]
      PROVE  rows'[at[w]] = copy[w][at[w]]
  BY <1>1, <1>2, <1>7 DEF PutRow, Histories
<1>8. ASSUME foreignKeys, ~exists PROVE rows' = rows
  <2>1. rows[at[w]] = Absent
    BY <1>1, <1>8 DEF ChatInv, NoOrphanRows, In
  <2>2. RowRefused(w)
    BY <1>8, <2>1 DEF RowRefused, InsertRefused, UpdateRefused
  <2> QED
    BY <2>2 DEF PutRow
<1> QED
  BY <1>1, <1>5, <1>6, <1>7, <1>8

\* The steps that leave the database and the calls of others alone.
LEMMA BeginStep ==
  ASSUME ChatInv, NEW w \in Writer, NEW m \in Message \cup {Absent},
         NEW h \in Histories, NEW first \in {"row", "write"},
         first = "row" => m \in Message /\ h[m] # Absent,
         Begin(w, m, h, first)
  PROVE  ChatInv'
<1>1. /\ pc[w] = "idle" /\ exists
      /\ calls' = calls + 1
      /\ pc' = [pc EXCEPT ![w] = first]
      /\ target' = [target EXCEPT ![w] = m]
      /\ copy' = [copy EXCEPT ![w] = h]
      /\ lone' = Quiet
      /\ UNCHANGED <<foreignKeys, exists, history, rows, todo, at, seen, clashed, faults>>
  BY DEF Begin, stored
<1>2. TypeOK'
  BY <1>1 DEF ChatInv, TypeOK, Quiet
<1>3. at[w] = Absent
  BY <1>1 DEF ChatInv, CallsInOrder, InOrder, RowsToWrite
<1>4. CallsInOrder'
  <2>1. \A v \in Writer \ {w} : pc'[v] = pc[v] /\ target'[v] = target[v] /\ copy'[v] = copy[v]
    BY <1>1 DEF ChatInv, TypeOK
  <2>2. pc'[w] = first /\ target'[w] = m /\ copy'[w] = h
    BY <1>1 DEF ChatInv, TypeOK
  <2>3. InOrder(w)'
    BY <1>1, <1>3, <2>2 DEF InOrder
  <2> QED
    BY <1>1, <2>1, <2>3, OthersInOrder DEF ChatInv
<1>5. NoOrphanRows' /\ SeenIsThere'
  BY <1>1 DEF ChatInv, NoOrphanRows, SeenIsThere, In
<1>6. HistoryIsCovered'
  <2>1. \A v \in Writer : pc[v] = "sync" => pc'[v] = "sync"
    BY <1>1 DEF ChatInv, TypeOK
  <2> QED
    BY <1>1, <2>1 DEF ChatInv, HistoryIsCovered, WillHaveRow, In
<1>7. RepairInv'
  <2> SUFFICES ASSUME Quiet PROVE Alone'
    BY <1>1 DEF RepairInv
  <2>1. \A v \in Writer : at[v] = Absent
    BY DEF Quiet, ChatInv, CallsInOrder, InOrder, RowsToWrite
  <2>2. \A v \in Writer : pc'[v] = IF v = w THEN first ELSE "idle"
    BY <1>1 DEF Quiet, ChatInv, TypeOK
  <2> QED
    BY <1>1, <2>1, <2>2 DEF Alone, Busy, Quiet
<1> QED
  BY <1>2, <1>4, <1>5, <1>6, <1>7 DEF ChatInv

\* A row is looked up.
LEMMA GetRowStep ==
  ASSUME ChatInv, NEW w \in Writer, NEW m \in Message, GetRow(w, m)
  PROVE  ChatInv'
<1>1. /\ at[w] = Absent /\ m \in RowsToWrite(w)
      /\ at' = [at EXCEPT ![w] = m] /\ seen' = [seen EXCEPT ![w] = rows[m]]
      /\ UNCHANGED <<foreignKeys, exists, history, rows, pc, target, copy, todo,
                     lone, clashed, calls, faults>>
  BY DEF GetRow, stored, hist, bounds
<1>2. TypeOK'
  BY <1>1 DEF ChatInv, TypeOK, Histories
<1>3. \A v \in Writer : /\ at'[v] = IF v = w THEN m ELSE at[v]
                        /\ seen'[v] = IF v = w THEN rows[m] ELSE seen[v]
  BY <1>1 DEF ChatInv, TypeOK
<1>4. CallsInOrder'
  <2>1. InOrder(w)'
    BY <1>1, <1>3 DEF ChatInv, CallsInOrder, InOrder, RowsToWrite, In
  <2> QED
    BY <1>1, <1>3, <2>1, OthersInOrder DEF ChatInv
<1>5. NoOrphanRows'
  BY <1>1 DEF ChatInv, NoOrphanRows, In
<1>6. SeenIsThere'
  BY <1>1, <1>3 DEF ChatInv, SeenIsThere
<1>7. HistoryIsCovered'
  BY <1>1 DEF ChatInv, HistoryIsCovered, WillHaveRow, In
<1>8. RepairInv'
  <2> SUFFICES ASSUME exists, lone PROVE Alone'
    BY <1>1 DEF RepairInv
  <2>1. Alone
    BY DEF ChatInv, RepairInv
  <2> QED
    BY <1>1, <1>3, <2>1 DEF Alone, Busy, Quiet, In
<1> QED
  BY <1>2, <1>4, <1>5, <1>6, <1>7, <1>8 DEF ChatInv

\* The row of the message, before the history.
LEMMA UpsertRowStep ==
  ASSUME ChatInv, NEW w \in Writer, upsert_row(w)
  PROVE  ChatInv'
<1>1. /\ pc[w] = "row" /\ at[w] # Absent /\ PutRow(w) /\ NoteClash(w)
      /\ Goto(w, "write")
      /\ UNCHANGED <<foreignKeys, exists, history, todo, lone, calls, faults>>
  BY DEF upsert_row, bounds
<1>2. TypeOK /\ CallsInOrder
  BY DEF ChatInv
<1>3. TypeOK'
  <2>1. clashed' \in BOOLEAN
    BY <1>1, <1>2 DEF NoteClash, TypeOK
  <2> QED
    BY <1>1, <1>2, <2>1, GoesTo, Written DEF TypeOK
<1>4. CallsInOrder'
  <2>1. InOrder(w)'
    BY <1>1, <1>2, GoesTo DEF InOrder
  <2> QED
    BY <1>1, <1>2, <2>1, GoesTo, OthersInOrder
<1>5. NoOrphanRows'
  BY <1>1, Written DEF ChatInv, NoOrphanRows, In
<1>6. SeenIsThere'
  <2> SUFFICES ASSUME exists, NEW v \in Writer, at'[v] # Absent, seen'[v] # Absent
               PROVE  rows'[at'[v]] # Absent
    BY <1>1 DEF SeenIsThere
  <2>1. v # w /\ at'[v] = at[v] /\ seen'[v] = seen[v] /\ at[v] \in Message
    BY <1>1, <1>2, GoesTo DEF TypeOK
  <2>2. rows[at[v]] # Absent
    BY <2>1 DEF ChatInv, SeenIsThere
  <2> QED
    BY <1>1, <2>1, <2>2, Written
<1>7. HistoryIsCovered'
  <2> SUFFICES ASSUME exists, faults = 0, ~clashed', NEW m \in In(history)
               PROVE  WillHaveRow(m)'
    BY <1>1 DEF HistoryIsCovered, In
  <2>1. ~clashed /\ m \in Message
    BY <1>1 DEF NoteClash, In
  <2>2. WillHaveRow(m)
    BY <2>1 DEF ChatInv, HistoryIsCovered
  <2>3. \A v \in Writer : pc[v] = "sync" => pc'[v] = "sync"
    BY <1>1, <1>2, GoesTo
  <2> QED
    BY <1>1, <2>1, <2>2, <2>3, Written DEF WillHaveRow
<1>8. RepairInv'
  <2> SUFFICES ASSUME exists, lone PROVE Alone'
    BY <1>1 DEF RepairInv
  <2>1. Alone
    BY DEF ChatInv, RepairInv
  <2>2. \A v \in Writer \ {w} : pc[v] = "idle" /\ at[v] = Absent
    BY <1>1, <1>2, <2>1 DEF Alone, Busy, CallsInOrder, InOrder, RowsToWrite
  <2>3. \A v \in Writer : /\ pc'[v] = IF v = w THEN "write" ELSE "idle"
                          /\ at'[v] = Absent
    BY <1>1, <1>2, <2>2, GoesTo
  <2> QED
    BY <2>3 DEF Alone, Busy, Quiet
<1> QED
  BY <1>3, <1>4, <1>5, <1>6, <1>7, <1>8 DEF ChatInv

\* The history is replaced, and all its rows are still to be written.
LEMMA UpdateChatStep ==
  ASSUME ChatInv, NEW w \in Writer, update_chat_by_id(w), exists
  PROVE  ChatInv'
<1> DEFINE step == IF In(copy[w]) = {} THEN "idle" ELSE "sync"
<1>1. TypeOK /\ CallsInOrder
  BY DEF ChatInv
<1>2. /\ pc[w] = "write" /\ history' = copy[w]
      /\ todo' = [todo EXCEPT ![w] = In(copy[w])] /\ todo'[w] = In(copy[w])
      /\ UNCHANGED <<foreignKeys, exists, rows, lone, clashed, calls, faults>>
  BY <1>1 DEF update_chat_by_id, hist, bounds, TypeOK
<1>3. Goto(w, step) /\ step \in {"idle", "row", "write", "sync"}
  BY <1>2 DEF update_chat_by_id
<1>4. In(copy[w]) \in SUBSET Message /\ copy[w] \in Histories
  BY <1>1 DEF In, TypeOK
<1> HIDE DEF step
<1>5. TypeOK'
  BY <1>1, <1>2, <1>3, <1>4, GoesTo DEF TypeOK
<1>6. \A v \in Writer \ {w} : todo'[v] = todo[v]
  BY <1>1, <1>2 DEF TypeOK
<1>7. CallsInOrder'
  <2>1. step # "row" /\ (step = "sync" => copy'[w] = copy[w])
    BY <1>1, <1>3, GoesTo DEF step
  <2>2. InOrder(w)'
    BY <1>1, <1>2, <1>3, <2>1, GoesTo DEF InOrder, In
  <2> QED
    BY <1>1, <1>3, <1>6, <2>2, GoesTo, OthersInOrder
<1>8. NoOrphanRows'
  BY <1>2 DEF NoOrphanRows
<1>9. SeenIsThere'
  BY <1>1, <1>2, <1>3, GoesTo DEF ChatInv, SeenIsThere
<1>10. HistoryIsCovered'
  <2>1. In(history)' = In(copy[w])
    BY <1>2 DEF In
  <2>2. In(copy[w]) # {} => pc'[w] = "sync"
    BY <1>1, <1>3, GoesTo DEF step
  <2> QED
    BY <1>2, <2>1, <2>2 DEF HistoryIsCovered, WillHaveRow
<1>11. RepairInv'
  <2> SUFFICES ASSUME lone PROVE Alone'
    BY <1>2 DEF RepairInv
  <2>1. Alone
    BY DEF ChatInv, RepairInv
  <2>2. \A v \in Writer \ {w} : pc[v] = "idle" /\ at[v] = Absent
    BY <1>1, <1>2, <2>1 DEF Alone, Busy, CallsInOrder, InOrder, RowsToWrite
  <2>3. \A v \in Writer : /\ pc'[v] = IF v = w THEN step ELSE "idle"
                          /\ at'[v] = Absent
    BY <1>1, <1>3, <2>2, GoesTo
  <2>4. CASE In(copy[w]) = {}
    BY <1>2, <2>3, <2>4 DEF Alone, Busy, Quiet, In, step
  <2>5. CASE In(copy[w]) # {}
    <3>1. step = "sync" /\ copy'[w] = copy[w]
      BY <1>1, <1>3, <2>5, GoesTo DEF step
    <3>2. ~Quiet'
      BY <2>3, <3>1 DEF Quiet
    <3>3. In(history)' \ todo'[w] = {}
      BY <1>2 DEF In
    <3> QED
      BY <1>2, <2>3, <3>1, <3>2, <3>3 DEF Alone, Busy
  <2> QED
    BY <2>4, <2>5
<1> QED
  BY <1>5, <1>7, <1>8, <1>9, <1>10, <1>11 DEF ChatInv

\* One more row after the history is written; one that is refused was
\* inserted by two at once.
LEMMA SyncRowStep ==
  ASSUME ChatInv, NEW w \in Writer, SyncRow(w)
  PROVE  ChatInv'
<1> DEFINE step == IF todo'[w] = {} THEN "idle" ELSE "sync"
<1>1. TypeOK /\ CallsInOrder
  BY DEF ChatInv
<1>2. /\ pc[w] = "sync" /\ at[w] # Absent /\ PutRow(w) /\ NoteClash(w)
      /\ todo' = [todo EXCEPT ![w] = IF RowRefused(w) THEN {} ELSE @ \ {at[w]}]
      /\ Goto(w, step)
      /\ UNCHANGED <<foreignKeys, exists, history, lone, calls, faults>>
  BY DEF SyncRow, bounds
<1>3. todo'[w] = (IF RowRefused(w) THEN {} ELSE todo[w] \ {at[w]})
      /\ \A v \in Writer \ {w} : todo'[v] = todo[v]
  BY <1>1, <1>2 DEF TypeOK
<1>4. at[w] \in todo[w] /\ todo[w] \subseteq In(copy[w])
  BY <1>1, <1>2 DEF CallsInOrder, InOrder, RowsToWrite
<1>5. step \in {"idle", "row", "write", "sync"} /\ step # "row"
  OBVIOUS
<1>6. TypeOK'
  <2>1. clashed' \in BOOLEAN
    BY <1>1, <1>2 DEF NoteClash, TypeOK
  <2>2. todo' \in [Writer -> SUBSET Message]
    BY <1>1, <1>2 DEF TypeOK
  <2> HIDE DEF step
  <2> QED
    BY <1>1, <1>2, <1>5, <2>1, <2>2, GoesTo, Written DEF TypeOK
<1>7. step = "sync" => copy'[w] = copy[w] /\ pc'[w] = "sync"
  <2> HIDE DEF step
  <2> QED
    BY <1>1, <1>2, <1>5, GoesTo
<1>8. /\ pc'[w] = step /\ at'[w] = Absent
      /\ \A v \in Writer \ {w} : pc'[v] = pc[v] /\ target'[v] = target[v]
           /\ copy'[v] = copy[v] /\ at'[v] = at[v] /\ seen'[v] = seen[v]
  <2> HIDE DEF step
  <2> QED
    BY <1>1, <1>2, <1>5, GoesTo
<1>9. CallsInOrder'
  <2>1. todo'[w] \subseteq In(copy[w])
    BY <1>3, <1>4
  <2>2. InOrder(w)'
    BY <1>5, <1>7, <1>8, <2>1 DEF InOrder, In
  <2> QED
    BY <1>1, <1>3, <1>8, <2>2, OthersInOrder
<1>10. NoOrphanRows'
  BY <1>2, Written DEF ChatInv, NoOrphanRows, In
<1>11. SeenIsThere'
  <2> SUFFICES ASSUME exists, NEW v \in Writer, at'[v] # Absent, seen'[v] # Absent
               PROVE  rows'[at'[v]] # Absent
    BY <1>2 DEF SeenIsThere
  <2>1. v # w /\ at'[v] = at[v] /\ seen'[v] = seen[v] /\ at[v] \in Message
    BY <1>1, <1>8 DEF TypeOK
  <2>2. rows[at[v]] # Absent
    BY <2>1 DEF ChatInv, SeenIsThere
  <2> QED
    BY <1>2, <2>1, <2>2, Written
<1>12. ASSUME exists, RowRefused(w) PROVE clashed' /\ seen[w] # rows[at[w]]
  <2>1. seen[w] = Absent \/ rows[at[w]] # Absent
    BY <1>2, <1>12 DEF ChatInv, SeenIsThere
  <2>2. seen[w] = Absent /\ rows[at[w]] # Absent
    BY <1>12, <2>1 DEF RowRefused, InsertRefused, UpdateRefused
  <2> QED
    BY <1>2, <2>2 DEF NoteClash
<1>13. HistoryIsCovered'
  <2> SUFFICES ASSUME exists, faults = 0, ~clashed', NEW m \in In(history)
               PROVE  WillHaveRow(m)'
    BY <1>2 DEF HistoryIsCovered, In
  <2>1. ~clashed /\ m \in Message
    BY <1>2 DEF NoteClash, In
  <2>2. WillHaveRow(m)
    BY <2>1 DEF ChatInv, HistoryIsCovered
  <2>3. ~RowRefused(w)
    BY <1>12
  <2>4. CASE rows[m] # Absent \/ m = at[w]
    BY <1>2, <2>1, <2>3, <2>4, Written DEF WillHaveRow
  <2>5. ASSUME NEW v \in Writer, pc[v] = "sync", m \in todo[v], m # at[w]
        PROVE  WillHaveRow(m)'
    <3>1. m \in todo'[v]
      BY <1>3, <2>3, <2>5
    <3>2. pc'[v] = "sync"
      BY <1>8, <2>5, <3>1
    <3> QED
      BY <3>1, <3>2 DEF WillHaveRow
  <2> QED
    BY <2>2, <2>4, <2>5 DEF WillHaveRow
<1>14. RepairInv'
  <2> SUFFICES ASSUME exists, lone PROVE Alone'
    BY <1>2 DEF RepairInv
  <2>1. Alone
    BY DEF ChatInv, RepairInv
  <2>2. \A v \in Writer \ {w} : pc[v] = "idle" /\ at[v] = Absent
    BY <1>1, <1>2, <2>1 DEF Alone, Busy, CallsInOrder, InOrder, RowsToWrite
  <2>3. \A v \in Writer : /\ pc'[v] = IF v = w THEN step ELSE "idle"
                          /\ at'[v] = Absent
    BY <1>8, <2>2
  <2>4. history = copy[w] /\ seen[w] = rows[at[w]] /\ ~RowRefused(w)
    BY <1>2, <1>12, <2>1 DEF Alone
  <2>5. \A m \in In(history) \ todo'[w] : rows'[m] = history[m]
    <3> SUFFICES ASSUME NEW m \in In(history) \ todo'[w] PROVE rows'[m] = history[m]
      OBVIOUS
    <3>1. m \in Message
      BY DEF In
    <3>2. CASE m = at[w]
      BY <1>2, <2>4, <3>2, Written
    <3>3. CASE m # at[w]
      BY <1>2, <1>3, <2>1, <2>4, <3>1, <3>3, Written DEF Alone
    <3> QED
      BY <3>2, <3>3
  <2>6. In(history)' = In(history)
    BY <1>2 DEF In
  <2>7. CASE todo'[w] = {}
    BY <1>2, <2>3, <2>5, <2>6, <2>7 DEF Alone, Busy, Quiet
  <2>8. CASE todo'[w] # {}
    <3>1. step = "sync" /\ ~Quiet'
      BY <2>3, <2>8 DEF Quiet
    <3> QED
      BY <1>2, <1>7, <2>3, <2>4, <2>5, <2>6, <3>1 DEF Alone, Busy
  <2> QED
    BY <2>7, <2>8
<1> QED
  BY <1>6, <1>9, <1>10, <1>11, <1>13, <1>14 DEF ChatInv

\* The chat is gone, and will not come back.
LEMMA DeleteStep ==
  ASSUME ChatInv, NEW w \in Writer, delete_chat_by_id(w)
  PROVE  ChatInv'
<1>1. /\ ~exists' /\ history' = Nowhere /\ rows' = Nowhere /\ exists' \in BOOLEAN
      /\ UNCHANGED <<foreignKeys, pc, target, copy, todo, at, seen, lone, clashed,
                     calls, faults>>
  BY DEF delete_chat_by_id, callVars, hist, bounds
<1>2. TypeOK'
  BY <1>1, NowhereType DEF ChatInv, TypeOK
<1>3. CallsInOrder'
  BY <1>1 DEF ChatInv, CallsInOrder, InOrder, RowsToWrite, In
<1>4. NoOrphanRows'
  BY <1>1, NowhereType DEF NoOrphanRows, In
<1> QED
  BY <1>1, <1>2, <1>3, <1>4 DEF ChatInv, SeenIsThere, HistoryIsCovered, RepairInv

\* What a failed row, a dead call, and a call that finds the chat gone have in
\* common: nothing is stored, and the call goes on to write the chat or ends.
LEMMA DropStep ==
  ASSUME ChatInv, NEW w \in Writer, NEW step \in {"idle", "write"},
         Goto(w, step), UNCHANGED <<foreignKeys, stored, clashed, calls>>,
         todo' \in [Writer -> SUBSET Message],
         \A v \in Writer \ {w} : todo'[v] = todo[v],
         faults' \in Nat /\ lone' \in BOOLEAN,
         ~exists \/ (faults' # 0 /\ ~lone')
  PROVE  ChatInv'
<1>1. TypeOK /\ CallsInOrder /\ step \in {"idle", "row", "write", "sync"}
  BY DEF ChatInv
<1>2. UNCHANGED <<foreignKeys, exists, history, rows, clashed, calls>>
  BY DEF stored
<1>3. TypeOK'
  BY <1>1, <1>2, GoesTo DEF TypeOK
<1>4. CallsInOrder'
  <2>1. InOrder(w)'
    BY <1>1, GoesTo DEF InOrder
  <2> QED
    BY <1>1, <2>1, GoesTo, OthersInOrder
<1>5. NoOrphanRows'
  BY <1>2 DEF ChatInv, NoOrphanRows, In
<1>6. SeenIsThere'
  BY <1>1, <1>2, GoesTo DEF ChatInv, SeenIsThere
<1>7. HistoryIsCovered' /\ RepairInv'
  BY <1>2 DEF HistoryIsCovered, RepairInv
<1> QED
  BY <1>3, <1>4, <1>5, <1>6, <1>7 DEF ChatInv

LEMMA FaultStep ==
  ASSUME ChatInv, NEW w \in Writer, RowFails(w) \/ CallDies(w)
  PROVE  ChatInv'
<1>1. PICK step \in {"idle", "write"} : Goto(w, step)
  BY DEF RowFails, CallDies
<1>2. /\ UNCHANGED <<foreignKeys, stored, clashed, calls>>
      /\ todo' = [todo EXCEPT ![w] = {}] /\ faults' = faults + 1 /\ ~lone'
      /\ lone' \in BOOLEAN
  BY DEF RowFails, CallDies, Fault
<1>3. /\ todo' \in [Writer -> SUBSET Message]
      /\ \A v \in Writer \ {w} : todo'[v] = todo[v]
      /\ faults' \in Nat /\ faults' # 0
  BY <1>2 DEF ChatInv, TypeOK
<1> QED
  BY <1>1, <1>2, <1>3, DropStep

LEMMA GoneStep ==
  ASSUME ChatInv, NEW w \in Writer, update_chat_by_id(w), ~exists
  PROVE  ChatInv'
<1>1. /\ Goto(w, "idle") /\ UNCHANGED <<foreignKeys, stored, clashed, calls>>
      /\ UNCHANGED <<todo, faults, lone>>
  BY DEF update_chat_by_id, stored, hist, bounds
<1>2. /\ todo' \in [Writer -> SUBSET Message] /\ faults' \in Nat /\ lone' \in BOOLEAN
      /\ \A v \in Writer \ {w} : todo'[v] = todo[v]
  BY <1>1 DEF ChatInv, TypeOK
<1> QED
  BY <1>1, <1>2, DropStep

-----------------------------------------------------------------------------
LEMMA CallStep ==
  ASSUME ChatInv, NEW w \in Writer, Call(w)
  PROVE  ChatInv'
<1>1. history \in Histories
  BY DEF ChatInv, TypeOK
<1>2. ASSUME NEW m \in Message, NEW c \in Content PROVE
        /\ [history EXCEPT ![m] = c] \in Histories
        /\ [history EXCEPT ![m] = c][m] # Absent
  BY <1>1, ChatAssumption DEF Histories
<1>3. ASSUME NEW m \in Message, NEW c \in Content,
             upsert_message_to_chat_by_id_and_message_id(w, m, c)
      PROVE  ChatInv'
  BY <1>2, <1>3, BeginStep DEF upsert_message_to_chat_by_id_and_message_id
<1>4. ASSUME NEW m \in Message, NEW c \in Content, add_to_message(w, m, c)
      PROVE  ChatInv'
  <2>1. PICK h \in Histories : Begin(w, m, h, "write")
    BY <1>1, <1>2, <1>4 DEF add_to_message
  <2> QED
    BY <2>1, BeginStep
<1>5. ASSUME NEW h \in Histories, update_chat(w, h) PROVE ChatInv'
  BY <1>5, BeginStep DEF update_chat
<1> QED
  BY <1>3, <1>4, <1>5 DEF Call

LEMMA ChatStep == ChatInv /\ [Next]_vars => ChatInv'
<1> SUFFICES ASSUME ChatInv, [Next]_vars PROVE ChatInv'
  OBVIOUS
<1>1. ASSUME NEW w \in Writer, Continue(w) PROVE ChatInv'
  BY <1>1, GetRowStep, UpsertRowStep, UpdateChatStep, GoneStep, SyncRowStep
  DEF Continue
<1>2. CASE UNCHANGED vars
  <2>1. UNCHANGED <<foreignKeys, exists, history, rows, pc, target, copy, todo,
                    at, seen, lone, clashed, calls, faults>>
    BY <1>2 DEF vars, stored, callVars, hist, bounds
  <2>2. TypeOK' /\ CallsInOrder'
    BY <2>1 DEF ChatInv, TypeOK, CallsInOrder, InOrder, RowsToWrite, In
  <2>3. NoOrphanRows' /\ SeenIsThere' /\ HistoryIsCovered'
    BY <2>1 DEF ChatInv, NoOrphanRows, SeenIsThere, HistoryIsCovered,
       WillHaveRow, In
  <2>4. RepairInv'
    BY <2>1 DEF ChatInv, RepairInv, Alone, Busy, Quiet, In
  <2> QED
    BY <2>2, <2>3, <2>4 DEF ChatInv
<1> QED
  BY <1>1, <1>2, CallStep, DeleteStep, FaultStep DEF Next

-----------------------------------------------------------------------------
(* With foreign keys, no message row outlives its chat (models/chats.py,   *)
(* delete_chat_by_id, against every call that had read the chat before).   *)
THEOREM NoOrphans == Spec => []NoOrphanRows
<1>1. ChatInv => NoOrphanRows
  BY DEF ChatInv
<1> QED
  BY <1>1, InitChat, ChatStep, PTL DEF Spec

(* When nothing runs every message of the history has its row, unless a    *)
(* transaction failed or two inserted the same row at once.                *)
THEOREM Covered == Spec => []RowsCoverHistory
<1>1. ChatInv => RowsCoverHistory
  BY DEF ChatInv, HistoryIsCovered, WillHaveRow, RowsCoverHistory, Quiet, In
<1> QED
  BY <1>1, InitChat, ChatStep, PTL DEF Spec

(* A call that overlaps no other and meets no fault leaves the rows equal  *)
(* to the history, whatever the calls before it left.                      *)
THEOREM Repaired == Spec => []LoneCallRepairs
<1>1. ChatInv => LoneCallRepairs
  BY DEF ChatInv, RepairInv, Alone, LoneCallRepairs
<1> QED
  BY <1>1, InitChat, ChatStep, PTL DEF Spec
=============================================================================
