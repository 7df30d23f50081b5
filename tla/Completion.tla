------------------------------ MODULE Completion -----------------------------
(***************************************************************************)
(* The task of one chat completion, process_chat of main.py, around the    *)
(* handlers of module Answer: the payload with its MCP connections, the    *)
(* provider's first response, the stop of tasks.py at any await, errors,   *)
(* the cleanup, and the next turns, whose requests are built again from    *)
(* the stored answers (convert_output_to_messages).                        *)
(***************************************************************************)
EXTENDS Answer

CONSTANTS Server,               \* MCP servers among the tools of a chat
          MaxStops,
          MaxTurns

ASSUME TurnsAssumption == MaxStops \in Nat /\ MaxTurns \in Nat \ {0}

VARIABLES
  dialled,      \* mcp_clients of the payload, in order, connected or not
  broken,       \* the servers that could not be reached
  connected,    \* the servers whose client is connected
  handed,       \* process_chat has the metadata with the clients
  error,        \* the message's row has an error
  past,         \* the messages of the turns before this one
  turn,         \* answers begun
  stops         \* cancellations so far

chat == <<past, turn>>
clients == <<dialled, broken, connected, handed>>
vars == <<answerVars, clients, error, chat, stops>>

Places == Working \cup Whole \cup Left
          \cup {"payload", "asking", "background", "stopping", "cleanup",
                "over", "torn"}

TypeOK ==
  /\ AnswerTypeOK
  /\ pc \in Places
  /\ dialled \in Seq(Server)
  /\ broken \subseteq ToSet(dialled)
  /\ connected \subseteq ToSet(dialled) \ broken
  /\ handed \in BOOLEAN
  /\ error \in BOOLEAN
  /\ past \in Seq([role : {"user", "assistant", "tool"}, ids : Seq(Call)])
  /\ turn \in 1..MaxTurns
  /\ stops \in 0..MaxStops

Init ==
  /\ pc = "payload"
  /\ dialect \in {"chat", "responses", "whole"}
  /\ realtime \in (IF dialect = "chat" THEN BOOLEAN ELSE {FALSE})
  /\ interpreter \in (IF dialect = "chat" THEN BOOLEAN ELSE {FALSE})
  /\ local = NoLocal
  /\ output = <<>>
  /\ events = 0
  /\ row = <<>> /\ told = <<>>
  /\ dialled = <<>> /\ broken = {} /\ connected = {} /\ handed = FALSE
  /\ error = FALSE
  /\ past = <<>> /\ turn = 1
  /\ stops = 0

-----------------------------------------------------------------------------
(* convert_output_to_messages: an assistant's message has the ids of its   *)
(* calls, a tool's message the id it answers.  Calls and text are collected *)
(* until a result comes, or to the end.                                    *)

Message(role, ids) == [role |-> role, ids |-> ids]
Flush(c) == IF c.text \/ c.ids # <<>>
            THEN [done |-> Append(c.done, Message("assistant", c.ids)),
                  ids |-> <<>>, text |-> FALSE]
            ELSE c

\* mutant: a result does not end the message whose calls it answers.
ConvertUnflushed(c, item) ==
  CASE item.type = "call" -> [c EXCEPT !.ids = Append(@, item.id)]
    [] item.type = "result" ->
         [c EXCEPT !.done = Append(@, Message("tool", <<item.id>>))]
    [] OTHER -> [c EXCEPT !.text = @ \/ item.text > 0]

Converted(c, item) ==
  CASE item.type = "call" -> [c EXCEPT !.ids = Append(@, item.id)]
    [] item.type = "result" ->
         [Flush(c) EXCEPT !.done = Append(@, Message("tool", <<item.id>>))]
    [] OTHER -> [c EXCEPT !.text = @ \/ item.text > 0]

\* What is collected after each of the items.
Collected(items) ==
  LET after[n \in 0..Len(items)] ==
        IF n = 0 THEN [done |-> <<>>, ids |-> <<>>, text |-> FALSE]
        ELSE Converted(after[n - 1], items[n])
  IN  after

ConvertOutput(items) == Flush(Collected(items)[Len(items)]).done

\* process_messages_with_output: an answer without output is only a text.
TurnMessages(items) ==
  <<Message("user", <<>>)>>
    \o IF ConvertOutput(items) = <<>> THEN <<Message("assistant", <<>>)>>
       ELSE ConvertOutput(items)

\* The request being made, to the user's message or to the answer so far.
RequestMessages ==
  Append(past, Message("user", <<>>))
    \o IF pc = "request" THEN ConvertOutput(output) ELSE <<>>

\* What the providers ask for: the messages after one with calls are their
\* results, one for each, and there are no other results.
Paired(ms) ==
  \A i \in DOMAIN ms :
    /\ ms[i].role = "assistant" =>
         LET n == Len(ms[i].ids)
         IN /\ i + n <= Len(ms)
            /\ \A k \in 1..n : ms[i + k].role = "tool"
            /\ ToSet(ms[i].ids) = {ms[i + k].ids[1] : k \in 1..n}
    /\ ms[i].role = "tool" =>
         \E j \in 1..(i - 1) : ms[j].role = "assistant"
                               /\ i <= j + Len(ms[j].ids)

-----------------------------------------------------------------------------
(* process_chat_payload and the first request                              *)

\* A server that cannot be reached is told to the user and left out, but its
\* client is already in mcp_clients.
Connect(s) ==
  /\ pc = "payload"
  /\ events < MaxEvents
  /\ events' = events + 1
  /\ s \notin ToSet(dialled)
  /\ dialled' = Append(dialled, s)
  /\ \/ connected' = connected \cup {s} /\ UNCHANGED broken
     \/ broken' = broken \cup {s} /\ UNCHANGED connected
  /\ UNCHANGED <<pc, local, mode, output, store, handed, error, chat, stops>>

\* The clients are in the metadata that the payload returns.
PayloadReady ==
  /\ pc = "payload"
  /\ handed' = TRUE
  /\ pc' = "asking"
  /\ UNCHANGED <<local, mode, output, events, store, dialled, broken, connected,
                 error, chat, stops>>

\* A filter, a handler or the provider raises.
PayloadFails ==
  /\ pc \in {"payload", "asking"}
  /\ pc' = "raised"
  /\ UNCHANGED <<local, mode, output, events, store, clients, error, chat, stops>>

\* process_chat_response
Respond ==
  /\ pc = "asking"
  /\ IF dialect = "whole"
     THEN \/ /\ output' = <<Closed(Item("message", 1))>>
             /\ pc' = "whole"
             /\ UNCHANGED <<local, error>>
          \/ /\ pc' = "ended"           \* an error, or nothing, in it
             /\ error' \in {error, TRUE}
             /\ UNCHANGED <<local, output>>
     ELSE BeginStream /\ UNCHANGED error
  /\ UNCHANGED <<mode, events, store, clients, chat, stops>>

-----------------------------------------------------------------------------
(* Stops, errors and the cleanup                                           *)

\* task.cancel: CancelledError is raised where the coroutine awaits.
Stop ==
  /\ stops < MaxStops
  /\ stops' = stops + 1
  /\ \/ /\ pc \in Working \cup {"background"}
        /\ dialect # "whole"
        /\ pc' = "stopping"
     \/ /\ \/ pc \in {"payload", "asking", "stopping"} \cup Whole
           \/ pc = "background" /\ dialect = "whole"
        /\ pc' = "cancelled"
     \/ pc = "cleanup" /\ pc' = "torn"
  /\ UNCHANGED <<local, mode, output, events, store, clients, error, chat>>

\* except Exception: the error is stored, the answer is not.
SaveError ==
  /\ pc = "raised"
  /\ error' = TRUE
  /\ local' = NoLocal
  /\ pc' = "cleanup"
  /\ UNCHANGED <<mode, output, events, store, clients, chat, stops>>

Leave ==
  /\ pc \in {"ended", "cancelled"}
  /\ local' = NoLocal
  /\ pc' = "cleanup"
  /\ UNCHANGED <<mode, output, events, store, clients, error, chat, stops>>

\* mutant: the clients are looked for in the metadata of the request.
CleanupFromRequest ==
  /\ pc = "cleanup"
  /\ pc' = "over"
  /\ UNCHANGED <<local, mode, output, events, store, clients, error, chat, stops>>

\* finally: disconnect in reverse order, up to the first client that raises,
\* which one that never connected does.
Reached == {i \in DOMAIN dialled :
              \A j \in DOMAIN dialled : dialled[j] \in broken => j < i}
Cleanup ==
  /\ pc = "cleanup"
  /\ connected' = IF handed THEN connected \ {dialled[i] : i \in Reached}
                  ELSE connected
  /\ pc' = "over"
  /\ UNCHANGED <<local, mode, output, events, store, dialled, broken, handed,
                 error, chat, stops>>

\* The user asks again, or has the same answer continued.
NextTurn ==
  /\ pc \in {"over", "torn"}
  /\ turn < MaxTurns
  /\ turn' = turn + 1
  /\ \/ /\ past' = past \o TurnMessages(row)
        /\ row' = <<>>
        /\ error' = FALSE
     \/ UNCHANGED <<past, row, error>>
  /\ pc' = "payload"
  /\ output' = <<>>
  /\ told' = <<>>
  /\ dialled' = <<>> /\ broken' = {} /\ connected' = {} /\ handed' = FALSE
  /\ UNCHANGED <<local, mode, events, stops>>

-----------------------------------------------------------------------------
Step == \/ AnswerStep /\ UNCHANGED <<clients, error, chat, stops>>
        \/ (\E s \in Server : Connect(s)) \/ PayloadReady \/ PayloadFails
        \/ Respond \/ SaveError \/ Leave \/ Cleanup

Next == Step \/ Stop \/ NextTurn

Spec == Init /\ [][Next]_vars

(* The coroutine goes on: providers and tools answer or time out, and a    *)
(* stream ends.  Nobody need stop an answer or ask again.                  *)
FairSpec == Spec /\ WF_vars(Step)

-----------------------------------------------------------------------------
(* Properties                                                              *)

Streamed == dialect # "whole"

(* The answer the browser was told to be done is the answer that is stored,*)
(* whatever stop, failing title or follow-up comes after (a whole response *)
(* is told before it is stored, and real-time saving stores text only).    *)
DoneIsSaved ==
  told # <<>> /\ pc \in {"over", "torn", "background"} /\ dialect = "chat"
    /\ ~realtime => row = told[1]

(* A stop stores what the answer has come to, unless a second one comes    *)
(* before the first is told to the browser.                                *)
StoppedIsSaved ==
  pc \in {"over", "torn"} /\ stops = 1 /\ turn = 1 /\ Streamed /\ ~realtime
    /\ ~error => row = output

(* A stopped answer stays stopped: no tool or code that catches errors, no *)
(* loop and no retry takes it up again, and what is stored is its items.   *)
StoppedStaysStopped ==
  [][(pc \in {"stopping", "cancelled"})
       => /\ pc' \in {"cancelled", "ended", "cleanup"}
          /\ output' = output
          /\ row' \in {row, output}]_vars

(* Every request of a chat that nobody stopped has all calls followed by   *)
(* their results, through tool rounds, code rounds, failed requests, later *)
(* turns and continued answers (responses events have calls nobody runs).  *)
UnstoppedRequestsArePaired ==
  pc \in {"asking", "request"} /\ dialect = "chat" /\ stops = 0
    => Paired(RequestMessages)

(* process_messages_with_output: "produces properly formatted OpenAI-style *)
(* messages (tool_calls + tool results)".                                  *)
RequestsArePaired ==
  pc \in {"asking", "request"} /\ dialect = "chat" => Paired(RequestMessages)

(* The MCP connections of a task end with it, if its payload was finished, *)
(* all of them could be made and no stop falls into the cleanup.           *)
ClientsAreClosed ==
  pc = "over" /\ handed /\ broken = {} => connected = {}

(* The calls and results stored with an answer stay stored while it is     *)
(* continued, saved in real time, stopped or finished, at their places and *)
(* after the same items.                                                   *)
Kind(item) == <<item.type, item.id>>
KeepsTools(old, new) ==
  \A i \in DOMAIN old : old[i].type \in {"call", "result"} =>
    i \in DOMAIN new /\ \A j \in 1..i : Kind(new[j]) = Kind(old[j])
StoredResultsAreKept ==
  [][dialect = "chat" /\ past' = past => KeepsTools(row, row')]_vars

(* However tools, code and requests fail and whenever it is stopped, every *)
(* completion comes to its end.                                            *)
EveryAnswerEnds == []<>(pc \in {"over", "torn"})
=============================================================================
