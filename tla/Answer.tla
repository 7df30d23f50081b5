-------------------------------- MODULE Answer -------------------------------
(***************************************************************************)
(* How utils/middleware.py turns a provider's response into the stored     *)
(* answer of a chat message: streaming_chat_response_handler with its      *)
(* stream reader, its loop over tool calls and its loop over code blocks,  *)
(* and non_streaming_chat_response_handler.                                *)
(*                                                                         *)
(* The answer is `output', a sequence of items.  An item's text is only    *)
(* the number of deltas in it; ids, names, arguments, timing, citations,   *)
(* images, usage and the other display events are left out.  Every value   *)
(* of pc is a place where the coroutine awaits, and so where the stop of   *)
(* module Completion can land; all the code between two is one action.     *)
(***************************************************************************)
EXTENDS Naturals, SequencesExt

CONSTANTS Call,                 \* call ids, as the provider chooses them
          NoCall,               \* the id of the other items
          MaxEvents,            \* deltas and connections of a chat
          MaxToolRounds,        \* CHAT_RESPONSE_MAX_TOOL_CALL_RETRIES
          MaxCodeRounds         \* MAX_RETRIES of the code interpreter

ASSUME RoundsAssumption == /\ MaxEvents \in Nat
                           /\ MaxToolRounds \in Nat
                           /\ MaxCodeRounds \in Nat
                           /\ NoCall \notin Call

VARIABLES
  pc,           \* where the coroutine awaits
  dialect,      \* chat completions, responses events, or a whole response
  realtime,     \* ENABLE_REALTIME_CHAT_SAVE
  interpreter,  \* DETECT_CODE_INTERPRETER
  output,       \* the items of the answer
  local,        \* the handler's other local variables, a record:
                \*   phase    the loop whose stream is read
                \*   theirs   the items the provider sent as responses events
                \*   calls    response_tool_calls of this stream, or round
                \*   queue    tool_calls: those of streams not yet taken up
                \*   results  how many of `calls' have a result
                \*   tools    tool_call_retries
                \*   code     retries
  events,       \* deltas and connections so far
  row,          \* `output' in the message's row
  told          \* the items the browser was told with `done', if it was

mode == <<dialect, realtime, interpreter>>
store == <<row, told>>
answerVars == <<pc, local, mode, output, events, store>>

Types == {"message", "reasoning", "code", "call", "result"}
Items == [type : Types, id : Call \cup {NoCall}, text : Nat,
          open : BOOLEAN, tagged : BOOLEAN]

\* Places in the streaming handler's try block, and where it may leave to.
Working == {"stream", "flush", "toolLoop", "tools", "request", "codeLoop",
            "code", "finish", "telling"}
Whole == {"whole", "wholeTold"}
Left == {"ended", "raised", "cancelled"}

AnswerTypeOK ==
  /\ dialect \in {"chat", "responses", "whole"}
  /\ realtime \in BOOLEAN
  /\ interpreter \in BOOLEAN
  /\ output \in Seq(Items)
  /\ local \in [phase : {"first", "tools", "code"}, theirs : Seq(Items),
                 calls : Seq(Call), queue : Seq(Seq(Call)), results : Nat,
                 tools : 0..MaxToolRounds, code : 0..MaxCodeRounds]
  /\ events \in 0..MaxEvents
  /\ row \in Seq(Items)
  /\ told \in Seq(Seq(Items))

-----------------------------------------------------------------------------
(* Items                                                                   *)

Item(type, text) == [type |-> type, id |-> NoCall, text |-> text,
                     open |-> TRUE, tagged |-> FALSE]
CallItem(type, id) == [Item(type, 0) EXCEPT !.id = id]
CallItems(type, ids) == [i \in DOMAIN ids |-> CallItem(type, ids[i])]
Closed(item) == [item EXCEPT !.open = FALSE]

LastType(items) == IF items = <<>> THEN "none" ELSE Last(items).type
SetLast(items, item) == [items EXCEPT ![Len(items)] = item]
Grow(items, i) == [items EXCEPT ![i].text = @ + 1]
CloseAll(items) == [i \in DOMAIN items |-> Closed(items[i])]

\* inside_tag_block: text belongs to the block a tag has opened.
Inside(items) == /\ LastType(items) \in {"reasoning", "code"}
                 /\ Last(items).open /\ Last(items).tagged

\* Text ends the reasoning deltas that precede it.
EndReasoning(items) ==
  IF LastType(items) = "reasoning" /\ ~Last(items).tagged
  THEN Append(SetLast(items, Closed(Last(items))), Item("message", 0))
  ELSE items

AddText(items) ==
  LET now == EndReasoning(items)
  IN  IF Inside(now) \/ LastType(now) = "message"
      THEN Grow(now, Len(now)) ELSE Append(now, Item("message", 1))

AddReasoning(items) ==
  IF LastType(items) = "reasoning"
  THEN Grow(items, Len(items)) ELSE Append(items, Item("reasoning", 1))

\* tag_output_handler.  A start tag splits the last message: what was before
\* it may be nothing, what is after it counts as the next delta.
Blocks == {"reasoning"} \cup (IF interpreter THEN {"code"} ELSE {})
Started(items) ==
  IF LastType(items) # "message" THEN {}
  ELSE {Append(before, [Item(type, 0) EXCEPT !.tagged = TRUE]) :
          before \in {items, Front(items)}, type \in Blocks}

\* An end tag ends the block (an empty one goes) and starts a message with
\* what is left over.  The status of a code block is not changed.
Ended(items) ==
  IF ~Inside(items) THEN {}
  ELSE LET block == IF LastType(items) = "code" THEN Last(items)
                    ELSE Closed(Last(items))
       IN {Append(body, Item("message", rest)) :
             body \in {Front(items), SetLast(items, block)}, rest \in {0, 1}}

\* The last message goes if it is empty, an unfinished reasoning is closed.
Tidy(items) ==
  LET shorter == IF LastType(items) = "message" /\ Last(items).text = 0
                    /\ Len(items) > 1
                 THEN Front(items) ELSE items
  IN  IF LastType(shorter) = "reasoning"
      THEN SetLast(shorter, Closed(Last(shorter))) ELSE shorter

\* The handler's local variables when it starts, and when it is gone.
NoLocal == [phase |-> "first", theirs |-> <<>>, calls |-> <<>>, queue |-> <<>>,
            results |-> 0, tools |-> 0, code |-> 0]

-----------------------------------------------------------------------------
(* stream_body_handler                                                     *)

\* mutant: a continued answer starts empty.
BeginAfresh ==
  /\ output' = <<>>
  /\ local' = NoLocal
  /\ pc' = "stream"

\* The handler starts from what the row holds when an answer is continued.
BeginStream ==
  /\ output' = row
  /\ local' = NoLocal
  /\ pc' = "stream"

Delta(dialects) ==
  /\ pc = "stream"
  /\ dialect \in dialects
  /\ events < MaxEvents
  /\ events' = events + 1

\* A text delta, with the tag that it completes.  The end of a code block
\* breaks out of the stream before anything is saved in real time.
TextDelta ==
  /\ Delta({"chat"})
  /\ LET text == AddText(output)
     IN \/ /\ output' \in {text} \cup Started(text) \cup
                  (IF LastType(text) = "code" THEN {} ELSE Ended(text))
           /\ row' = IF realtime THEN output' ELSE row
           /\ UNCHANGED pc
        \/ /\ LastType(text) = "code"
           /\ output' \in Ended(text)
           /\ pc' = "flush"
           /\ UNCHANGED row
  /\ UNCHANGED <<local, mode, told>>

ReasoningDelta ==
  /\ Delta({"chat"})
  /\ output' = AddReasoning(output)
  /\ UNCHANGED <<pc, local, mode, store>>

\* A delta of a call with a new index; the others only make it longer.
CallDelta(c) ==
  /\ Delta({"chat"})
  /\ ~Contains(local.calls, c)
  /\ local' = [local EXCEPT !.calls = Append(@, c)]
  /\ UNCHANGED <<pc, mode, output, store>>

\* handle_responses_streaming_event: output_item.added ...
ItemAdded(item) ==
  /\ Delta({"responses"})
  /\ output' = Append(output, item)
  /\ local' = [local EXCEPT !.theirs = Append(@, item)]
  /\ UNCHANGED <<pc, mode, store>>

\* ... *.delta: output_index counts the provider's items, whatever the answer
\* had before; text for an item that takes none is dropped ...
ItemDelta(i) ==
  /\ Delta({"responses"})
  /\ i \in DOMAIN local.theirs
  /\ local' = [local EXCEPT !.theirs = Grow(@, i)]
  /\ output' = IF output[i].type \in {"message", "reasoning"}
               THEN Grow(output, i) ELSE output
  /\ UNCHANGED <<pc, mode, store>>

\* ... output_item.done, with the item in its final form ...
ItemDone(i) ==
  /\ pc = "stream" /\ dialect = "responses"
  /\ i \in DOMAIN local.theirs
  /\ local' = [local EXCEPT !.theirs[i] = Closed(@)]
  /\ output' = [output EXCEPT ![i] = Closed(local.theirs[i])]
  /\ UNCHANGED <<pc, mode, events, store>>

\* ... and response.completed, which has the whole response and says done.
ResponseCompleted ==
  /\ pc = "stream" /\ dialect = "responses"
  /\ output' = CloseAll(local.theirs)
  /\ told' = <<output'>>
  /\ pc' = "flush"
  /\ UNCHANGED <<local, mode, events, row>>

StreamEnds ==
  /\ pc \in {"stream", "flush"}
  /\ output' = Tidy(output)
  /\ local' = [local EXCEPT !.calls = <<>>,
                 !.queue = @ \o IF local.calls = <<>> THEN <<>>
                                ELSE <<local.calls>>]
  /\ pc' = IF local.phase = "code" THEN "codeLoop" ELSE "toolLoop"
  /\ UNCHANGED <<mode, events, store>>

-----------------------------------------------------------------------------
(* The tool loop and the code loop                                         *)

MoreTools == local.queue # <<>> /\ local.tools < MaxToolRounds
MoreCode == /\ interpreter
            /\ LastType(output) = "code"
            /\ local.code < MaxCodeRounds

BeginTools ==
  /\ pc = "toolLoop"
  /\ MoreTools
  /\ local' = [local EXCEPT !.tools = @ + 1, !.results = 0,
                            !.calls = Head(local.queue), !.queue = Tail(@)]
  /\ output' = output \o CallItems("call", Head(local.queue))
  /\ pc' = "tools"
  /\ UNCHANGED <<mode, events, store>>

LeaveTools ==
  /\ pc = "toolLoop"
  /\ ~MoreTools
  /\ pc' = "codeLoop"
  /\ UNCHANGED <<local, mode, output, events, store>>

\* mutant: the tool's handler takes the cancellation for a failed tool.
RunToolWhatever ==
  /\ pc \in {"tools", "stopping"} /\ local.results < Len(local.calls)
  /\ local' = [local EXCEPT !.results = @ + 1]
  /\ pc' = "tools"
  /\ UNCHANGED <<mode, output, events, store>>

\* Bad arguments and a tool that fails are results like any other.
RunTool ==
  /\ pc = "tools"
  /\ local.results < Len(local.calls)
  /\ local' = [local EXCEPT !.results = @ + 1]
  /\ UNCHANGED <<pc, mode, output, events, store>>

\* process_tool_result and terminal_event_handler are outside of the try.
ToolBreaks ==
  /\ pc = "tools"
  /\ pc' = "raised"
  /\ UNCHANGED <<local, mode, output, events, store>>

\* A call is marked completed at the first item with its id.
MarkCalls(items, ids) ==
  [i \in DOMAIN items |->
     IF /\ items[i].type = "call" /\ items[i].id \in ids
        /\ \A j \in 1..(i - 1) :
              ~(items[j].type = "call" /\ items[j].id = items[i].id)
     THEN Closed(items[i]) ELSE items[i]]

\* The items of a round, all of its results there, and its next request.
AnswerTools ==
  /\ pc = "tools"
  /\ local.results = Len(local.calls)
  /\ output' = MarkCalls(output, ToSet(local.calls))
               \o CloseAll(CallItems("result", local.calls))
               \o <<Item("message", 0)>>
  /\ local' = [local EXCEPT !.calls = <<>>, !.phase = "tools"]
  /\ pc' = "request"
  /\ UNCHANGED <<mode, events, store>>

BeginCode ==
  /\ pc = "codeLoop"
  /\ MoreCode
  /\ local' = [local EXCEPT !.code = @ + 1]
  /\ pc' = "code"
  /\ UNCHANGED <<mode, output, events, store>>

\* Code that fails has its message as output.
RunCode ==
  /\ pc = "code"
  /\ output' = Append(SetLast(output, Closed(Last(output))), Item("message", 0))
  /\ local' = [local EXCEPT !.phase = "code"]
  /\ pc' = "request"
  /\ UNCHANGED <<mode, events, store>>

\* The next stream, after results or a code output.
Request ==
  /\ pc = "request"
  /\ pc' = "stream"
  /\ UNCHANGED <<local, mode, output, events, store>>

\* mutant: a request that failed is made again.
StreamBreaksAgain ==
  /\ pc \in {"request", "stream"}
  /\ pc' = IF local.phase = "first" THEN "raised" ELSE "request"
  /\ local' = [local EXCEPT !.calls = <<>>]
  /\ UNCHANGED <<mode, output, events, store>>

\* A request refused, or a stream broken, ends its loop; the first stream is
\* read outside of any loop, and breaks the whole handler.
StreamBreaks ==
  /\ pc \in {"request", "stream"}
  /\ pc' = CASE local.phase = "first" -> "raised"
             [] local.phase = "tools" -> "codeLoop"
             [] OTHER -> "finish"
  /\ local' = [local EXCEPT !.calls = <<>>]
  /\ UNCHANGED <<mode, output, events, store>>

-----------------------------------------------------------------------------
(* The end of an answer                                                    *)

\* mutant: the answer is saved before its items are marked completed.
FinishSavesFirst ==
  /\ pc = "finish" \/ (pc = "codeLoop" /\ ~MoreCode)
  /\ output' = CloseAll(output)
  /\ row' = IF realtime THEN row ELSE output
  /\ pc' = "telling"
  /\ UNCHANGED <<local, mode, events, told>>

Finish ==
  /\ pc = "finish" \/ (pc = "codeLoop" /\ ~MoreCode)
  /\ output' = CloseAll(output)
  /\ row' = IF realtime THEN row ELSE output'
  /\ pc' = "telling"
  /\ UNCHANGED <<local, mode, events, told>>

TellDone ==
  /\ pc = "telling"
  /\ told' = <<output>>
  /\ pc' = "background"
  /\ UNCHANGED <<local, mode, output, events, row>>

\* background_tasks_handler: follow-ups, title and tags, none of them here.
\* If it fails, the streaming handler does too.
BackgroundTasks ==
  /\ pc = "background"
  /\ \/ pc' = "ended"
     \/ pc' = "raised" /\ dialect # "whole"
  /\ UNCHANGED <<local, mode, output, events, store>>

\* mutant: only what was told is saved.
SaveStoppedIfTold ==
  /\ pc = "stopping"
  /\ row' = IF realtime \/ told = <<>> THEN row ELSE output
  /\ pc' = "ended"
  /\ UNCHANGED <<local, mode, output, events, told>>

\* except CancelledError: tell the browser, then save.
SaveStopped ==
  /\ pc = "stopping"
  /\ row' = IF realtime THEN row ELSE output
  /\ pc' = "ended"
  /\ UNCHANGED <<local, mode, output, events, told>>

\* non_streaming_chat_response_handler: it says done before it saves.
TellWhole ==
  /\ pc = "whole"
  /\ told' = <<output>>
  /\ pc' = "wholeTold"
  /\ UNCHANGED <<local, mode, output, events, row>>

SaveWhole ==
  /\ pc = "wholeTold"
  /\ \/ row' = output /\ pc' = "background"
     \/ UNCHANGED row /\ pc' = "ended"          \* except Exception: pass
  /\ UNCHANGED <<local, mode, output, events, told>>

AnswerStep ==
  \/ TextDelta \/ ReasoningDelta \/ (\E c \in Call : CallDelta(c))
  \/ \E type \in {"message", "reasoning", "call"} :
        \E id \in IF type = "call" THEN Call ELSE {NoCall} :
           ItemAdded(CallItem(type, id))
  \/ \E i \in DOMAIN local.theirs : ItemDelta(i) \/ ItemDone(i)
  \/ ResponseCompleted \/ StreamEnds \/ StreamBreaks
  \/ BeginTools \/ LeaveTools \/ RunTool \/ ToolBreaks \/ AnswerTools
  \/ BeginCode \/ RunCode \/ Request
  \/ Finish \/ TellDone \/ BackgroundTasks \/ SaveStopped
  \/ TellWhole \/ SaveWhole
=============================================================================
