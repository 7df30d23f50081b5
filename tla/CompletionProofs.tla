--------------------------- MODULE CompletionProofs --------------------------
(***************************************************************************)
(* The safety properties of a completion, for any number of deltas, tool   *)
(* and code rounds, MCP servers, stops and turns: a stopped answer stays   *)
(* stopped, a done answer is saved, a stop saves what there is, the        *)
(* clients handed to the cleanup are closed, the calls of a request have   *)
(* their results, and stored results stay.                                 *)
(***************************************************************************)
EXTENDS Completion, NaturalsInduction, WellFoundedInduction, TLAPS

\* The steps of the answer that begin in the place they name.
Streaming == \/ TextDelta \/ ReasoningDelta \/ (\E c \in Call : CallDelta(c))
             \/ \E type \in {"message", "reasoning", "call"} :
                   \E id \in IF type = "call" THEN Call ELSE {NoCall} :
                      ItemAdded(CallItem(type, id))
             \/ \E i \in DOMAIN local.theirs : ItemDelta(i) \/ ItemDone(i)
             \/ ResponseCompleted \/ StreamEnds \/ StreamBreaks
Looping == \/ BeginTools \/ LeaveTools \/ RunTool \/ ToolBreaks \/ AnswerTools
           \/ BeginCode \/ RunCode \/ Request
Ending == \/ Finish \/ TellDone \/ BackgroundTasks \/ SaveStopped
          \/ TellWhole \/ SaveWhole

LEMMA AnswerStepCases == AnswerStep => Streaming \/ Looping \/ Ending
  BY DEF AnswerStep, Streaming, Looping, Ending

\* Streams and loops are read and run in these places only, and lead only to
\* those of the try block or to an error.
LEMMA StreamingPlaces ==
  Streaming => pc \in {"stream", "flush", "request"} /\ pc' \in Working \cup Left
  BY DEF Streaming, TextDelta, ReasoningDelta, CallDelta, ItemAdded, ItemDelta,
         ItemDone, ResponseCompleted, StreamEnds, StreamBreaks, Delta, Working, Left

LEMMA LoopingPlaces ==
  Looping => /\ pc \in {"toolLoop", "tools", "codeLoop", "code", "request"}
             /\ pc' \in {"tools", "codeLoop", "code", "request", "stream", "raised"}
             /\ UNCHANGED <<mode, store>>
  BY DEF Looping, BeginTools, LeaveTools, RunTool, ToolBreaks, AnswerTools,
         BeginCode, RunCode, Request

-----------------------------------------------------------------------------
(* A stopped answer stays stopped: whatever tool, code or request was      *)
(* under way, the handler only saves what it has and leaves.               *)
THEOREM StaysStopped == Spec => StoppedStaysStopped
<1> DEFINE A == pc \in {"stopping", "cancelled"}
                  => /\ pc' \in {"cancelled", "ended", "cleanup"}
                     /\ output' = output
                     /\ row' \in {row, output}
<1>1. ASSUME Next, pc \in {"stopping", "cancelled"} PROVE A
  <2>1. CASE AnswerStep /\ UNCHANGED <<clients, error, chat, stops>>
    <3>1. Ending
      BY <1>1, <2>1, AnswerStepCases, StreamingPlaces, LoopingPlaces
    <3> QED
      BY <1>1, <3>1 DEF Ending, Finish, TellDone, BackgroundTasks, SaveStopped,
                        TellWhole, SaveWhole
  <2>2. CASE \/ (\E s \in Server : Connect(s)) \/ PayloadReady \/ PayloadFails
             \/ Respond \/ SaveError \/ Leave \/ Cleanup
    BY <1>1, <2>2 DEF Connect, PayloadReady, PayloadFails, Respond, SaveError,
                      Leave, Cleanup, store
  <2>3. CASE Stop
    BY <1>1, <2>3 DEF Stop, Working, Whole, store
  <2>4. CASE NextTurn
    BY <1>1, <2>4 DEF NextTurn
  <2> QED
    BY <1>1, <2>1, <2>2, <2>3, <2>4 DEF Next, Step
<1>2. [Next]_vars => [A]_vars
  BY <1>1
<1> QED
  BY <1>2, PTL DEF Spec, StoppedStaysStopped

-----------------------------------------------------------------------------
(* What was told is what the answer is and what its row holds, because     *)
(* nothing after the telling changes any of the three.                     *)
Settled == {"background", "stopping", "ended", "raised", "cancelled",
            "cleanup", "over", "torn"}
SavedInv ==
  /\ pc \in Whole => dialect = "whole"
  /\ dialect = "chat" /\ ~realtime =>
       /\ pc = "telling" => row = output
       /\ told # <<>> => pc \in Settled /\ row = output /\ told = <<output>>

LEMMA SavedStep == SavedInv /\ [Next]_vars => SavedInv'
<1> SUFFICES ASSUME SavedInv, [Next]_vars PROVE SavedInv'
  OBVIOUS
<1> USE DEF SavedInv, Settled, mode, store
<1>1. CASE Streaming
  <2>1. pc' \notin Whole \cup {"telling"} \/ pc' = pc
    BY <1>1 DEF Streaming, TextDelta, ReasoningDelta, CallDelta, ItemAdded,
                ItemDelta, ItemDone, ResponseCompleted, StreamEnds,
                StreamBreaks, Delta, Whole
  <2>2. dialect' = dialect /\ realtime' = realtime
        /\ (dialect = "chat" => told' = told)
    BY <1>1 DEF Streaming, TextDelta, ReasoningDelta, CallDelta, ItemAdded,
                ItemDelta, ItemDone, ResponseCompleted, StreamEnds,
                StreamBreaks, Delta
  <2>3. pc \in {"stream", "flush", "request"}
    BY <1>1, StreamingPlaces
  <2> QED
    BY <2>1, <2>2, <2>3 DEF Whole
<1>2. CASE Looping
  BY <1>2, LoopingPlaces DEF Whole
<1>3. CASE Ending
  <2>1. CASE Finish
    BY <2>1 DEF Finish, Whole
  <2>2. CASE TellDone
    BY <2>2 DEF TellDone, Whole
  <2>3. CASE BackgroundTasks
    BY <2>3 DEF BackgroundTasks, Whole
  <2>4. CASE SaveStopped
    BY <2>4 DEF SaveStopped, Whole
  <2>5. CASE TellWhole \/ SaveWhole
    BY <2>5 DEF TellWhole, SaveWhole, Whole
  <2> QED
    BY <1>3, <2>1, <2>2, <2>3, <2>4, <2>5 DEF Ending
<1>4. CASE \/ (\E s \in Server : Connect(s)) \/ PayloadReady \/ PayloadFails
           \/ SaveError \/ Leave \/ Cleanup
  BY <1>4 DEF Connect, PayloadReady, PayloadFails, SaveError, Leave, Cleanup, Whole
<1>5. CASE Respond
  BY <1>5 DEF Respond, BeginStream, Whole
<1>6. CASE Stop
  BY <1>6 DEF Stop, Working, Whole
<1>7. CASE NextTurn
  BY <1>7 DEF NextTurn, Whole
<1>8. CASE UNCHANGED vars
  BY <1>8 DEF vars, answerVars
<1> QED
  BY <1>1, <1>2, <1>3, <1>4, <1>5, <1>6, <1>7, <1>8, AnswerStepCases
  DEF Next, Step

(* The answer that was told to be done is the answer stored.               *)
THEOREM ToldIsSaved == Spec => []DoneIsSaved
<1>1. Init => SavedInv
  BY DEF Init, SavedInv, Whole
<1>2. SavedInv => DoneIsSaved
  BY DEF SavedInv, DoneIsSaved
<1> QED
  BY <1>1, <1>2, SavedStep, PTL DEF Spec

-----------------------------------------------------------------------------
(* Every connected client is in the list the cleanup goes through, and the *)
(* cleanup comes to all of it if none of them is broken.                   *)
ClientInv ==
  /\ dialled \in Seq(Server)
  /\ connected \subseteq ToSet(dialled)
  /\ ClientsAreClosed

LEMMA ClientStep == ClientInv /\ [Next]_vars => ClientInv'
<1> SUFFICES ASSUME ClientInv, [Next]_vars PROVE ClientInv'
  OBVIOUS
<1> USE DEF ClientInv, ClientsAreClosed, clients
<1>1. CASE AnswerStep /\ UNCHANGED <<clients, error, chat, stops>>
  <2>1. pc' # "over"
    BY <1>1, AnswerStepCases, StreamingPlaces, LoopingPlaces
    DEF Working, Left, Ending, Finish, TellDone, BackgroundTasks, SaveStopped,
        TellWhole, SaveWhole
  <2> QED
    BY <1>1, <2>1
<1>2. ASSUME NEW s \in Server, Connect(s) PROVE ClientInv'
  <2>1. /\ pc' = "payload"
        /\ dialled' = Append(dialled, s)
        /\ connected' \subseteq connected \cup {s}
    BY <1>2 DEF Connect
  <2>2. dialled' \in Seq(Server) /\ ToSet(dialled') = ToSet(dialled) \cup {s}
    BY <2>1 DEF ToSet
  <2> QED
    BY <2>1, <2>2
<1>3. CASE PayloadReady \/ PayloadFails \/ Respond \/ SaveError \/ Leave
  BY <1>3 DEF PayloadReady, PayloadFails, Respond, BeginStream, SaveError, Leave
<1>4. CASE Cleanup
  <2>1. /\ dialled' = dialled /\ broken' = broken /\ handed' = handed
        /\ connected' \subseteq connected
        /\ handed => connected' = connected \ {dialled[i] : i \in Reached}
    BY <1>4 DEF Cleanup
  <2>2. broken = {} => {dialled[i] : i \in Reached} = ToSet(dialled)
    BY DEF Reached, ToSet
  <2> QED
    BY <2>1, <2>2
<1>5. CASE Stop
  BY <1>5 DEF Stop
<1>6. CASE NextTurn
  BY <1>6 DEF NextTurn, ToSet
<1>7. CASE UNCHANGED vars
  BY <1>7 DEF vars, answerVars
<1> QED
  BY <1>1, <1>2, <1>3, <1>4, <1>5, <1>6, <1>7 DEF Next, Step

(* The clients of a payload that was finished are closed with its task.    *)
THEOREM CleanupClosesAll == Spec => []ClientsAreClosed
<1>1. Init => ClientInv
  BY DEF Init, ClientInv, ClientsAreClosed, ToSet
<1>2. ClientInv => ClientsAreClosed
  BY DEF ClientInv
<1> QED
  BY <1>1, <1>2, ClientStep, PTL DEF Spec

-----------------------------------------------------------------------------
(* From its first save on, a first answer is what its row holds; before,   *)
(* only an error or a second stop leave the handler without a save.        *)
Unsaved == error \/ stops >= 2
StopInv ==
  /\ pc \in Whole => dialect = "whole"
  /\ turn \in Nat \ {0} /\ stops \in Nat
  /\ Streamed /\ ~realtime /\ turn = 1 =>
       /\ pc \in {"payload", "asking"} => row = <<>> /\ output = <<>>
       /\ stops = 0 => pc \notin {"stopping", "cancelled"}
       /\ pc \in {"telling", "background", "ended"} => row = output
       /\ pc \in {"cancelled", "cleanup", "over", "torn"} => Unsaved \/ row = output

LEMMA StopStep == StopInv /\ [Next]_vars => StopInv'
<1> SUFFICES ASSUME StopInv, [Next]_vars PROVE StopInv'
  OBVIOUS
<1> USE DEF StopInv, Unsaved, Streamed, mode, store, chat
<1>1. ASSUME Streaming, UNCHANGED <<clients, error, chat, stops>> PROVE StopInv'
  <2>1. pc' \in {"stream", "flush", "toolLoop", "codeLoop", "finish", "raised"}
    BY <1>1 DEF Streaming, TextDelta, ReasoningDelta, CallDelta, ItemAdded,
                ItemDelta, ItemDone, ResponseCompleted, StreamEnds,
                StreamBreaks, Delta
  <2> QED
    BY <1>1, <2>1 DEF Whole
<1>2. ASSUME Looping, UNCHANGED <<clients, error, chat, stops>> PROVE StopInv'
  BY <1>2, LoopingPlaces DEF Whole
<1>3. ASSUME Ending, UNCHANGED <<clients, error, chat, stops>> PROVE StopInv'
  <2>1. CASE Finish
    BY <1>3, <2>1 DEF Finish, Whole
  <2>2. CASE TellDone \/ BackgroundTasks
    BY <1>3, <2>2 DEF TellDone, BackgroundTasks, Whole
  <2>3. CASE SaveStopped
    BY <1>3, <2>3 DEF SaveStopped, Whole
  <2>4. CASE TellWhole \/ SaveWhole
    BY <1>3, <2>4 DEF TellWhole, SaveWhole, Whole
  <2> QED
    BY <1>3, <2>1, <2>2, <2>3, <2>4 DEF Ending
<1>4. CASE \/ (\E s \in Server : Connect(s)) \/ PayloadReady \/ PayloadFails
           \/ SaveError \/ Leave \/ Cleanup
  BY <1>4 DEF Connect, PayloadReady, PayloadFails, SaveError, Leave, Cleanup, Whole
<1>5. CASE Respond
  BY <1>5 DEF Respond, BeginStream, Whole
<1>6. CASE Stop
  BY <1>6 DEF Stop, Working, Whole
<1>7. CASE NextTurn
  BY <1>7 DEF NextTurn, Whole
<1>8. CASE UNCHANGED vars
  BY <1>8 DEF vars, answerVars
<1> QED
  BY <1>1, <1>2, <1>3, <1>4, <1>5, <1>6, <1>7, <1>8, AnswerStepCases
  DEF Next, Step

(* A stop, wherever it lands, leaves in the row what the answer has come   *)
(* to, unless a second stop comes before the save.                         *)
THEOREM StopSaves == Spec => []StoppedIsSaved
<1>1. Init => StopInv
  BY DEF Init, StopInv, Whole
<1>2. StopInv => StoppedIsSaved
  BY DEF StopInv, Unsaved, StoppedIsSaved
<1> QED
  BY <1>1, <1>2, StopStep, PTL DEF Spec

-----------------------------------------------------------------------------
(* Text in an answer.  Tags, reasoning and tidying change its end, and     *)
(* never an item up to the last call or result.                            *)

\* Items the tool loop makes, and items that count as the same.
Tool == {"call", "result"}
Alike(a, b) == a.type = b.type /\ a.id = b.id /\ a.text = b.text

\* How text changes an answer: what precedes some place keeps its kind and
\* its text, and no calls or results were or are behind it.
TextEdit(old, new) ==
  /\ new \in Seq(Items)
  /\ \E n \in Nat :
       /\ n <= Len(old) /\ n <= Len(new)
       /\ \A i \in 1..n : Alike(old[i], new[i])
       /\ \A i \in (n + 1)..Len(old) : old[i].type \notin Tool
       /\ \A i \in (n + 1)..Len(new) : new[i].type \notin Tool

\* An item as it is made, and closed.
LEMMA ItemType ==
  ASSUME NEW type \in Types, NEW text \in Nat
  PROVE  /\ Item(type, text) \in Items
         /\ Item(type, text).type = type
  BY DEF Item, Items

LEMMA ClosedType ==
  ASSUME NEW item \in Items
  PROVE  Closed(item) \in Items /\ Alike(item, Closed(item))
  BY DEF Closed, Items, Alike

\* A longer common part will do as well, up to the last call or result.
LEMMA TextEditUpTo ==
  ASSUME NEW x, NEW y \in Seq(Items), NEW n \in Nat,
         n <= Len(x), n <= Len(y),
         \A i \in 1..n : Alike(x[i], y[i]),
         \A i \in (n + 1)..Len(x) : x[i].type \notin Tool,
         \A i \in (n + 1)..Len(y) : y[i].type \notin Tool
  PROVE  TextEdit(x, y)
  BY Zenon DEF TextEdit

\* Edits follow each other.
LEMMA TextEditTrans ==
  ASSUME NEW x \in Seq(Items), NEW y \in Seq(Items), NEW z,
         TextEdit(x, y), TextEdit(y, z)
  PROVE  TextEdit(x, z)
<1>1. PICK n \in Nat : /\ n <= Len(x) /\ n <= Len(y)
                       /\ \A i \in 1..n : Alike(x[i], y[i])
                       /\ \A i \in (n + 1)..Len(x) : x[i].type \notin Tool
                       /\ \A i \in (n + 1)..Len(y) : y[i].type \notin Tool
  BY DEF TextEdit
<1>2. PICK m \in Nat : /\ m <= Len(y) /\ m <= Len(z)
                       /\ \A i \in 1..m : Alike(y[i], z[i])
                       /\ \A i \in (m + 1)..Len(y) : y[i].type \notin Tool
                       /\ \A i \in (m + 1)..Len(z) : z[i].type \notin Tool
  BY DEF TextEdit
<1>3. z \in Seq(Items)
  BY DEF TextEdit
<1> HIDE DEF TextEdit
<1>4. CASE n <= m
  <2>1. \A i \in 1..n : Alike(x[i], z[i])
    BY <1>1, <1>2, <1>4 DEF Alike
  <2>2. \A i \in (n + 1)..Len(z) : z[i].type \notin Tool
    <3> TAKE i \in (n + 1)..Len(z)
    <3>1. CASE i <= m
      BY <1>1, <1>2, <1>3, <3>1 DEF Alike
    <3> QED
      BY <1>2, <1>3, <3>1
  <2> QED
    <3>1. n <= Len(z)
      BY <1>1, <1>2, <1>3, <1>4
    <3> QED
      BY <1>1, <1>3, <2>1, <2>2, <3>1, TextEditUpTo
<1>5. CASE m < n
  <2>1. \A i \in 1..m : Alike(x[i], z[i])
    BY <1>1, <1>2, <1>5 DEF Alike
  <2>2. \A i \in (m + 1)..Len(x) : x[i].type \notin Tool
    <3> TAKE i \in (m + 1)..Len(x)
    <3>1. CASE i <= n
      BY <1>1, <1>2, <3>1 DEF Alike
    <3> QED
      BY <1>1, <3>1
  <2> QED
    <3>1. m <= Len(x)
      BY <1>1, <1>2, <1>3, <1>5
    <3> QED
      BY <1>2, <1>3, <2>1, <2>2, <3>1, TextEditUpTo
<1> QED
  BY <1>1, <1>2, <1>4, <1>5

\* No edit: the same kinds at the same places.
LEMMA TextEditSame ==
  ASSUME NEW x \in Seq(Items), NEW y \in Seq(Items), Len(y) = Len(x),
         \A i \in 1..Len(x) : Alike(x[i], y[i])
  PROVE  TextEdit(x, y)
  BY DEF TextEdit

LEMMA TextEditRefl ==
  ASSUME NEW x \in Seq(Items) PROVE TextEdit(x, x)
  BY TextEditSame DEF Alike

\* The edits at the end of an answer: an item more, ...
LEMMA TextEditAppend ==
  ASSUME NEW x \in Seq(Items), NEW e \in Items, e.type \notin Tool
  PROVE  TextEdit(x, Append(x, e))
  BY DEF TextEdit, Alike

\* ... the last one changed, when it is text, ...
LEMMA LastOf ==
  ASSUME NEW x \in Seq(Items), x # <<>>
  PROVE  /\ Len(x) \in Nat \ {0} /\ Last(x) = x[Len(x)] /\ Last(x) \in Items
         /\ LastType(x) = Last(x).type
  BY DEF Last, LastType

LEMMA LastTypeOf ==
  ASSUME NEW x \in Seq(Items), LastType(x) \in Types
  PROVE  x # <<>> /\ Last(x) \in Items /\ Last(x).type = LastType(x)
  BY LastOf DEF LastType, Types

LEMMA TextEditLast ==
  ASSUME NEW x \in Seq(Items), x # <<>>, Last(x).type \notin Tool,
         NEW e \in Items, e.type \notin Tool
  PROVE  TextEdit(x, SetLast(x, e)) /\ SetLast(x, e) # <<>>
         /\ Last(SetLast(x, e)) = e
<1>1. Len(x) \in Nat \ {0} /\ Last(x) = x[Len(x)]
  BY LastOf
<1>2. /\ SetLast(x, e) \in Seq(Items) /\ Len(SetLast(x, e)) = Len(x)
      /\ SetLast(x, e)[Len(x)] = e
      /\ \A i \in 1..(Len(x) - 1) : SetLast(x, e)[i] = x[i]
  BY <1>1 DEF SetLast
<1>3. PICK n \in Nat : n = Len(x) - 1
  BY <1>1
<1>4. TextEdit(x, SetLast(x, e))
  <2>1. \A i \in 1..n : Alike(x[i], SetLast(x, e)[i])
    BY <1>2, <1>3 DEF Alike
  <2>2. \A i \in (n + 1)..Len(x) : x[i].type \notin Tool /\ SetLast(x, e)[i].type \notin Tool
    BY <1>1, <1>2, <1>3
  <2> QED
    BY <1>2, <1>3, <2>1, <2>2, TextEditUpTo
<1> QED
  BY <1>1, <1>2, <1>4 DEF Last

\* ... or gone.
LEMMA TextEditFront ==
  ASSUME NEW x \in Seq(Items), x # <<>>, Last(x).type \notin Tool
  PROVE  TextEdit(x, Front(x)) /\ Front(x) \in Seq(Items)
<1>1. Len(x) \in Nat \ {0} /\ Last(x) = x[Len(x)]
  BY LastOf
<1>2. PICK n \in Nat : n = Len(x) - 1
  BY <1>1
<1>3. /\ Front(x) \in Seq(Items) /\ Len(Front(x)) = n
      /\ \A i \in 1..n : Front(x)[i] = x[i]
  <2>1. SubSeq(x, 1, n) \in Seq(Items) /\ Len(SubSeq(x, 1, n)) = n
        /\ \A i \in 1..n : SubSeq(x, 1, n)[i] = x[i]
    BY <1>1, <1>2
  <2> QED
    BY <1>2, <2>1 DEF Front
<1>4. \A i \in 1..n : Alike(x[i], Front(x)[i])
  BY <1>3 DEF Alike
<1>5. \A i \in (n + 1)..Len(x) : x[i].type \notin Tool
  BY <1>1, <1>2
<1> QED
  BY <1>2, <1>3, <1>4, <1>5, TextEditUpTo

LEMMA TextEditType ==
  ASSUME NEW x, NEW y, TextEdit(x, y) PROVE y \in Seq(Items)
  BY DEF TextEdit

LEMMA GrowLast ==
  ASSUME NEW x \in Seq(Items), x # <<>>, Last(x).type \notin Tool
  PROVE  TextEdit(x, Grow(x, Len(x))) /\ LastType(Grow(x, Len(x))) = LastType(x)
<1> DEFINE e == [Last(x) EXCEPT !.text = @ + 1]
<1>1. Len(x) \in Nat \ {0} /\ Last(x) = x[Len(x)] /\ Last(x) \in Items
  BY LastOf
<1>2. e \in Items /\ e.type = Last(x).type
  BY <1>1 DEF Items
<1>3. Grow(x, Len(x)) = SetLast(x, e)
  BY <1>1 DEF Grow, SetLast
<1> HIDE DEF e
<1>4. TextEdit(x, SetLast(x, e)) /\ SetLast(x, e) # <<>> /\ Last(SetLast(x, e)) = e
  BY <1>2, TextEditLast
<1> QED
  BY <1>2, <1>3, <1>4 DEF LastType

\* Items made here, and what is left of the last one, are no calls or results.
LEMMA TextItems ==
  ASSUME NEW type \in {"message", "reasoning", "code"}, NEW text \in Nat
  PROVE  /\ Item(type, text) \in Items /\ Item(type, text).type \notin Tool
         /\ [Item(type, text) EXCEPT !.tagged = TRUE] \in Items
         /\ [Item(type, text) EXCEPT !.tagged = TRUE].type \notin Tool
  BY DEF Item, Items, Types, Tool

LEMMA LastIsText ==
  ASSUME NEW x \in Seq(Items), LastType(x) \in {"message", "reasoning", "code"}
  PROVE  /\ x # <<>> /\ Last(x) \in Items /\ Last(x).type = LastType(x)
         /\ Last(x).type \notin Tool
         /\ Closed(Last(x)) \in Items /\ Closed(Last(x)).type \notin Tool
<1>1. x # <<>> /\ Last(x) \in Items /\ Last(x).type = LastType(x)
  BY LastTypeOf DEF Types
<1> QED
  BY <1>1 DEF Closed, Items, Tool

\* Every operator of the stream reader is an edit of text.
LEMMA EndReasoningEdits ==
  ASSUME NEW x \in Seq(Items)
  PROVE  TextEdit(x, EndReasoning(x))
<1>1. CASE LastType(x) = "reasoning" /\ ~Last(x).tagged
  <2> DEFINE y == SetLast(x, Closed(Last(x)))
  <2>1. TextEdit(x, y) /\ y \in Seq(Items)
    BY <1>1, LastIsText, TextEditLast, TextEditType
  <2>2. EndReasoning(x) = Append(y, Item("message", 0))
    BY <1>1 DEF EndReasoning
  <2> HIDE DEF y
  <2>3. TextEdit(y, Append(y, Item("message", 0)))
    BY <2>1, TextItems, TextEditAppend
  <2> QED
    BY <2>1, <2>2, <2>3, TextEditTrans
<1>2. CASE ~(LastType(x) = "reasoning" /\ ~Last(x).tagged)
  BY <1>2, TextEditRefl DEF EndReasoning
<1> QED
  BY <1>1, <1>2

LEMMA AddTextEdits ==
  ASSUME NEW x \in Seq(Items)
  PROVE  TextEdit(x, AddText(x))
<1> DEFINE y == EndReasoning(x)
<1>1. TextEdit(x, y) /\ y \in Seq(Items)
  BY EndReasoningEdits, TextEditType
<1>2. AddText(x) = IF Inside(y) \/ LastType(y) = "message"
                   THEN Grow(y, Len(y)) ELSE Append(y, Item("message", 1))
  BY DEF AddText
<1> HIDE DEF y
<1>3. TextEdit(y, AddText(x))
  <2>1. CASE Inside(y) \/ LastType(y) = "message"
    BY <1>1, <1>2, <2>1, LastIsText, GrowLast DEF Inside
  <2>2. CASE ~(Inside(y) \/ LastType(y) = "message")
    BY <1>1, <1>2, <2>2, TextItems, TextEditAppend
  <2> QED
    BY <2>1, <2>2
<1> QED
  BY <1>1, <1>3, TextEditTrans

LEMMA AddReasoningEdits ==
  ASSUME NEW x \in Seq(Items)
  PROVE  TextEdit(x, AddReasoning(x))
<1>1. CASE LastType(x) = "reasoning"
  BY <1>1, LastIsText, GrowLast DEF AddReasoning
<1>2. CASE LastType(x) # "reasoning"
  BY <1>2, TextItems, TextEditAppend DEF AddReasoning
<1> QED
  BY <1>1, <1>2

LEMMA StartedEdits ==
  ASSUME NEW x \in Seq(Items), NEW y \in Started(x)
  PROVE  TextEdit(x, y)
<1>1. LastType(x) = "message"
  BY DEF Started
<1>2. PICK before \in {x, Front(x)} :
        \E type \in Blocks : y = Append(before, [Item(type, 0) EXCEPT !.tagged = TRUE])
  BY <1>1 DEF Started
<1>3. PICK type \in Blocks : y = Append(before, [Item(type, 0) EXCEPT !.tagged = TRUE])
  BY <1>2
<1>4. before \in Seq(Items) /\ TextEdit(x, before)
  BY <1>1, LastIsText, TextEditFront, TextEditRefl
<1>5. type \in {"message", "reasoning", "code"}
  BY DEF Blocks
<1>6. TextEdit(before, y)
  BY <1>3, <1>4, <1>5, TextItems, TextEditAppend
<1> QED
  BY <1>4, <1>6, TextEditTrans

LEMMA EndedEdits ==
  ASSUME NEW x \in Seq(Items), NEW y \in Ended(x)
  PROVE  TextEdit(x, y)
<1>1. Inside(x)
  BY DEF Ended
<1> DEFINE block == IF LastType(x) = "code" THEN Last(x) ELSE Closed(Last(x))
<1>2. PICK body \in {Front(x), SetLast(x, block)} :
        \E rest \in {0, 1} : y = Append(body, Item("message", rest))
  BY <1>1 DEF Ended
<1>3. PICK rest \in {0, 1} : y = Append(body, Item("message", rest))
  BY <1>2
<1>4. x # <<>> /\ Last(x).type \notin Tool /\ block \in Items /\ block.type \notin Tool
  BY <1>1, LastIsText DEF Inside
<1> HIDE DEF block
<1>5. TextEdit(x, body)
  BY <1>2, <1>4, TextEditFront, TextEditLast
<1>6. body \in Seq(Items)
  BY <1>5, TextEditType
<1>7. TextEdit(body, y)
  BY <1>3, <1>6, TextItems, TextEditAppend
<1> QED
  BY <1>5, <1>6, <1>7, TextEditTrans

LEMMA TidyEdits ==
  ASSUME NEW x \in Seq(Items)
  PROVE  TextEdit(x, Tidy(x))
<1> DEFINE y == IF LastType(x) = "message" /\ Last(x).text = 0 /\ Len(x) > 1
                THEN Front(x) ELSE x
<1>1. TextEdit(x, y) /\ y \in Seq(Items)
  BY LastIsText, TextEditFront, TextEditRefl
<1>2. Tidy(x) = IF LastType(y) = "reasoning" THEN SetLast(y, Closed(Last(y))) ELSE y
  BY DEF Tidy
<1> HIDE DEF y
<1>3. TextEdit(y, Tidy(x))
  BY <1>1, <1>2, LastIsText, TextEditLast, TextEditRefl
<1> QED
  BY <1>1, <1>3, TextEditTrans

\* Where every item is closed or left as it is.
LEMMA ClosingEdits ==
  ASSUME NEW x \in Seq(Items), NEW y, DOMAIN y = DOMAIN x,
         y = [i \in DOMAIN x |-> y[i]],
         \A i \in DOMAIN x : y[i] \in {x[i], Closed(x[i])}
  PROVE  y \in Seq(Items) /\ Len(y) = Len(x) /\ TextEdit(x, y)
<1>1. DOMAIN x = 1..Len(x) /\ Len(x) \in Nat
  OBVIOUS
<1>2. \A i \in 1..Len(x) : y[i] \in Items /\ Alike(x[i], y[i])
  BY <1>1, ClosedType DEF Alike
<1>3. y \in Seq(Items) /\ Len(y) = Len(x)
  BY <1>1, <1>2
<1> QED
  BY <1>2, <1>3, TextEditSame

LEMMA CloseAllEdits ==
  ASSUME NEW x \in Seq(Items)
  PROVE  CloseAll(x) \in Seq(Items) /\ Len(CloseAll(x)) = Len(x) /\ TextEdit(x, CloseAll(x))
  BY ClosingEdits DEF CloseAll

LEMMA MarkCallsEdits ==
  ASSUME NEW x \in Seq(Items), NEW ids
  PROVE  /\ MarkCalls(x, ids) \in Seq(Items) /\ Len(MarkCalls(x, ids)) = Len(x)
         /\ TextEdit(x, MarkCalls(x, ids))
<1>1. /\ DOMAIN MarkCalls(x, ids) = DOMAIN x
      /\ MarkCalls(x, ids) = [i \in DOMAIN x |-> MarkCalls(x, ids)[i]]
      /\ \A i \in DOMAIN x : MarkCalls(x, ids)[i] \in {x[i], Closed(x[i])}
  BY DEF MarkCalls
<1> QED
  BY <1>1, ClosingEdits

LEMMA CodeEdits ==
  ASSUME NEW x \in Seq(Items), LastType(x) = "code"
  PROVE  TextEdit(x, Append(SetLast(x, Closed(Last(x))), Item("message", 0)))
<1> DEFINE y == SetLast(x, Closed(Last(x)))
<1>1. TextEdit(x, y) /\ y \in Seq(Items)
  BY LastIsText, TextEditLast, TextEditType
<1> HIDE DEF y
<1>2. TextEdit(y, Append(y, Item("message", 0)))
  BY <1>1, TextItems, TextEditAppend
<1>3. TextEdit(x, Append(y, Item("message", 0)))
  BY <1>1, <1>2, TextEditTrans, TextEditType
<1> QED
  BY <1>3 DEF y

LEMMA CallItemsType ==
  ASSUME NEW type \in Tool, NEW ids \in Seq(Call)
  PROVE  /\ CallItems(type, ids) \in Seq(Items) /\ Len(CallItems(type, ids)) = Len(ids)
         /\ \A i \in 1..Len(ids) : CallItems(type, ids)[i].type = type
                                   /\ CallItems(type, ids)[i].id = ids[i]
<1>1. \A c \in Call : CallItem(type, c) \in Items /\ CallItem(type, c).type = type
                      /\ CallItem(type, c).id = c
  BY DEF CallItem, Item, Items, Types, Tool
<1>2. DOMAIN ids = 1..Len(ids) /\ Len(ids) \in Nat /\ \A i \in 1..Len(ids) : ids[i] \in Call
  OBVIOUS
<1> QED
  BY <1>1, <1>2 DEF CallItems

-----------------------------------------------------------------------------
(* What convert_output_to_messages collects, item by item.                 *)

\* A set of natural numbers has a least element.
LEMMA LeastOf ==
  ASSUME NEW T \in SUBSET Nat, T # {}
  PROVE  \E x \in T : \A y \in T : x <= y
<1>1. PICK x \in T : \A y \in T : <<y, x>> \notin OpToRel(<, Nat)
  BY WFMin, NatLessThanWellFounded, Zenon
<1>2. \A y \in T : ~(y < x)
  BY <1>1, Zenon DEF OpToRel
<1> QED
  BY <1>2

\* Induction without an operator: the least number missing from T has a
\* predecessor in T.
LEMMA Upward ==
  ASSUME NEW m \in Nat, NEW T, 0 \in T,
         \A n \in 0..(m - 1) : n \in T => n + 1 \in T
  PROVE  \A n \in 0..m : n \in T
<1> DEFINE bad == {n \in 0..m : n \notin T}
<1>1. SUFFICES ASSUME bad # {} PROVE FALSE
  OBVIOUS
<1>2. bad \in SUBSET Nat
  OBVIOUS
<1>3. PICK n \in bad : \A k \in bad : n <= k
  BY <1>1, <1>2, LeastOf
<1>4. n \in 0..m /\ n \notin T /\ n # 0
  BY <1>3
<1>5. n - 1 \in 0..(m - 1) /\ n - 1 \in 0..m /\ ~(n <= n - 1)
  BY <1>4
<1>6. n - 1 \in T
  BY <1>3, <1>5
<1>7. (n - 1) + 1 \in T
  BY <1>5, <1>6
<1> QED
  BY <1>4, <1>7

\* Collected is the function its definition asks for: there is one.
Nothing == [done |-> <<>>, ids |-> <<>>, text |-> FALSE]

LEMMA CollectedDef ==
  ASSUME NEW items \in Seq(Items)
  PROVE  \A n \in 0..Len(items) :
           Collected(items)[n] = IF n = 0 THEN Nothing
                                 ELSE Converted(Collected(items)[n - 1], items[n])
<1> DEFINE Body(f, n) == IF n = 0 THEN Nothing ELSE Converted(f[n - 1], items[n])
           T == {m \in 0..Len(items) : \E f : f = [n \in 0..m |-> Body(f, n)]}
<1>0. Len(items) \in Nat
  OBVIOUS
<1>1. 0 \in T
  <2> DEFINE f == [n \in 0..0 |-> Nothing]
  <2>1. \A n \in 0..0 : Body(f, n) = Nothing
    <3> HIDE DEF f
    <3> QED
      OBVIOUS
  <2>2. f = [n \in 0..0 |-> Body(f, n)]
    BY <2>1, Zenon
  <2>3. \E h : h = [n \in 0..0 |-> Body(h, n)]
    BY <2>2
  <2> QED
    BY <1>0, <2>3
<1>2. ASSUME NEW m \in 0..(Len(items) - 1), m \in T PROVE m + 1 \in T
  <2>1. PICK f : f = [n \in 0..m |-> Body(f, n)]
    BY <1>2
  <2> DEFINE g == [n \in 0..(m + 1) |-> Body(f, n)]
  <2>2. \A n \in 0..m : g[n] = f[n]
    <3>1. \A n \in 0..m : f[n] = Body(f, n)
      BY <2>1
    <3>2. \A n \in 0..m : g[n] = Body(f, n)
      BY <1>0
    <3> QED
      BY <3>1, <3>2, Zenon
  <2>3. ASSUME NEW n \in 0..(m + 1) PROVE Body(f, n) = Body(g, n)
    <3>1. CASE n = 0
      BY <3>1
    <3>2. CASE n # 0
      <4>1. n - 1 \in 0..m
        BY <1>0, <3>2
      <4>2. g[n - 1] = f[n - 1]
        BY <2>2, <4>1
      <4> HIDE DEF g
      <4> QED
        BY <4>2
    <3> QED
      BY <3>1, <3>2
  <2>4. g = [n \in 0..(m + 1) |-> Body(g, n)]
    BY <2>3, Zenon
  <2>5. \E h : h = [n \in 0..(m + 1) |-> Body(h, n)]
    BY <2>4
  <2> QED
    BY <1>0, <2>5
<1>3. Len(items) \in T
  <2> HIDE DEF T
  <2>1. \A n \in 0..Len(items) : n \in T
    BY <1>0, <1>1, <1>2, Upward
  <2> QED
    BY <1>0, <2>1
<1>4. \E f : f = [n \in 0..Len(items) |-> Body(f, n)]
  BY <1>3
<1>5. Collected(items) = CHOOSE f : f = [n \in 0..Len(items) |-> Body(f, n)]
  BY DEF Collected, Nothing
<1>6. Collected(items) = [n \in 0..Len(items) |-> Body(Collected(items), n)]
  BY <1>4, <1>5
<1> QED
  BY <1>6

\* The types of convert_output_to_messages.
Messages == [role : {"user", "assistant", "tool"}, ids : Seq(Call)]
Collections == [done : Seq(Messages), ids : Seq(Call), text : BOOLEAN]

\* Calls and results have the ids of calls.
Named(items) == \A i \in 1..Len(items) : items[i].type \in Tool => items[i].id \in Call

\* A message, and the end of one that is collected.
LEMMA MessageType ==
  ASSUME NEW role \in {"user", "assistant", "tool"}, NEW ids \in Seq(Call)
  PROVE  /\ Message(role, ids) \in Messages
         /\ Message(role, ids).role = role /\ Message(role, ids).ids = ids
  BY DEF Message, Messages

LEMMA FlushType ==
  ASSUME NEW c \in Collections
  PROVE  /\ Flush(c) \in Collections
         /\ Flush(c).ids = <<>> /\ Flush(c).text = FALSE
         /\ Flush(c).done = IF c.text \/ c.ids # <<>>
                            THEN Append(c.done, Message("assistant", c.ids)) ELSE c.done
<1>1. c.ids \in Seq(Call) /\ c.done \in Seq(Messages) /\ c.text \in BOOLEAN
  BY DEF Collections
<1>2. Append(c.done, Message("assistant", c.ids)) \in Seq(Messages)
  BY <1>1, MessageType
<1> QED
  BY <1>1, <1>2 DEF Flush, Collections

\* One item more.
LEMMA ConvertedCall ==
  ASSUME NEW c \in Collections, NEW item, item.type = "call", item.id \in Call
  PROVE  Converted(c, item) = [done |-> c.done, ids |-> Append(c.ids, item.id), text |-> c.text]
  BY DEF Converted, Collections

LEMMA ConvertedResult ==
  ASSUME NEW c \in Collections, NEW item, item.type = "result", item.id \in Call
  PROVE  Converted(c, item) =
           [done |-> Append(Flush(c).done, Message("tool", <<item.id>>)),
            ids |-> <<>>, text |-> FALSE]
<1>1. Flush(c) \in Collections /\ Flush(c).ids = <<>> /\ Flush(c).text = FALSE
  BY FlushType
<1>2. Converted(c, item) = [Flush(c) EXCEPT !.done = Append(@, Message("tool", <<item.id>>))]
  BY DEF Converted
<1> QED
  BY <1>1, <1>2 DEF Collections

LEMMA ConvertedText ==
  ASSUME NEW c \in Collections, NEW item \in Items, item.type \notin Tool
  PROVE  Converted(c, item) = [done |-> c.done, ids |-> c.ids,
                               text |-> c.text \/ item.text > 0]
<1>1. Converted(c, item) = [c EXCEPT !.text = @ \/ item.text > 0]
  BY DEF Converted, Tool
<1> QED
  BY <1>1 DEF Collections

LEMMA ConvertedType ==
  ASSUME NEW c \in Collections, NEW item \in Items, item.type \in Tool => item.id \in Call
  PROVE  Converted(c, item) \in Collections
<1>1. c.ids \in Seq(Call) /\ c.done \in Seq(Messages) /\ c.text \in BOOLEAN
  BY DEF Collections
<1>2. CASE item.type = "call"
  <2>1. item.id \in Call
    BY <1>2 DEF Tool
  <2>2. Converted(c, item) = [done |-> c.done, ids |-> Append(c.ids, item.id), text |-> c.text]
    BY <1>2, <2>1, ConvertedCall
  <2> QED
    BY <1>1, <2>1, <2>2 DEF Collections
<1>3. CASE item.type = "result"
  <2>1. item.id \in Call
    BY <1>3 DEF Tool
  <2>2. Flush(c).done \in Seq(Messages) /\ Message("tool", <<item.id>>) \in Messages
    <3>1. Flush(c) \in Collections
      BY FlushType
    <3>2. <<item.id>> \in Seq(Call)
      BY <2>1
    <3> QED
      BY <3>1, <3>2, MessageType DEF Collections
  <2>3. Converted(c, item) =
           [done |-> Append(Flush(c).done, Message("tool", <<item.id>>)),
            ids |-> <<>>, text |-> FALSE]
    BY <1>3, <2>1, ConvertedResult
  <2>4. /\ Append(Flush(c).done, Message("tool", <<item.id>>)) \in Seq(Messages)
        /\ <<>> \in Seq(Call)
    BY <2>2
  <2> QED
    BY <2>3, <2>4 DEF Collections
<1>4. CASE item.type \notin Tool
  <2>1. Converted(c, item) = [done |-> c.done, ids |-> c.ids, text |-> c.text \/ item.text > 0]
    BY <1>4, ConvertedText
  <2> QED
    BY <1>1, <2>1 DEF Collections
<1> QED
  BY <1>2, <1>3, <1>4 DEF Tool

\* The items that count as the same are converted alike.
LEMMA ConvertedAlike ==
  ASSUME NEW c, NEW a, NEW b, Alike(a, b)
  PROVE  Converted(c, a) = Converted(c, b)
  BY DEF Converted, Alike

\* What is collected of named items has its type.
LEMMA CollectedType ==
  ASSUME NEW x \in Seq(Items), Named(x)
  PROVE  \A n \in 0..Len(x) : Collected(x)[n] \in Collections
<1> DEFINE T == {n \in 0..Len(x) : Collected(x)[n] \in Collections}
<1>0. Len(x) \in Nat
  OBVIOUS
<1>1. 0 \in T
  <2>1. Collected(x)[0] = Nothing
    BY <1>0, CollectedDef
  <2>2. Nothing \in Collections
    <3>1. <<>> \in Seq(Messages) /\ <<>> \in Seq(Call)
      OBVIOUS
    <3> QED
      BY <3>1 DEF Nothing, Collections
  <2>3. 0 \in 0..Len(x)
    BY <1>0
  <2> QED
    BY <2>1, <2>2, <2>3
<1>2. ASSUME NEW n \in 0..(Len(x) - 1), n \in T PROVE n + 1 \in T
  <2>1. PICK k \in 1..Len(x) : k = n + 1
    BY <1>0
  <2>2. Collected(x)[k] = Converted(Collected(x)[k - 1], x[k]) /\ k - 1 = n
    BY <1>0, <2>1, CollectedDef
  <2>3. x[k] \in Items /\ (x[k].type \in Tool => x[k].id \in Call)
    BY <2>1 DEF Named
  <2>4. Collected(x)[k] \in Collections
    BY <1>2, <2>2, <2>3, ConvertedType
  <2>5. n + 1 \in 0..Len(x)
    BY <1>0
  <2> QED
    BY <2>1, <2>4, <2>5
<1> HIDE DEF T
<1>3. \A n \in 0..Len(x) : n \in T
  BY <1>0, <1>1, <1>2, Upward
<1> QED
  BY <1>3 DEF T

\* What is collected of a part depends on the part only.
LEMMA CollectedAlike ==
  ASSUME NEW x \in Seq(Items), NEW y \in Seq(Items), NEW m \in Nat,
         m <= Len(x), m <= Len(y), \A i \in 1..m : Alike(x[i], y[i])
  PROVE  Collected(x)[m] = Collected(y)[m]
<1> DEFINE T == {n \in 0..m : Collected(x)[n] = Collected(y)[n]}
<1>0. Len(x) \in Nat /\ Len(y) \in Nat
  OBVIOUS
<1>1. 0 \in T
  BY <1>0, CollectedDef
<1>2. ASSUME NEW n \in 0..(m - 1), n \in T PROVE n + 1 \in T
  <2>1. PICK k \in 1..m : k = n + 1
    BY <1>0
  <2>2. /\ Collected(x)[k] = Converted(Collected(x)[k - 1], x[k]) /\ k - 1 = n
        /\ Collected(y)[k] = Converted(Collected(y)[k - 1], y[k])
    <3>1. k \in 0..Len(x) /\ k \in 0..Len(y) /\ k # 0 /\ k - 1 = n
      BY <1>0, <2>1
    <3>2. Collected(x)[k] = Converted(Collected(x)[k - 1], x[k])
      BY <3>1, CollectedDef
    <3>3. Collected(y)[k] = Converted(Collected(y)[k - 1], y[k])
      BY <3>1, CollectedDef
    <3> QED
      BY <3>1, <3>2, <3>3
  <2>3. Alike(x[k], y[k])
    BY <2>1
  <2>4. Converted(Collected(x)[n], x[k]) = Converted(Collected(x)[n], y[k])
    BY <2>3, ConvertedAlike
  <2> QED
    BY <1>2, <2>1, <2>2, <2>4
<1> HIDE DEF T
<1>3. \A n \in 0..m : n \in T
  BY <1>0, <1>1, <1>2, Upward
<1> QED
  BY <1>3 DEF T

\* Text adds no message and no call.
LEMMA CollectedText ==
  ASSUME NEW x \in Seq(Items), Named(x), NEW m \in Nat, m <= Len(x),
         \A i \in (m + 1)..Len(x) : x[i].type \notin Tool
  PROVE  /\ Collected(x)[Len(x)].done = Collected(x)[m].done
         /\ Collected(x)[Len(x)].ids = Collected(x)[m].ids
<1>0. PICK w \in Nat : w = Len(x) - m
  OBVIOUS
<1> DEFINE T == {n \in 0..w : /\ Collected(x)[m + n].done = Collected(x)[m].done
                              /\ Collected(x)[m + n].ids = Collected(x)[m].ids}
<1>1. 0 \in T
  OBVIOUS
<1>2. ASSUME NEW n \in 0..(w - 1), n \in T PROVE n + 1 \in T
  <2>1. PICK k \in 1..Len(x) : k = m + n + 1
    BY <1>0
  <2>2. Collected(x)[k] = Converted(Collected(x)[k - 1], x[k]) /\ k - 1 = m + n
    BY <1>0, <2>1, CollectedDef
  <2>3. x[k] \in Items /\ x[k].type \notin Tool
    BY <1>0, <2>1
  <2>4. Collected(x)[m + n] \in Collections
    BY <1>0, CollectedType
  <2>5. Converted(Collected(x)[m + n], x[k]).done = Collected(x)[m + n].done
        /\ Converted(Collected(x)[m + n], x[k]).ids = Collected(x)[m + n].ids
    BY <2>3, <2>4, ConvertedText
  <2>6. m + (n + 1) = k /\ n + 1 \in 0..w
    BY <2>1, <1>0
  <2> QED
    BY <1>2, <2>2, <2>5, <2>6
<1> HIDE DEF T
<1>3. w \in T
  <2>1. \A n \in 0..w : n \in T
    BY <1>0, <1>1, <1>2, Upward
  <2> QED
    BY <1>0, <2>1
<1> QED
  BY <1>0, <1>3 DEF T

-----------------------------------------------------------------------------
(* Conversations whose calls are followed by their results.                *)

\* What Paired asks of a message with calls, and of a result.
CallsPaired(ms, i) ==
  LET n == Len(ms[i].ids)
  IN /\ i + n <= Len(ms)
     /\ \A k \in 1..n : ms[i + k].role = "tool"
     /\ ToSet(ms[i].ids) = {ms[i + k].ids[1] : k \in 1..n}
ResultPaired(ms, i) ==
  \E j \in 1..(i - 1) : ms[j].role = "assistant" /\ i <= j + Len(ms[j].ids)

LEMMA PairedParts ==
  ASSUME NEW ms
  PROVE  Paired(ms) <=>
           \A i \in DOMAIN ms : /\ ms[i].role = "assistant" => CallsPaired(ms, i)
                                /\ ms[i].role = "tool" => ResultPaired(ms, i)
  BY DEF Paired, CallsPaired, ResultPaired

\* Two conversations, one after the other.
LEMMA PairedConcat ==
  ASSUME NEW a \in Seq(Messages), NEW b \in Seq(Messages), Paired(a), Paired(b)
  PROVE  a \o b \in Seq(Messages) /\ Paired(a \o b)
<1>1. PICK ms : ms = a \o b
  OBVIOUS
<1>2. /\ ms \in Seq(Messages) /\ DOMAIN ms = 1..Len(ms) /\ Len(ms) = Len(a) + Len(b)
      /\ Len(a) \in Nat /\ Len(b) \in Nat
      /\ DOMAIN a = 1..Len(a) /\ DOMAIN b = 1..Len(b)
      /\ \A i \in 1..Len(a) : ms[i] = a[i]
      /\ \A i \in 1..Len(b) : ms[Len(a) + i] = b[i]
  BY <1>1
<1>3. \A m \in Messages : Len(m.ids) \in Nat
  BY DEF Messages
<1>4. ASSUME NEW i \in 1..Len(a)
      PROVE  /\ ms[i].role = "assistant" => CallsPaired(ms, i)
             /\ ms[i].role = "tool" => ResultPaired(ms, i)
  <2>1. ms[i] = a[i] /\ Len(a[i].ids) \in Nat
    BY <1>2, <1>3
  <2>2. ASSUME a[i].role = "assistant" PROVE CallsPaired(ms, i)
    <3>1. CallsPaired(a, i)
      BY <1>2, <2>2, PairedParts
    <3>2. PICK n \in Nat : n = Len(a[i].ids)
      BY <2>1
    <3>3. /\ i + n <= Len(a) /\ \A k \in 1..n : a[i + k].role = "tool"
          /\ ToSet(a[i].ids) = {a[i + k].ids[1] : k \in 1..n}
      BY <3>1, <3>2 DEF CallsPaired
    <3>4. \A k \in 1..n : ms[i + k] = a[i + k]
      BY <1>2, <3>3
    <3>5. {ms[i + k].ids[1] : k \in 1..n} = {a[i + k].ids[1] : k \in 1..n}
      BY <3>4
    <3>6. i + n <= Len(ms)
      BY <1>2, <3>3
    <3>7. \A k \in 1..n : ms[i + k].role = "tool"
      BY <3>3, <3>4
    <3>8. n = Len(ms[i].ids) /\ ToSet(ms[i].ids) = {ms[i + k].ids[1] : k \in 1..n}
      BY <2>1, <3>2, <3>3, <3>5
    <3> QED
      BY <3>6, <3>7, <3>8, Zenon DEF CallsPaired
  <2>3. ASSUME a[i].role = "tool" PROVE ResultPaired(ms, i)
    <3>1. ResultPaired(a, i)
      BY <1>2, <2>3, PairedParts
    <3>2. PICK j \in 1..(i - 1) : a[j].role = "assistant" /\ i <= j + Len(a[j].ids)
      BY <3>1 DEF ResultPaired
    <3>3. ms[j] = a[j]
      BY <1>2
    <3> QED
      BY <3>2, <3>3 DEF ResultPaired
  <2> QED
    BY <2>1, <2>2, <2>3
<1>5. ASSUME NEW h \in 1..Len(b), NEW i, i = Len(a) + h
      PROVE  /\ ms[i].role = "assistant" => CallsPaired(ms, i)
             /\ ms[i].role = "tool" => ResultPaired(ms, i)
  <2>1. ms[i] = b[h] /\ Len(b[h].ids) \in Nat
    BY <1>2, <1>3, <1>5
  <2>2. ASSUME b[h].role = "assistant" PROVE CallsPaired(ms, i)
    <3>1. CallsPaired(b, h)
      BY <1>2, <2>2, PairedParts
    <3>2. PICK n \in Nat : n = Len(b[h].ids)
      BY <2>1
    <3>3. /\ h + n <= Len(b) /\ \A k \in 1..n : b[h + k].role = "tool"
          /\ ToSet(b[h].ids) = {b[h + k].ids[1] : k \in 1..n}
      BY <3>1, <3>2 DEF CallsPaired
    <3>4. \A k \in 1..n : ms[i + k] = b[h + k]
      <4> TAKE k \in 1..n
      <4>1. PICK e \in 1..Len(b) : e = h + k
        BY <1>2, <3>3
      <4>2. Len(a) + e = i + k
        BY <1>2, <1>5, <4>1
      <4> QED
        BY <1>2, <4>1, <4>2
    <3>5. {ms[i + k].ids[1] : k \in 1..n} = {b[h + k].ids[1] : k \in 1..n}
      BY <3>4
    <3>6. i + n <= Len(ms)
      BY <1>2, <1>5, <3>3
    <3> QED
      BY <2>1, <3>2, <3>3, <3>4, <3>5, <3>6 DEF CallsPaired
  <2>3. ASSUME b[h].role = "tool" PROVE ResultPaired(ms, i)
    <3>1. ResultPaired(b, h)
      BY <1>2, <2>3, PairedParts
    <3>2. PICK j \in 1..(h - 1) : b[j].role = "assistant" /\ h <= j + Len(b[j].ids)
      BY <3>1 DEF ResultPaired
    <3>3. PICK g \in 1..(i - 1) : g = Len(a) + j
      BY <1>2, <1>5
    <3>4. ms[g] = b[j] /\ Len(b[j].ids) \in Nat
      BY <1>2, <1>3, <3>3
    <3>5. i <= g + Len(ms[g].ids)
      <4>1. PICK n \in Nat : n = Len(b[j].ids)
        BY <3>4
      <4>2. h <= j + n
        BY <3>2, <4>1
      <4>3. i <= g + n
        BY <1>2, <1>5, <3>3, <4>2
      <4> QED
        BY <3>4, <4>1, <4>3
    <3> QED
      BY <3>2, <3>4, <3>5 DEF ResultPaired
  <2> QED
    BY <2>1, <2>2, <2>3
<1>6. ASSUME NEW i \in DOMAIN ms
      PROVE  /\ ms[i].role = "assistant" => CallsPaired(ms, i)
             /\ ms[i].role = "tool" => ResultPaired(ms, i)
  <2>1. CASE i <= Len(a)
    BY <1>2, <1>4, <2>1
  <2>2. CASE i > Len(a)
    <3>1. PICK h \in 1..Len(b) : h = i - Len(a)
      BY <1>2, <2>2
    <3> QED
      BY <1>2, <1>5, <3>1
  <2> QED
    BY <1>2, <2>1, <2>2
<1> QED
  BY <1>1, <1>2, <1>6, PairedParts

\* A message without calls, of the user or the assistant.
LEMMA PairedPlain ==
  ASSUME NEW d \in Seq(Messages), Paired(d), NEW role \in {"user", "assistant"}
  PROVE  /\ Append(d, Message(role, <<>>)) \in Seq(Messages)
         /\ Paired(Append(d, Message(role, <<>>)))
         /\ <<Message(role, <<>>)>> \in Seq(Messages) /\ Paired(<<Message(role, <<>>)>>)
<1>1. PICK m : m = Message(role, <<>>)
  OBVIOUS
<1>2. m \in Messages /\ m.ids = <<>> /\ m.role = role
  <2>1. <<>> \in Seq(Call)
    OBVIOUS
  <2>2. role \in {"user", "assistant", "tool"}
    OBVIOUS
  <2> QED
    BY <1>1, <2>1, <2>2 DEF Message, Messages
<1>3. <<m>> \in Seq(Messages) /\ Append(d, m) = d \o <<m>>
  BY <1>2
<1>4. Paired(<<m>>)
  <2>1. DOMAIN <<m>> = {1} /\ <<m>>[1] = m /\ Len(<<m>>) = 1
    OBVIOUS
  <2>2. CallsPaired(<<m>>, 1)
    <3>1. Len(m.ids) = 0 /\ ToSet(m.ids) = {}
      BY <1>2 DEF ToSet
    <3>2. {<<m>>[1 + k].ids[1] : k \in 1..0} = {}
      OBVIOUS
    <3> QED
      BY <2>1, <3>1, <3>2 DEF CallsPaired
  <2>3. m.role # "tool"
    BY <1>2
  <2> QED
    BY <2>1, <2>2, <2>3, PairedParts
<1> QED
  BY <1>1, <1>3, <1>4, PairedConcat

\* An answer whose calls all have their results.
Answered(items) == /\ Collected(items)[Len(items)].ids = <<>>
                   /\ Paired(Collected(items)[Len(items)].done)

\* An edit of text keeps the ids and leaves no call open.
LEMMA NamedEdit ==
  ASSUME NEW x \in Seq(Items), NEW y, Named(x), TextEdit(x, y)
  PROVE  Named(y)
<1>1. PICK n \in Nat : /\ n <= Len(x) /\ n <= Len(y)
                       /\ \A i \in 1..n : Alike(x[i], y[i])
                       /\ \A i \in (n + 1)..Len(y) : y[i].type \notin Tool
  BY DEF TextEdit
<1>2. y \in Seq(Items) /\ Len(y) \in Nat
  BY DEF TextEdit
<1>3. ASSUME NEW i \in 1..Len(y), y[i].type \in Tool PROVE y[i].id \in Call
  <2>1. i \in 1..n
    BY <1>1, <1>2, <1>3
  <2>2. Alike(x[i], y[i]) /\ i \in 1..Len(x)
    BY <1>1, <2>1
  <2> QED
    BY <1>3, <2>2 DEF Alike, Named
<1> QED
  BY <1>3 DEF Named

LEMMA AnsweredEdit ==
  ASSUME NEW x \in Seq(Items), NEW y, Named(x), Answered(x), TextEdit(x, y)
  PROVE  Answered(y)
<1>1. PICK n \in Nat : /\ n <= Len(x) /\ n <= Len(y)
                       /\ \A i \in 1..n : Alike(x[i], y[i])
                       /\ \A i \in (n + 1)..Len(x) : x[i].type \notin Tool
                       /\ \A i \in (n + 1)..Len(y) : y[i].type \notin Tool
  BY DEF TextEdit
<1>2. y \in Seq(Items) /\ Named(y)
  BY TextEditType, NamedEdit
<1>3. Collected(x)[n] = Collected(y)[n]
  BY <1>1, <1>2, CollectedAlike
<1>4. /\ Collected(x)[Len(x)].done = Collected(x)[n].done
      /\ Collected(x)[Len(x)].ids = Collected(x)[n].ids
  BY <1>1, CollectedText
<1>5. /\ Collected(y)[Len(y)].done = Collected(y)[n].done
      /\ Collected(y)[Len(y)].ids = Collected(y)[n].ids
  BY <1>1, <1>2, CollectedText
<1> QED
  BY <1>3, <1>4, <1>5 DEF Answered

\* The messages made of an answer.
LEMMA ConvertType ==
  ASSUME NEW x \in Seq(Items), Named(x)
  PROVE  ConvertOutput(x) \in Seq(Messages) /\ TurnMessages(x) \in Seq(Messages)
<1>1. Len(x) \in 0..Len(x)
  OBVIOUS
<1>2. Collected(x)[Len(x)] \in Collections
  BY <1>1, CollectedType
<1>3. ConvertOutput(x) \in Seq(Messages)
  BY <1>2, FlushType DEF ConvertOutput, Collections
<1>4. \A role \in {"user", "assistant"} : <<Message(role, <<>>)>> \in Seq(Messages)
  <2>1. <<>> \in Seq(Call)
    OBVIOUS
  <2>2. \A role \in {"user", "assistant"} : Message(role, <<>>) \in Messages
    BY <2>1 DEF Message, Messages
  <2> QED
    BY <2>2
<1> QED
  BY <1>3, <1>4 DEF TurnMessages

\* An answer without open calls is converted to paired messages.
LEMMA ConvertPaired ==
  ASSUME NEW x \in Seq(Items), Named(x), Answered(x)
  PROVE  Paired(ConvertOutput(x)) /\ Paired(TurnMessages(x))
<1>1. PICK c : c = Collected(x)[Len(x)]
  OBVIOUS
<1>2. c \in Collections /\ c.done \in Seq(Messages)
  <2>1. Len(x) \in 0..Len(x)
    OBVIOUS
  <2>2. c \in Collections
    BY <1>1, <2>1, CollectedType
  <2> QED
    BY <2>2 DEF Collections
<1>3. c.ids = <<>> /\ Paired(c.done)
  BY <1>1 DEF Answered
<1>4. Paired(ConvertOutput(x))
  <2>1. ConvertOutput(x) = IF c.text \/ c.ids # <<>>
                           THEN Append(c.done, Message("assistant", c.ids)) ELSE c.done
    BY <1>1, <1>2, FlushType DEF ConvertOutput
  <2> QED
    BY <1>2, <1>3, <2>1, PairedPlain
<1>5. \A role \in {"user", "assistant"} :
        <<Message(role, <<>>)>> \in Seq(Messages) /\ Paired(<<Message(role, <<>>)>>)
  BY <1>2, <1>3, PairedPlain
<1>6. ConvertOutput(x) \in Seq(Messages)
  BY ConvertType
<1> QED
  BY <1>4, <1>5, <1>6, PairedConcat DEF TurnMessages

-----------------------------------------------------------------------------
(* A round of tools: its calls, then all of its results.                   *)

\* The messages of a round: one with the calls, then the first k results.
Round(calls, k) ==
  [i \in 1..(k + 1) |-> IF i = 1 THEN Message("assistant", calls)
                        ELSE Message("tool", <<calls[i - 1]>>)]

\* Its messages, which answer its calls, ...
LEMMA RoundType ==
  ASSUME NEW calls \in Seq(Call), NEW k \in 0..Len(calls)
  PROVE  /\ Round(calls, k) \in Seq(Messages) /\ Len(Round(calls, k)) = k + 1
         /\ Round(calls, k)[1] = Message("assistant", calls)
         /\ \A i \in 1..k : Round(calls, k)[i + 1] = Message("tool", <<calls[i]>>)
<1>1. Message("assistant", calls) \in Messages
  BY MessageType
<1>2. \A i \in 1..Len(calls) : Message("tool", <<calls[i]>>) \in Messages
  <2> TAKE i \in 1..Len(calls)
  <2>1. <<calls[i]>> \in Seq(Call)
    OBVIOUS
  <2> QED
    BY <2>1, MessageType
<1>3. ASSUME NEW i \in 1..(k + 1), i # 1
      PROVE  Message("tool", <<calls[i - 1]>>) \in Messages
  <2>1. i - 1 \in 1..Len(calls)
    BY <1>3
  <2> QED
    BY <1>2, <2>1
<1>4. \A i \in 1..(k + 1) : Round(calls, k)[i] \in Messages
  BY <1>1, <1>3 DEF Round
<1>5. Round(calls, k) = [i \in 1..(k + 1) |-> Round(calls, k)[i]]
  BY DEF Round
<1>6. Round(calls, k) \in Seq(Messages) /\ Len(Round(calls, k)) = k + 1
  BY <1>4, <1>5
<1>7. Round(calls, k)[1] = Message("assistant", calls)
  BY DEF Round
<1>8. ASSUME NEW i \in 1..k PROVE Round(calls, k)[i + 1] = Message("tool", <<calls[i]>>)
  <2>1. i + 1 \in 1..(k + 1) /\ i + 1 # 1 /\ (i + 1) - 1 = i
    OBVIOUS
  <2> QED
    BY <2>1 DEF Round
<1> QED
  BY <1>6, <1>7, <1>8

LEMMA RoundPaired ==
  ASSUME NEW calls \in Seq(Call)
  PROVE  Paired(Round(calls, Len(calls)))
<1>1. PICK n \in Nat : n = Len(calls) /\ n \in 0..Len(calls)
  OBVIOUS
<1>2. PICK ms : ms = Round(calls, n)
  OBVIOUS
<1>3. /\ ms \in Seq(Messages) /\ Len(ms) = n + 1 /\ DOMAIN ms = 1..(n + 1)
      /\ ms[1] = Message("assistant", calls)
      /\ \A k \in 1..n : ms[k + 1] = Message("tool", <<calls[k]>>)
  BY <1>1, <1>2, RoundType
<1>4. ms[1].role = "assistant" /\ ms[1].ids = calls
  BY <1>3 DEF Message
<1>5. \A k \in 1..n : ms[1 + k].role = "tool" /\ ms[1 + k].ids[1] = calls[k]
  <2>1. \A k \in 1..n : ms[1 + k] = Message("tool", <<calls[k]>>)
    BY <1>3
  <2> TAKE k \in 1..n
  <2>2. <<calls[k]>> \in Seq(Call) /\ <<calls[k]>>[1] = calls[k]
    BY <1>1
  <2>3. /\ Message("tool", <<calls[k]>>).role = "tool"
        /\ Message("tool", <<calls[k]>>).ids = <<calls[k]>>
    BY <2>2, MessageType
  <2>4. ms[1 + k] = Message("tool", <<calls[k]>>)
    BY <2>1
  <2> QED
    BY <2>2, <2>3, <2>4
<1>6. CallsPaired(ms, 1)
  <2>1. ToSet(calls) = {calls[k] : k \in 1..n}
    BY <1>1 DEF ToSet
  <2>2. {ms[1 + k].ids[1] : k \in 1..n} = {calls[k] : k \in 1..n}
    BY <1>5
  <2>3. 1 + n <= Len(ms) /\ n = Len(ms[1].ids)
    BY <1>1, <1>3, <1>4
  <2> QED
    BY <1>4, <1>5, <2>1, <2>2, <2>3, Zenon DEF CallsPaired
<1>7. ASSUME NEW i \in 1..(n + 1), i # 1
      PROVE  ms[i].role # "assistant" /\ ResultPaired(ms, i)
  <2>1. PICK k \in 1..n : i = 1 + k
    <3>1. i - 1 \in 1..n /\ i = 1 + (i - 1)
      BY <1>7
    <3> QED
      BY <3>1
  <2>2. ms[i].role = "tool"
    BY <1>5, <2>1
  <2>3. 1 \in 1..(i - 1) /\ i <= 1 + Len(ms[1].ids)
    BY <1>1, <1>4, <1>7
  <2> QED
    BY <1>4, <2>2, <2>3 DEF ResultPaired
<1>8. ms[1].role # "tool"
  BY <1>4
<1> QED
  BY <1>1, <1>2, <1>3, <1>6, <1>7, <1>8, PairedParts

\* ... and how it grows, from the calls to the last result.
LEMMA RoundBegin ==
  ASSUME NEW d \in Seq(Messages), NEW calls \in Seq(Call)
  PROVE  Append(d, Message("assistant", calls)) = d \o Round(calls, 0)
<1>1. PICK m \in Messages : m = Message("assistant", calls)
  BY MessageType
<1>2. PICK k \in 0..Len(calls) : k = 0
  OBVIOUS
<1>3. Round(calls, 0) \in Seq(Messages) /\ Len(Round(calls, 0)) = 1 /\ Round(calls, 0)[1] = m
  <2>1. Round(calls, k) \in Seq(Messages) /\ Len(Round(calls, k)) = k + 1
        /\ Round(calls, k)[1] = Message("assistant", calls)
    BY RoundType
  <2> QED
    BY <1>1, <1>2, <2>1
<1>4. Round(calls, 0) = <<m>>
  BY <1>3
<1>5. Append(d, m) = d \o <<m>>
  BY <1>1
<1> QED
  BY <1>1, <1>4, <1>5, Zenon

LEMMA SameSequence ==
  ASSUME NEW S, NEW s \in Seq(S), NEW t \in Seq(S), Len(s) = Len(t),
         \A i \in 1..Len(s) : s[i] = t[i]
  PROVE  s = t
  OBVIOUS

LEMMA AppendConcat ==
  ASSUME NEW s \in Seq(Messages), NEW t \in Seq(Messages), NEW e \in Messages
  PROVE  Append(s \o t, e) = s \o Append(t, e)
<1>1. s \o t \in Seq(Messages) /\ Append(t, e) \in Seq(Messages)
  OBVIOUS
<1>2. Append(s \o t, e) \in Seq(Messages) /\ s \o Append(t, e) \in Seq(Messages)
  BY <1>1
<1>3. /\ Len(s) \in Nat /\ Len(t) \in Nat
      /\ Len(Append(s \o t, e)) = Len(s) + Len(t) + 1
      /\ Len(s \o Append(t, e)) = Len(s) + Len(t) + 1
  BY <1>1
<1>4. ASSUME NEW i \in 1..(Len(s) + Len(t) + 1)
      PROVE  Append(s \o t, e)[i] = (s \o Append(t, e))[i]
  <2>1. CASE i <= Len(s)
    BY <1>1, <1>3, <2>1
  <2>2. CASE i > Len(s) /\ i <= Len(s) + Len(t)
    BY <1>1, <1>3, <2>2
  <2>3. CASE i = Len(s) + Len(t) + 1
    BY <1>1, <1>3, <2>3
  <2> QED
    BY <1>3, <2>1, <2>2, <2>3
<1> QED
  BY <1>2, <1>3, <1>4, SameSequence

LEMMA RoundGoesOn ==
  ASSUME NEW d \in Seq(Messages), NEW calls \in Seq(Call), NEW k \in 0..(Len(calls) - 1)
  PROVE  Append(d \o Round(calls, k), Message("tool", <<calls[k + 1]>>))
           = d \o Round(calls, k + 1)
<1>1. /\ k \in 0..Len(calls) /\ k + 1 \in 0..Len(calls)
      /\ k + 1 \in 1..Len(calls) /\ k + 1 \in 1..(k + 1)
  OBVIOUS
<1>2. PICK r : r = Round(calls, k)
  OBVIOUS
<1>3. PICK s : s = Round(calls, k + 1)
  OBVIOUS
<1>4. PICK m : m = Message("tool", <<calls[k + 1]>>)
  OBVIOUS
<1>5. m \in Messages
  <2>1. <<calls[k + 1]>> \in Seq(Call)
    BY <1>1
  <2> QED
    BY <1>4, <2>1, MessageType
<1>6. /\ r \in Seq(Messages) /\ Len(r) = k + 1 /\ r[1] = Message("assistant", calls)
      /\ \A i \in 1..k : r[i + 1] = Message("tool", <<calls[i]>>)
  BY <1>1, <1>2, RoundType
<1>7. /\ s \in Seq(Messages) /\ Len(s) = k + 2 /\ s[1] = Message("assistant", calls)
      /\ \A i \in 1..(k + 1) : s[i + 1] = Message("tool", <<calls[i]>>)
  <2>1. PICK j \in 0..Len(calls) : j = k + 1
    BY <1>1
  <2>2. s = Round(calls, j)
    BY <1>3, <2>1
  <2>3. /\ s \in Seq(Messages) /\ Len(s) = j + 1 /\ s[1] = Message("assistant", calls)
        /\ \A i \in 1..j : s[i + 1] = Message("tool", <<calls[i]>>)
    BY <2>2, RoundType
  <2> QED
    BY <2>1, <2>3
<1>8. s[k + 2] = m
  <2>1. s[(k + 1) + 1] = m
    BY <1>1, <1>4, <1>7
  <2> QED
    BY <2>1
<1>9. ASSUME NEW i \in 1..(k + 1) PROVE s[i] = r[i]
  <2>1. CASE i = 1
    BY <1>6, <1>7, <2>1
  <2>2. CASE i # 1
    <3>1. PICK h \in 1..k : i = h + 1
      <4>1. i - 1 \in 1..k /\ i = (i - 1) + 1
        BY <2>2
      <4> QED
        BY <4>1
    <3>2. r[h + 1] = Message("tool", <<calls[h]>>)
      BY <1>6
    <3>3. h \in 1..(k + 1)
      OBVIOUS
    <3>4. s[h + 1] = Message("tool", <<calls[h]>>)
      BY <1>7, <3>3
    <3> QED
      BY <3>1, <3>2, <3>4
  <2> QED
    BY <2>1, <2>2
<1>10. s = Append(r, m)
  BY <1>5, <1>6, <1>7, <1>8, <1>9
<1>11. Append(d \o r, m) = d \o Append(r, m)
  <2>1. r \in Seq(Messages)
    BY <1>6
  <2> QED
    BY <1>5, <2>1, AppendConcat
<1> QED
  BY <1>2, <1>3, <1>4, <1>10, <1>11

\* The calls of a round behind an answer without any open.
LEMMA CollectedCalls ==
  ASSUME NEW x \in Seq(Items), Named(x), NEW m \in Nat, Collected(x)[m].ids = <<>>,
         NEW calls \in Seq(Call), m + Len(calls) <= Len(x),
         \A i \in 1..Len(calls) : x[m + i].type = "call" /\ x[m + i].id = calls[i]
  PROVE  /\ Collected(x)[m + Len(calls)].ids = calls
         /\ Collected(x)[m + Len(calls)].done = Collected(x)[m].done
<1> DEFINE Same(k) == LET c == Collected(x)[m + k]
                      IN /\ Len(c.ids) = k /\ \A i \in 1..k : c.ids[i] = calls[i]
                         /\ c.done = Collected(x)[m].done
           T == {k \in 0..Len(calls) : Same(k)}
<1>0. PICK w \in Nat : w = Len(calls)
  OBVIOUS
<1>1. 0 \in T
  BY <1>0
<1>2. ASSUME NEW k \in 0..(w - 1), k \in T PROVE k + 1 \in T
  <2>1. PICK j \in 1..Len(x) : j = m + k + 1
    BY <1>0
  <2>2. Collected(x)[j] = Converted(Collected(x)[j - 1], x[j]) /\ j - 1 = m + k
    BY <1>0, <2>1, CollectedDef
  <2>3. PICK c : c = Collected(x)[m + k]
    OBVIOUS
  <2>4. c \in Collections /\ c.ids \in Seq(Call)
    <3>1. m + k \in 0..Len(x)
      BY <1>0
    <3>2. c \in Collections
      BY <2>3, <3>1, CollectedType
    <3> QED
      BY <3>2 DEF Collections
  <2>5. PICK i \in 1..Len(calls) : i = k + 1
    BY <1>0
  <2>6. x[j].type = "call" /\ x[j].id = calls[i] /\ calls[i] \in Call
    <3>1. j = m + i
      BY <2>1, <2>5
    <3> QED
      BY <2>5, <3>1
  <2>7. Converted(c, x[j]) = [done |-> c.done, ids |-> Append(c.ids, calls[i]), text |-> c.text]
    BY <2>4, <2>6, ConvertedCall
  <2>8. Len(c.ids) = k /\ (\A h \in 1..k : c.ids[h] = calls[h]) /\ c.done = Collected(x)[m].done
    BY <1>2, <2>3
  <2>9. PICK ids : ids = Append(c.ids, calls[i])
    OBVIOUS
  <2>10. Len(ids) = k + 1 /\ \A h \in 1..(k + 1) : ids[h] = calls[h]
    BY <2>4, <2>5, <2>6, <2>8, <2>9
  <2>11. PICK e : e = Collected(x)[m + (k + 1)]
    OBVIOUS
  <2>12. e.ids = ids /\ e.done = c.done
    <3>1. m + (k + 1) = j
      BY <2>1
    <3>2. e = Converted(c, x[j])
      BY <2>2, <2>3, <2>11, <3>1
    <3>3. e = [done |-> c.done, ids |-> ids, text |-> c.text]
      BY <2>7, <2>9, <3>2
    <3> QED
      BY <3>3
  <2>13. Same(k + 1)
    BY <2>8, <2>10, <2>11, <2>12
  <2>14. k + 1 \in 0..Len(calls)
    BY <1>0
  <2> HIDE DEF Same
  <2> QED
    BY <2>13, <2>14
<1>3. Same(w)
  <2> HIDE DEF T
  <2>1. \A k \in 0..w : k \in T
    BY <1>0, <1>1, <1>2, Upward
  <2>2. w \in T
    BY <1>0, <2>1
  <2> QED
    BY <2>2 DEF T
<1>4. Collected(x)[m + w].ids \in Seq(Call)
  <2>1. m + w \in 0..Len(x)
    BY <1>0
  <2>2. Collected(x)[m + w] \in Collections
    BY <2>1, CollectedType
  <2> QED
    BY <2>2 DEF Collections
<1>5. Collected(x)[m + w].ids = calls
  <2>1. PICK s \in Seq(Call) : s = Collected(x)[m + w].ids
    BY <1>4
  <2>2. Len(s) = w /\ \A i \in 1..w : s[i] = calls[i]
    BY <1>3, <2>1
  <2>3. s = calls
    BY <1>0, <2>2, SameSequence
  <2> QED
    BY <2>1, <2>3
<1> QED
  BY <1>0, <1>3, <1>5

\* The results of a round behind its calls.
LEMMA CollectedResults ==
  ASSUME NEW x \in Seq(Items), Named(x), NEW p \in Nat,
         NEW calls \in Seq(Call), calls # <<>>, Collected(x)[p].ids = calls,
         p + Len(calls) <= Len(x),
         \A i \in 1..Len(calls) : x[p + i].type = "result" /\ x[p + i].id = calls[i]
  PROVE  /\ Collected(x)[p + Len(calls)].ids = <<>>
         /\ Collected(x)[p + Len(calls)].done
              = Collected(x)[p].done \o Round(calls, Len(calls))
<1>n. Len(calls) \in Nat /\ Len(calls) # 0
  OBVIOUS
<1>0. PICK w \in Nat : w = Len(calls) - 1
  <2>1. Len(calls) - 1 \in Nat
    BY <1>n
  <2> QED
    BY <2>1, Zenon
<1>c. PICK c : c = Collected(x)[p]
  OBVIOUS
<1>d. c \in Collections /\ c.done \in Seq(Messages) /\ c.ids = calls
  <2>1. p \in 0..Len(x)
    OBVIOUS
  <2>2. c \in Collections
    BY <1>c, <2>1, CollectedType
  <2> QED
    BY <1>c, <2>2 DEF Collections
<1> DEFINE After(k) == [done |-> c.done \o Round(calls, k), ids |-> <<>>, text |-> FALSE]
           T == {k \in 0..w : Collected(x)[p + k + 1] = After(k + 1)}
<1>s. ASSUME NEW k \in 0..w
      PROVE  \E j \in 1..Len(x) :
               /\ j = p + k + 1 /\ Collected(x)[j] = Converted(Collected(x)[p + k], x[j])
               /\ x[j].type = "result" /\ x[j].id = calls[k + 1] /\ calls[k + 1] \in Call
  <2>1. PICK j \in 1..Len(x) : j = p + k + 1
    BY <1>0
  <2>2. Collected(x)[j] = Converted(Collected(x)[j - 1], x[j]) /\ j - 1 = p + k
    BY <2>1, CollectedDef
  <2>3. PICK i \in 1..Len(calls) : i = k + 1
    BY <1>0
  <2>4. j = p + i
    BY <2>1, <2>3
  <2>5. x[j].type = "result" /\ x[j].id = calls[i] /\ calls[i] \in Call
    BY <2>4
  <2> QED
    BY <2>1, <2>2, <2>3, <2>5
<1>1. 0 \in T
  <2>1. PICK z \in 0..w : z = 0
    BY <1>0
  <2>2. PICK j \in 1..Len(x) :
               /\ j = p + z + 1 /\ Collected(x)[j] = Converted(Collected(x)[p + z], x[j])
               /\ x[j].type = "result" /\ x[j].id = calls[z + 1] /\ calls[z + 1] \in Call
    BY <1>s
  <2>3. p + z = p /\ p + 0 + 1 = j /\ z \in 0..(Len(calls) - 1)
    BY <1>0, <2>1, <2>2
  <2>4. Flush(c).done = Append(c.done, Message("assistant", calls))
    BY <1>d, FlushType
  <2>5. Flush(c).done = c.done \o Round(calls, z)
    BY <1>d, <2>1, <2>4, RoundBegin
  <2>6. Append(Flush(c).done, Message("tool", <<calls[z + 1]>>)) = c.done \o Round(calls, z + 1)
    BY <1>d, <2>3, <2>5, RoundGoesOn
  <2>7. Converted(c, x[j]) =
           [done |-> Append(Flush(c).done, Message("tool", <<x[j].id>>)),
            ids |-> <<>>, text |-> FALSE]
    BY <1>d, <2>2, ConvertedResult
  <2>8. Collected(x)[j] = After(z + 1)
    BY <1>c, <2>2, <2>3, <2>6, <2>7
  <2>9. Collected(x)[p + z + 1] = After(z + 1)
    BY <2>2, <2>8
  <2> HIDE DEF After
  <2> QED
    BY <2>1, <2>9
<1>2. ASSUME NEW k \in 0..(w - 1), k \in T PROVE k + 1 \in T
  <2>1. PICK h \in 0..w : h = k + 1 /\ h \in 0..Len(calls) /\ h \in 0..(Len(calls) - 1)
    BY <1>0
  <2>2. PICK j \in 1..Len(x) :
               /\ j = p + h + 1 /\ Collected(x)[j] = Converted(Collected(x)[p + h], x[j])
               /\ x[j].type = "result" /\ x[j].id = calls[h + 1] /\ calls[h + 1] \in Call
    BY <1>s
  <2>3. Collected(x)[p + h] = After(h)
    <3>1. p + h = p + k + 1
      BY <2>1
    <3> HIDE DEF After
    <3> QED
      BY <1>2, <2>1, <3>1
  <2>4. PICK e : e = After(h)
    OBVIOUS
  <2>5. e.done = c.done \o Round(calls, h) /\ e.ids = <<>> /\ e.text = FALSE
    BY <2>4
  <2>6. e \in Collections
    <3>1. p + h \in 0..Len(x)
      BY <1>0
    <3>2. Collected(x)[p + h] \in Collections
      BY <3>1, CollectedType
    <3> HIDE DEF After
    <3> QED
      BY <2>3, <2>4, <3>2
  <2>7. Flush(e).done = e.done
    BY <2>5, <2>6, FlushType
  <2>8. Append(Flush(e).done, Message("tool", <<calls[h + 1]>>)) = c.done \o Round(calls, h + 1)
    BY <1>d, <2>1, <2>5, <2>7, RoundGoesOn
  <2>9. Converted(e, x[j]) =
           [done |-> Append(Flush(e).done, Message("tool", <<calls[h + 1]>>)),
            ids |-> <<>>, text |-> FALSE]
    BY <2>2, <2>6, ConvertedResult
  <2>10. Collected(x)[p + h + 1] = After(h + 1)
    BY <2>2, <2>3, <2>4, <2>8, <2>9
  <2> HIDE DEF After
  <2> QED
    BY <2>1, <2>10
<1>3. w \in T
  <2> HIDE DEF T
  <2>1. \A k \in 0..w : k \in T
    BY <1>0, <1>1, <1>2, Upward
  <2> QED
    BY <1>0, <2>1
<1>4. w + 1 = Len(calls) /\ p + w + 1 = p + Len(calls)
  BY <1>0
<1>5. Collected(x)[p + Len(calls)] = After(w + 1)
  <2> HIDE DEF After
  <2> QED
    BY <1>3, <1>4
<1>6. /\ After(w + 1).ids = <<>>
      /\ After(w + 1).done = c.done \o Round(calls, Len(calls))
  BY <1>4
<1> HIDE DEF After
<1> QED
  BY <1>5, <1>6, <1>c

\* A part at the beginning, whatever follows.
LEMMA AnsweredPart ==
  ASSUME NEW x \in Seq(Items), NEW y \in Seq(Items), NEW m \in Nat,
         m = Len(x), m <= Len(y), \A i \in 1..m : Alike(x[i], y[i]), Answered(x)
  PROVE  Collected(y)[m].ids = <<>> /\ Paired(Collected(y)[m].done)
<1>1. Collected(x)[m] = Collected(y)[m]
  BY CollectedAlike
<1> QED
  BY <1>1 DEF Answered

\* The calls of a round, all of its results and the message after them.
LEMMA AnsweredRound ==
  ASSUME NEW base \in Seq(Items), Named(base), Answered(base),
         NEW calls \in Seq(Call), NEW y \in Seq(Items),
         Len(y) = Len(base) + 2 * Len(calls) + 1,
         \A i \in 1..Len(base) : Alike(base[i], y[i]),
         \A i \in 1..Len(calls) :
           /\ y[Len(base) + i].type = "call" /\ y[Len(base) + i].id = calls[i]
           /\ y[Len(base) + Len(calls) + i].type = "result"
           /\ y[Len(base) + Len(calls) + i].id = calls[i],
         y[Len(y)].type \notin Tool
  PROVE  Named(y) /\ Answered(y)
<1>1. PICK m \in Nat, n \in Nat : m = Len(base) /\ n = Len(calls)
  OBVIOUS
<1>2. m <= Len(y) /\ m + n <= Len(y) /\ (m + n) + n <= Len(y) /\ Len(y) = (m + n) + n + 1
  BY <1>1
<1>3. \A i \in 1..n : calls[i] \in Call
  BY <1>1
<1>4. /\ \A i \in 1..n : y[m + i].type = "call" /\ y[m + i].id = calls[i]
      /\ \A i \in 1..n : y[(m + n) + i].type = "result" /\ y[(m + n) + i].id = calls[i]
  BY <1>1
<1>5. Named(y)
  <2>1. ASSUME NEW i \in 1..Len(y), y[i].type \in Tool PROVE y[i].id \in Call
    <3>1. CASE i <= m
      <4>1. Alike(base[i], y[i]) /\ i \in 1..Len(base)
        BY <1>1, <3>1
      <4> QED
        BY <2>1, <4>1 DEF Alike, Named
    <3>2. CASE i > m /\ i <= m + n
      <4>1. PICK h \in 1..n : h = i - m
        BY <1>2, <3>2
      <4>2. i = m + h
        BY <1>2, <4>1
      <4>3. y[m + h].id = calls[h] /\ calls[h] \in Call
        BY <1>3, <1>4
      <4> QED
        BY <4>2, <4>3
    <3>3. CASE i > m + n /\ i <= (m + n) + n
      <4>1. PICK h \in 1..n : h = i - (m + n)
        BY <1>2, <3>3
      <4>2. i = (m + n) + h
        BY <1>2, <4>1
      <4>3. y[(m + n) + h].id = calls[h] /\ calls[h] \in Call
        BY <1>3, <1>4
      <4> QED
        BY <4>2, <4>3
    <3>4. CASE i = Len(y)
      BY <2>1, <3>4
    <3>5. PICK p \in Nat, q \in Nat : p = m + n /\ q = (m + n) + n
      OBVIOUS
    <3>6. i \in Nat /\ Len(y) = q + 1 /\ i <= Len(y)
      BY <1>2, <3>5
    <3>7. i <= q \/ i = Len(y)
      <4>1. PICK l \in Nat : l = Len(y)
        BY <1>2
      <4>2. i <= q \/ i = l
        BY <3>6, <4>1
      <4> QED
        BY <4>1, <4>2
    <3>8. i <= p \/ i > p
      BY <3>6, <3>5
    <3>9. i <= m \/ i > m
      BY <3>6
    <3> QED
      BY <3>1, <3>2, <3>3, <3>4, <3>5, <3>7, <3>8, <3>9
  <2> QED
    BY <2>1 DEF Named
<1>6. Collected(y)[m].ids = <<>> /\ Paired(Collected(y)[m].done)
  BY <1>1, <1>2, AnsweredPart
<1>7. Collected(y)[m].done \in Seq(Messages)
  <2>1. m \in 0..Len(y)
    BY <1>2
  <2>2. Collected(y)[m] \in Collections
    BY <1>5, <2>1, CollectedType
  <2> QED
    BY <2>2 DEF Collections
<1>8. /\ Collected(y)[m + n].ids = calls
      /\ Collected(y)[m + n].done = Collected(y)[m].done
  <2>1. /\ m + Len(calls) <= Len(y) /\ m \in Nat /\ Collected(y)[m].ids = <<>>
        /\ \A i \in 1..Len(calls) : y[m + i].type = "call" /\ y[m + i].id = calls[i]
    BY <1>1, <1>2, <1>4, <1>6
  <2>2. /\ Collected(y)[m + Len(calls)].ids = calls
        /\ Collected(y)[m + Len(calls)].done = Collected(y)[m].done
    BY <1>5, <2>1, CollectedCalls, ZenonT(60)
  <2> QED
    BY <1>1, <2>2
<1>9. /\ Collected(y)[(m + n) + n].ids = <<>>
      /\ Paired(Collected(y)[(m + n) + n].done)
  <2>1. CASE calls = <<>>
    <3>1. (m + n) + n = m
      BY <1>1, <2>1
    <3> QED
      BY <1>6, <3>1
  <2>2. CASE calls # <<>>
    <3>1. PICK p \in Nat : p = m + n
      OBVIOUS
    <3>2. /\ Collected(y)[(m + n) + n].ids = <<>>
          /\ Collected(y)[(m + n) + n].done
               = Collected(y)[m + n].done \o Round(calls, Len(calls))
      <4>1. /\ p + Len(calls) <= Len(y) /\ Collected(y)[p].ids = calls
            /\ \A i \in 1..Len(calls) : /\ y[p + i].type = "result"
                                        /\ y[p + i].id = calls[i]
        BY <1>1, <1>2, <1>4, <1>8, <3>1
      <4>2. /\ Collected(y)[p + Len(calls)].ids = <<>>
            /\ Collected(y)[p + Len(calls)].done
                 = Collected(y)[p].done \o Round(calls, Len(calls))
        BY <1>5, <2>2, <4>1, CollectedResults
      <4> QED
        BY <1>1, <3>1, <4>2
    <3>3. Round(calls, Len(calls)) \in Seq(Messages) /\ Paired(Round(calls, Len(calls)))
      <4>1. Len(calls) \in 0..Len(calls)
        BY <1>1
      <4> QED
        BY <4>1, RoundType, RoundPaired
    <3> QED
      BY <1>6, <1>7, <1>8, <3>2, <3>3, PairedConcat
  <2> QED
    BY <2>1, <2>2
<1>10. PICK p \in Nat : p = (m + n) + n
  OBVIOUS
<1>11. \A i \in (p + 1)..Len(y) : y[i].type \notin Tool
  BY <1>2, <1>10
<1>12. /\ Collected(y)[Len(y)].done = Collected(y)[p].done
       /\ Collected(y)[Len(y)].ids = Collected(y)[p].ids
  BY <1>2, <1>5, <1>10, <1>11, CollectedText
<1> QED
  BY <1>5, <1>9, <1>10, <1>12 DEF Answered

-----------------------------------------------------------------------------
(* The types of a completion.                                              *)

\* The local variables of the streaming handler.
LocalType ==
  [phase : {"first", "tools", "code"}, theirs : Seq(Items),
   calls : Seq(Call), queue : Seq(Seq(Call)), results : Nat,
   tools : 0..MaxToolRounds, code : 0..MaxCodeRounds]

\* A list of items whose calls and results have the ids of calls.
Listed(items) == items \in Seq(Items) /\ Named(items)

\* The types with what they do not say: ids, and where a block is code.
TypeInv ==
  /\ TypeOK
  /\ Named(output) /\ Named(local.theirs) /\ Named(row)
  /\ pc = "code" => LastType(output) = "code"

LEMMA TypeParts ==
  TypeInv => /\ Listed(output) /\ Listed(local.theirs) /\ Listed(row)
             /\ local \in LocalType
  BY DEF TypeInv, TypeOK, AnswerTypeOK, LocalType, Listed

\* What is done to lists of items keeps the ids.
LEMMA ListedEdit ==
  ASSUME NEW x, NEW y, Listed(x), TextEdit(x, y)
  PROVE  Listed(y)
  BY TextEditType, NamedEdit DEF Listed

LEMMA ListedConcat ==
  ASSUME NEW x, NEW y, Listed(x), Listed(y)
  PROVE  Listed(x \o y)
<1>1. /\ x \in Seq(Items) /\ y \in Seq(Items) /\ x \o y \in Seq(Items)
      /\ Len(x) \in Nat /\ Len(y) \in Nat /\ Len(x \o y) = Len(x) + Len(y)
  BY DEF Listed
<1>2. ASSUME NEW i \in 1..Len(x \o y), (x \o y)[i].type \in Tool
      PROVE  (x \o y)[i].id \in Call
  <2>1. CASE i <= Len(x)
    <3>1. (x \o y)[i] = x[i] /\ i \in 1..Len(x)
      BY <1>1, <2>1
    <3> QED
      BY <1>2, <3>1 DEF Listed, Named
  <2>2. CASE i > Len(x)
    <3>0. i - Len(x) \in 1..Len(y)
      BY <1>1, <2>2
    <3>1. PICK j \in 1..Len(y) : j = i - Len(x)
      BY <3>0
    <3>2. (x \o y)[i] = y[j]
      BY <1>1, <2>2, <3>1
    <3> QED
      BY <1>2, <3>2 DEF Listed, Named
  <2> QED
    BY <1>1, <2>1, <2>2
<1> QED
  BY <1>1, <1>2 DEF Listed, Named

LEMMA ListedOne ==
  ASSUME NEW e \in Items, e.type \in Tool => e.id \in Call
  PROVE  Listed(<<e>>)
  BY DEF Listed, Named

LEMMA ListedChange ==
  ASSUME NEW x, Listed(x), NEW i, NEW e, i \in DOMAIN x => e \in Items,
         i \in DOMAIN x /\ e.type \in Tool => e.id \in Call
  PROVE  Listed([x EXCEPT ![i] = e])
<1>1. x \in Seq(Items)
  BY DEF Listed
<1>2. CASE i \in DOMAIN x
  <2>1. PICK y : y = [x EXCEPT ![i] = e]
    OBVIOUS
  <2>2. y \in Seq(Items) /\ Len(y) = Len(x)
        /\ \A j \in 1..Len(x) : y[j] = IF j = i THEN e ELSE x[j]
    BY <1>1, <1>2, <2>1
  <2>3. Named(y)
    BY <1>2, <2>2 DEF Listed, Named
  <2> QED
    BY <2>1, <2>2, <2>3 DEF Listed
<1>3. CASE i \notin DOMAIN x
  <2>1. [x EXCEPT ![i] = e] = x
    BY <1>1, <1>3
  <2> QED
    BY <2>1
<1> QED
  BY <1>2, <1>3

LEMMA ListedGrow ==
  ASSUME NEW x, Listed(x), NEW i
  PROVE  Listed(Grow(x, i))
<1> DEFINE e == [x[i] EXCEPT !.text = @ + 1]
<1>1. Grow(x, i) = [x EXCEPT ![i] = e]
  BY DEF Grow
<1>2. ASSUME i \in DOMAIN x
      PROVE  e \in Items /\ (e.type \in Tool => e.id \in Call)
  <2>1. x[i] \in Items /\ (x[i].type \in Tool => x[i].id \in Call)
    BY <1>2 DEF Listed, Named
  <2> QED
    BY <2>1 DEF Items
<1> HIDE DEF e
<1>3. Listed([x EXCEPT ![i] = e])
  BY <1>2, ListedChange
<1> QED
  BY <1>1, <1>3

LEMMA ListedClose ==
  ASSUME NEW x, Listed(x), NEW i \in DOMAIN x
  PROVE  /\ Closed(x[i]) \in Items
         /\ Closed(x[i]).type \in Tool => Closed(x[i]).id \in Call
         /\ Listed([x EXCEPT ![i] = Closed(@)])
<1>1. x[i] \in Items /\ (x[i].type \in Tool => x[i].id \in Call)
  BY DEF Listed, Named
<1>2. Closed(x[i]) \in Items /\ (Closed(x[i]).type \in Tool => Closed(x[i]).id \in Call)
  BY <1>1, ClosedType DEF Alike
<1> QED
  BY <1>2, ListedChange

LEMMA ListedCalls ==
  ASSUME NEW type \in Tool, NEW ids \in Seq(Call)
  PROVE  Listed(CallItems(type, ids)) /\ Listed(CloseAll(CallItems(type, ids)))
<1>1. /\ CallItems(type, ids) \in Seq(Items) /\ Len(CallItems(type, ids)) = Len(ids)
      /\ \A i \in 1..Len(ids) : CallItems(type, ids)[i].id = ids[i]
  BY CallItemsType
<1>2. Listed(CallItems(type, ids))
  BY <1>1 DEF Listed, Named
<1>3. TextEdit(CallItems(type, ids), CloseAll(CallItems(type, ids)))
  BY <1>1, CloseAllEdits
<1> QED
  BY <1>2, <1>3, ListedEdit

LEMMA ListedRound ==
  ASSUME NEW x, Listed(x), NEW ids \in Seq(Call), NEW S
  PROVE  Listed(MarkCalls(x, S) \o CloseAll(CallItems("result", ids))
                  \o <<Item("message", 0)>>)
<1>1. Listed(MarkCalls(x, S))
  BY MarkCallsEdits, ListedEdit DEF Listed
<1>2. Listed(CloseAll(CallItems("result", ids)))
  BY ListedCalls DEF Tool
<1>3. Listed(<<Item("message", 0)>>)
  BY TextItems, ListedOne
<1>4. Listed(MarkCalls(x, S) \o CloseAll(CallItems("result", ids)))
  BY <1>1, <1>2, ListedConcat
<1> QED
  BY <1>3, <1>4, ListedConcat

\* Where the answer is edited as text, it is.
LEMMA TextDeltaEdits ==
  ASSUME TypeInv, TextDelta PROVE TextEdit(output, output')
<1>1. output \in Seq(Items)
  BY TypeParts DEF Listed
<1>2. TextEdit(output, AddText(output)) /\ AddText(output) \in Seq(Items)
  BY <1>1, AddTextEdits, TextEditType
<1>3. output' \in {AddText(output)} \cup Started(AddText(output)) \cup Ended(AddText(output))
  BY DEF TextDelta
<1>4. TextEdit(AddText(output), output')
  BY <1>2, <1>3, TextEditRefl, StartedEdits, EndedEdits
<1> QED
  BY <1>1, <1>2, <1>4, TextEditTrans

\* The steps that edit the text.
TextSteps == \/ TextDelta \/ ReasoningDelta \/ StreamEnds \/ RunCode \/ Finish

LEMMA TextStepsEdit ==
  ASSUME TypeInv, TextSteps PROVE TextEdit(output, output')
<1>1. output \in Seq(Items) /\ (pc = "code" => LastType(output) = "code")
  BY TypeParts DEF Listed, TypeInv
<1>2. CASE TextDelta
  BY <1>2, TextDeltaEdits
<1>3. CASE ReasoningDelta
  BY <1>1, <1>3, AddReasoningEdits DEF ReasoningDelta
<1>4. CASE StreamEnds
  BY <1>1, <1>4, TidyEdits DEF StreamEnds
<1>5. CASE RunCode
  BY <1>1, <1>5, CodeEdits DEF RunCode
<1>6. CASE Finish
  BY <1>1, <1>6, CloseAllEdits DEF Finish
<1> QED
  BY <1>2, <1>3, <1>4, <1>5, <1>6 DEF TextSteps

\* The steps that leave the answer alone.
IdleSteps == \/ (\E c \in Call : CallDelta(c)) \/ StreamBreaks
             \/ LeaveTools \/ RunTool \/ ToolBreaks \/ BeginCode \/ Request
             \/ TellDone \/ BackgroundTasks \/ SaveStopped \/ TellWhole \/ SaveWhole
EventSteps ==
  \/ \E type \in {"message", "reasoning", "call"} :
        \E id \in IF type = "call" THEN Call ELSE {NoCall} :
           ItemAdded(CallItem(type, id))
  \/ \E i \in DOMAIN local.theirs : ItemDelta(i) \/ ItemDone(i)
  \/ ResponseCompleted

\* Every step of the answer is of one of these kinds.
LEMMA AnswerStepKinds ==
  AnswerStep => TextSteps \/ IdleSteps \/ EventSteps \/ BeginTools \/ AnswerTools
  BY DEF AnswerStep, TextSteps, IdleSteps, EventSteps

LEMMA IdleOutput == IdleSteps => output' = output
  BY DEF IdleSteps, CallDelta, StreamBreaks, LeaveTools, RunTool, ToolBreaks,
         BeginCode, Request, TellDone, BackgroundTasks, SaveStopped, TellWhole, SaveWhole

LEMMA EventDialect == EventSteps => dialect = "responses"
  BY DEF EventSteps, ItemAdded, ItemDelta, ItemDone, ResponseCompleted, Delta

\* The answer stays a list of items, and so does the provider's.
LEMMA EventLists ==
  ASSUME TypeInv, EventSteps
  PROVE  Listed(output') /\ local' \in LocalType /\ Named(local'.theirs)
<1>1. Listed(output) /\ Listed(local.theirs) /\ local \in LocalType
  BY TypeParts
<1>2. ASSUME NEW t, Listed(t), local' = [local EXCEPT !.theirs = t]
      PROVE  local' \in LocalType /\ Named(local'.theirs)
  <2>1. t \in Seq(Items) /\ Named(t)
    BY <1>2 DEF Listed
  <2> QED
    BY <1>1, <1>2, <2>1 DEF LocalType
<1>3. ASSUME NEW type \in {"message", "reasoning", "call"},
             NEW id \in IF type = "call" THEN Call ELSE {NoCall},
             ItemAdded(CallItem(type, id))
      PROVE  Listed(output') /\ local' \in LocalType /\ Named(local'.theirs)
  <2>1. PICK e : e = CallItem(type, id)
    OBVIOUS
  <2>2. e \in Items /\ (e.type \in Tool => e.id \in Call)
    BY <2>1 DEF CallItem, Item, Items, Types, Tool
  <2>3. output' = Append(output, e) /\ local' = [local EXCEPT !.theirs = Append(local.theirs, e)]
    BY <1>3, <2>1 DEF ItemAdded
  <2>4. \A x : Listed(x) => Append(x, e) = x \o <<e>>
    BY <2>2 DEF Listed
  <2>5. Listed(Append(output, e)) /\ Listed(Append(local.theirs, e))
    BY <1>1, <2>2, <2>4, ListedOne, ListedConcat
  <2> QED
    BY <1>2, <2>3, <2>5
<1>4. ASSUME NEW i \in DOMAIN local.theirs, ItemDelta(i)
      PROVE  Listed(output') /\ local' \in LocalType /\ Named(local'.theirs)
  <2>1. output' \in {output, Grow(output, i)}
        /\ local' = [local EXCEPT !.theirs = Grow(local.theirs, i)]
    BY <1>4 DEF ItemDelta
  <2>2. Listed(Grow(output, i)) /\ Listed(Grow(local.theirs, i))
    BY <1>1, ListedGrow
  <2> QED
    BY <1>1, <1>2, <2>1, <2>2
<1>5. ASSUME NEW i \in DOMAIN local.theirs, ItemDone(i)
      PROVE  Listed(output') /\ local' \in LocalType /\ Named(local'.theirs)
  <2>1. /\ output' = [output EXCEPT ![i] = Closed(local.theirs[i])]
        /\ local' = [local EXCEPT !.theirs = [local.theirs EXCEPT ![i] = Closed(@)]]
    BY <1>5 DEF ItemDone
  <2>2. /\ Closed(local.theirs[i]) \in Items
        /\ Closed(local.theirs[i]).type \in Tool => Closed(local.theirs[i]).id \in Call
        /\ Listed([local.theirs EXCEPT ![i] = Closed(@)])
    BY <1>1, ListedClose
  <2>3. Listed(output')
    BY <1>1, <2>1, <2>2, ListedChange
  <2> QED
    BY <1>2, <2>1, <2>2, <2>3
<1>6. ASSUME ResponseCompleted
      PROVE  Listed(output') /\ local' \in LocalType /\ Named(local'.theirs)
  <2>1. output' = CloseAll(local.theirs) /\ local' = local
    BY <1>6 DEF ResponseCompleted
  <2>2. TextEdit(local.theirs, CloseAll(local.theirs))
    BY <1>1, CloseAllEdits DEF Listed
  <2> QED
    BY <1>1, <2>1, <2>2, ListedEdit DEF Listed
<1> QED
  BY <1>3, <1>4, <1>5, <1>6 DEF EventSteps

\* Every step of the answer keeps the types of the items ...
LEMMA AnswerLists ==
  ASSUME TypeInv, AnswerStep
  PROVE  Listed(output')
<1>1. Listed(output) /\ local \in LocalType
  BY TypeParts
<1>2. CASE TextSteps
  BY <1>1, <1>2, TextStepsEdit, ListedEdit
<1>3. CASE IdleSteps
  BY <1>1, <1>3, IdleOutput
<1>4. CASE EventSteps
  BY <1>4, EventLists
<1>5. CASE BeginTools
  <2>1. local.queue # <<>> /\ local.queue \in Seq(Seq(Call))
    BY <1>1, <1>5 DEF BeginTools, MoreTools, LocalType
  <2>2. Head(local.queue) \in Seq(Call)
    BY <2>1
  <2>3. output' = output \o CallItems("call", Head(local.queue))
    BY <1>5 DEF BeginTools
  <2>4. Listed(CallItems("call", Head(local.queue)))
    BY <2>2, ListedCalls DEF Tool
  <2> QED
    BY <1>1, <2>3, <2>4, ListedConcat
<1>6. CASE AnswerTools
  <2>1. local.calls \in Seq(Call)
    BY <1>1 DEF LocalType
  <2>2. output' = MarkCalls(output, ToSet(local.calls))
                    \o CloseAll(CallItems("result", local.calls)) \o <<Item("message", 0)>>
    BY <1>6 DEF AnswerTools
  <2> QED
    BY <1>1, <2>1, <2>2, ListedRound
<1> QED
  BY <1>2, <1>3, <1>4, <1>5, <1>6, AnswerStepKinds

\* ... and of the local variables.
LEMMA LocalChange ==
  ASSUME local \in LocalType,
         NEW phase \in {"first", "tools", "code"}, NEW calls \in Seq(Call),
         NEW queue \in Seq(Seq(Call)), NEW results \in Nat,
         NEW tools \in 0..MaxToolRounds, NEW code \in 0..MaxCodeRounds,
         local' = [local EXCEPT !.phase = phase, !.calls = calls, !.queue = queue,
                                !.results = results, !.tools = tools, !.code = code]
  PROVE  local' \in LocalType /\ local'.theirs = local.theirs
  BY DEF LocalType

LEMMA AnswerLocals ==
  ASSUME TypeInv, AnswerStep
  PROVE  local' \in LocalType /\ Named(local'.theirs)
<1>1. Listed(local.theirs) /\ local \in LocalType
  BY TypeParts
<1>2. /\ local.calls \in Seq(Call) /\ local.queue \in Seq(Seq(Call)) /\ local.results \in Nat
      /\ local.tools \in 0..MaxToolRounds /\ local.code \in 0..MaxCodeRounds
      /\ local.phase \in {"first", "tools", "code"}
      /\ Named(local.theirs)
  BY <1>1 DEF LocalType, Listed
<1>3. CASE local' = local
  BY <1>1, <1>2, <1>3
<1>4. CASE EventSteps
  BY <1>4, EventLists
<1>5. ASSUME NEW c \in Call, CallDelta(c)
      PROVE  local' \in LocalType /\ local'.theirs = local.theirs
  <2>1. local' = [local EXCEPT !.calls = Append(local.calls, c)]
    BY <1>5 DEF CallDelta
  <2>2. Append(local.calls, c) \in Seq(Call)
    BY <1>2
  <2> QED
    BY <1>1, <2>1, <2>2 DEF LocalType
<1>6. ASSUME StreamBreaks
      PROVE  local' \in LocalType /\ local'.theirs = local.theirs
  <2>1. local' = [local EXCEPT !.calls = <<>>] /\ <<>> \in Seq(Call)
    BY <1>6 DEF StreamBreaks
  <2> QED
    BY <1>1, <2>1 DEF LocalType
<1>7. ASSUME StreamEnds
      PROVE  local' \in LocalType /\ local'.theirs = local.theirs
  <2>1. PICK q : q = local.queue \o IF local.calls = <<>> THEN <<>> ELSE <<local.calls>>
    OBVIOUS
  <2>2. q \in Seq(Seq(Call)) /\ <<>> \in Seq(Call)
    BY <1>2, <2>1
  <2>3. local' = [local EXCEPT !.calls = <<>>, !.queue = q]
    BY <1>7, <2>1 DEF StreamEnds
  <2> QED
    BY <1>1, <2>2, <2>3 DEF LocalType
<1>8. ASSUME BeginTools
      PROVE  local' \in LocalType /\ local'.theirs = local.theirs
  <2>1. local.queue # <<>> /\ local.tools < MaxToolRounds
    BY <1>8 DEF BeginTools, MoreTools
  <2>2. Head(local.queue) \in Seq(Call) /\ Tail(local.queue) \in Seq(Seq(Call))
    BY <1>2, <2>1
  <2>3. local.tools + 1 \in 0..MaxToolRounds
    BY <1>2, <2>1, RoundsAssumption
  <2>4. local' = [local EXCEPT !.tools = local.tools + 1, !.results = 0,
                     !.calls = Head(local.queue), !.queue = Tail(local.queue)]
    BY <1>8 DEF BeginTools
  <2> QED
    BY <1>1, <2>2, <2>3, <2>4 DEF LocalType
<1>9. ASSUME RunTool \/ AnswerTools \/ BeginCode \/ RunCode
      PROVE  local' \in LocalType /\ local'.theirs = local.theirs
  <2>1. local.code < MaxCodeRounds => local.code + 1 \in 0..MaxCodeRounds
    BY <1>2, RoundsAssumption
  <2>2. local.results + 1 \in Nat /\ <<>> \in Seq(Call)
    BY <1>2
  <2>3. \/ local' = [local EXCEPT !.results = local.results + 1]
        \/ local' = [local EXCEPT !.calls = <<>>, !.phase = "tools"]
        \/ local.code < MaxCodeRounds /\ local' = [local EXCEPT !.code = local.code + 1]
        \/ local' = [local EXCEPT !.phase = "code"]
    BY <1>9 DEF RunTool, AnswerTools, BeginCode, MoreCode, RunCode
  <2> QED
    BY <1>1, <2>1, <2>2, <2>3 DEF LocalType
<1>10. AnswerStep => \/ local' = local \/ EventSteps \/ (\E c \in Call : CallDelta(c))
                     \/ StreamBreaks \/ StreamEnds \/ BeginTools
                     \/ RunTool \/ AnswerTools \/ BeginCode \/ RunCode
  BY DEF AnswerStep, EventSteps, TextDelta, ReasoningDelta, LeaveTools, ToolBreaks,
         Request, Finish, TellDone, BackgroundTasks, SaveStopped, TellWhole, SaveWhole
<1> QED
  BY <1>2, <1>3, <1>4, <1>5, <1>6, <1>7, <1>8, <1>9, <1>10

\* The rest of what a step of the answer does.
LEMMA AnswerRest ==
  ASSUME TypeInv, AnswerStep
  PROVE  /\ mode' = mode
         /\ row' \in {row, output, output'}
         /\ told' \in {told, <<output>>, <<output'>>}
         /\ events' \in 0..MaxEvents
         /\ pc' \in Working \cup Whole \cup Left \cup {"background"}
         /\ pc' = "code" => pc = "codeLoop" /\ LastType(output') = "code"
<1>1. events \in 0..MaxEvents
  BY DEF TypeInv, TypeOK, AnswerTypeOK
<1>2. events < MaxEvents => events + 1 \in 0..MaxEvents
  BY <1>1, RoundsAssumption
<1>3. CASE Streaming
  <2>1. mode' = mode /\ row' \in {row, output'} /\ told' \in {told, <<output'>>}
    BY <1>3 DEF Streaming, TextDelta, ReasoningDelta, CallDelta, ItemAdded, ItemDelta,
                ItemDone, ResponseCompleted, StreamEnds, StreamBreaks, store
  <2>2. events' = events \/ (events < MaxEvents /\ events' = events + 1)
    BY <1>3 DEF Streaming, TextDelta, ReasoningDelta, CallDelta, ItemAdded, ItemDelta,
                ItemDone, ResponseCompleted, StreamEnds, StreamBreaks, Delta
  <2>3. pc' \in {"stream", "flush", "toolLoop", "codeLoop", "finish", "raised"}
    BY <1>3 DEF Streaming, TextDelta, ReasoningDelta, CallDelta, ItemAdded, ItemDelta,
                ItemDone, ResponseCompleted, StreamEnds, StreamBreaks, Delta
  <2> QED
    BY <1>1, <1>2, <2>1, <2>2, <2>3 DEF Working, Left
<1>4. CASE Looping
  <2>1. events' = events /\ mode' = mode /\ row' = row /\ told' = told
    BY <1>4 DEF Looping, BeginTools, LeaveTools, RunTool, ToolBreaks, AnswerTools,
                BeginCode, RunCode, Request, store
  <2>2. pc' \in {"tools", "codeLoop", "code", "request", "stream", "raised"}
    BY <1>4, LoopingPlaces
  <2>3. pc' = "code" => BeginCode
    BY <1>4 DEF Looping, BeginTools, LeaveTools, RunTool, ToolBreaks, AnswerTools,
                BeginCode, RunCode, Request
  <2>4. BeginCode => pc = "codeLoop" /\ LastType(output) = "code" /\ output' = output
    BY DEF BeginCode, MoreCode
  <2> QED
    BY <1>1, <2>1, <2>2, <2>3, <2>4 DEF Working, Left
<1>5. CASE Ending
  <2>1. events' = events /\ mode' = mode /\ row' \in {row, output, output'}
        /\ told' \in {told, <<output>>}
    BY <1>5 DEF Ending, Finish, TellDone, BackgroundTasks, SaveStopped,
                TellWhole, SaveWhole, store
  <2>2. pc' \in {"telling", "background", "ended", "raised", "wholeTold"}
    BY <1>5 DEF Ending, Finish, TellDone, BackgroundTasks, SaveStopped,
                TellWhole, SaveWhole
  <2> QED
    BY <1>1, <2>1, <2>2 DEF Working, Whole, Left
<1> QED
  BY <1>3, <1>4, <1>5, AnswerStepCases

\* Every step keeps the types.
LEMMA TypeStep == TypeInv /\ [Next]_vars => TypeInv'
<1> SUFFICES ASSUME TypeInv, [Next]_vars PROVE TypeInv'
  OBVIOUS
<1>1. /\ Listed(output) /\ Listed(local.theirs) /\ Listed(row) /\ local \in LocalType
      /\ (pc = "code" => LastType(output) = "code")
  BY TypeParts DEF TypeInv
<1>2. TypeOK
  BY DEF TypeInv
<1> DEFINE Kept == /\ dialect' = dialect /\ realtime' = realtime /\ interpreter' = interpreter
           ChatKept == /\ dialled' = dialled /\ broken' = broken /\ connected' = connected
                       /\ handed' = handed /\ past' = past /\ turn' = turn
           Rows == Listed(row') /\ told' \in Seq(Seq(Items))
           Answers == Listed(output') /\ local' \in LocalType /\ Named(local'.theirs)
           Counts == /\ events' \in 0..MaxEvents /\ stops' \in 0..MaxStops
                     /\ error' \in BOOLEAN
           Place == pc' \in Places /\ (pc' = "code" => LastType(output') = "code")
           Clients == /\ dialled' \in Seq(Server)
                      /\ broken' \subseteq ToSet(dialled')
                      /\ connected' \subseteq ToSet(dialled') \ broken'
                      /\ handed' \in BOOLEAN
           Turns == past' \in Seq(Messages) /\ turn' \in 1..MaxTurns
<1>3. Kept /\ Rows /\ Answers /\ Counts /\ Place /\ Clients /\ Turns => TypeInv'
  BY <1>2 DEF TypeInv, TypeOK, AnswerTypeOK, LocalType, Listed, Messages
<1>4. /\ Listed(output) /\ row \in Seq(Items) /\ output \in Seq(Items)
      /\ told \in Seq(Seq(Items)) /\ events \in 0..MaxEvents /\ stops \in 0..MaxStops
      /\ error \in BOOLEAN /\ pc \in Places /\ handed \in BOOLEAN
      /\ past \in Seq(Messages) /\ turn \in 1..MaxTurns
  BY <1>1, <1>2 DEF TypeOK, AnswerTypeOK, Listed, Messages
<1>5. /\ dialled \in Seq(Server) /\ broken \subseteq ToSet(dialled)
      /\ connected \subseteq ToSet(dialled) \ broken
  BY <1>2 DEF TypeOK
<1>6. ChatKept => Clients /\ Turns
  BY <1>4, <1>5
<1>7. local' = local /\ output' = output => Answers
  <2>1. Named(local.theirs)
    BY <1>1 DEF Listed
  <2> QED
    BY <1>1, <2>1
<1>8. row' = row /\ told' = told => Rows
  BY <1>1, <1>4
<1>9. <<>> \in Seq(Server) /\ <<>> \in Seq(Items) /\ Named(<<>>) /\ ToSet(<<>>) = {}
      /\ <<>> \in Seq(Seq(Items)) /\ NoLocal \in LocalType /\ NoLocal.theirs = <<>>
  BY RoundsAssumption DEF Named, ToSet, NoLocal, LocalType
<1>10. ASSUME AnswerStep, UNCHANGED <<clients, error, chat, stops>> PROVE TypeInv'
  <2>1. Answers
    BY <1>10, AnswerLists, AnswerLocals
  <2>2. /\ mode' = mode
        /\ row' \in {row, output, output'}
        /\ told' \in {told, <<output>>, <<output'>>}
        /\ events' \in 0..MaxEvents
        /\ pc' \in Working \cup Whole \cup Left \cup {"background"}
        /\ (pc' = "code" => LastType(output') = "code")
    BY <1>10, AnswerRest
  <2>3. Kept
    BY <2>2 DEF mode
  <2>4. Rows
    <3>1. Listed(row')
      BY <1>1, <2>1, <2>2
    <3>2. output' \in Seq(Items)
      BY <2>1 DEF Listed
    <3>3. <<output>> \in Seq(Seq(Items)) /\ <<output'>> \in Seq(Seq(Items))
      BY <1>4, <3>2
    <3> QED
      BY <1>4, <2>2, <3>1, <3>3
  <2>5. Counts
    BY <1>4, <1>10, <2>2
  <2>6. Place
    BY <2>2 DEF Places
  <2>7. Clients /\ Turns
    BY <1>6, <1>10 DEF clients, chat
  <2> QED
    BY <1>3, <2>1, <2>3, <2>4, <2>5, <2>6, <2>7
<1>11. ASSUME NEW s \in Server, Connect(s) PROVE TypeInv'
  <2>1. /\ Kept /\ local' = local /\ output' = output /\ row' = row /\ told' = told
        /\ error' = error /\ past' = past /\ turn' = turn /\ stops' = stops
        /\ pc' = "payload" /\ handed' = handed
    BY <1>11 DEF Connect, mode, store, chat
  <2>2. events' = events + 1 /\ events < MaxEvents
    BY <1>11 DEF Connect
  <2>3. Counts
    BY <1>4, <2>1, <2>2, RoundsAssumption
  <2>4. /\ dialled' = Append(dialled, s) /\ s \notin ToSet(dialled)
        /\ \/ connected' = connected \cup {s} /\ broken' = broken
           \/ connected' = connected /\ broken' = broken \cup {s}
    BY <1>11 DEF Connect
  <2>5. dialled' \in Seq(Server) /\ ToSet(dialled') = ToSet(dialled) \cup {s}
    BY <1>5, <2>4 DEF ToSet
  <2>6. Clients
    BY <1>4, <1>5, <2>1, <2>4, <2>5
  <2>7. Place
    BY <2>1 DEF Places
  <2>8. Turns
    BY <1>4, <2>1
  <2> QED
    BY <1>3, <1>7, <1>8, <2>1, <2>3, <2>6, <2>7, <2>8
<1>12. ASSUME PayloadReady \/ PayloadFails \/ SaveError \/ Leave PROVE TypeInv'
  <2>1. /\ Kept /\ output' = output /\ row' = row /\ told' = told /\ events' = events
        /\ stops' = stops /\ dialled' = dialled /\ broken' = broken
        /\ connected' = connected /\ past' = past /\ turn' = turn
        /\ handed' \in {handed, TRUE} /\ error' \in {error, TRUE}
        /\ pc' \in {"asking", "raised", "cleanup"} /\ local' \in {local, NoLocal}
    BY <1>12 DEF PayloadReady, PayloadFails, SaveError, Leave, mode, store, clients, chat
  <2>2. Answers
    BY <1>1, <1>9, <2>1 DEF Listed
  <2>3. Counts /\ Turns
    BY <1>4, <2>1
  <2>4. Clients
    BY <1>4, <1>5, <2>1
  <2>5. Place
    BY <2>1 DEF Places, Left
  <2> QED
    BY <1>3, <1>8, <2>1, <2>2, <2>3, <2>4, <2>5
<1>13. ASSUME Respond PROVE TypeInv'
  <2>1. /\ Kept /\ row' = row /\ told' = told /\ events' = events /\ stops' = stops /\ ChatKept
        /\ error' \in {error, TRUE}
        /\ pc' \in {"whole", "ended", "stream"} /\ local' \in {local, NoLocal}
        /\ output' \in {output, row, <<Closed(Item("message", 1))>>}
    BY <1>13 DEF Respond, BeginStream, mode, store, clients, chat
  <2>2. Listed(<<Closed(Item("message", 1))>>)
    <3>1. Item("message", 1) \in Items /\ Item("message", 1).type \notin Tool
      BY TextItems
    <3>2. Closed(Item("message", 1)) \in Items /\ Closed(Item("message", 1)).type \notin Tool
      BY <3>1, ClosedType DEF Alike
    <3> QED
      BY <3>2, ListedOne
  <2>3. Listed(output')
    BY <1>1, <2>1, <2>2
  <2>4. Answers
    BY <1>1, <1>9, <2>1, <2>3 DEF Listed
  <2>5. Counts
    BY <1>4, <2>1
  <2>6. Place
    BY <2>1 DEF Places, Working, Whole, Left
  <2> QED
    BY <1>3, <1>6, <1>8, <2>1, <2>4, <2>5, <2>6
<1>14. ASSUME Cleanup PROVE TypeInv'
  <2>1. /\ Kept /\ local' = local /\ output' = output /\ row' = row /\ told' = told
        /\ events' = events /\ stops' = stops /\ error' = error /\ past' = past /\ turn' = turn
        /\ dialled' = dialled /\ broken' = broken /\ handed' = handed
        /\ connected' \subseteq connected /\ pc' = "over"
    BY <1>14 DEF Cleanup, mode, store, chat
  <2>2. Clients /\ Turns
    BY <1>4, <1>5, <2>1
  <2>3. Counts
    BY <1>4, <2>1
  <2>4. Place
    BY <2>1 DEF Places
  <2> QED
    BY <1>3, <1>7, <1>8, <2>1, <2>2, <2>3, <2>4
<1>15. ASSUME Stop PROVE TypeInv'
  <2>1. /\ Kept /\ local' = local /\ output' = output /\ row' = row /\ told' = told
        /\ events' = events /\ error' = error /\ ChatKept
        /\ stops < MaxStops /\ stops' = stops + 1
        /\ pc' \in {"stopping", "cancelled", "torn"}
    BY <1>15 DEF Stop, mode, store, clients, chat
  <2>2. Counts
    BY <1>4, <2>1, TurnsAssumption
  <2>3. Place
    BY <2>1 DEF Places, Left
  <2> QED
    BY <1>3, <1>6, <1>7, <1>8, <2>1, <2>2, <2>3
<1>16. ASSUME NextTurn PROVE TypeInv'
  <2>1. /\ Kept /\ local' = local /\ output' = <<>> /\ told' = <<>>
        /\ events' = events /\ stops' = stops /\ pc' = "payload"
        /\ dialled' = <<>> /\ broken' = {} /\ connected' = {} /\ handed' = FALSE
        /\ row' \in {row, <<>>} /\ error' \in {error, FALSE}
        /\ past' \in {past, past \o TurnMessages(row)}
        /\ turn < MaxTurns /\ turn' = turn + 1
    BY <1>16 DEF NextTurn, mode, store, clients, chat
  <2>2. Answers /\ Rows
    BY <1>1, <1>9, <2>1 DEF Listed
  <2>3. Counts
    BY <1>4, <2>1
  <2>4. Clients
    BY <1>9, <2>1
  <2>5. TurnMessages(row) \in Seq(Messages)
    BY <1>1, ConvertType DEF Listed
  <2>6. past \o TurnMessages(row) \in Seq(Messages)
    BY <1>4, <2>5
  <2>7. turn + 1 \in 1..MaxTurns
    BY <1>4, <2>1, TurnsAssumption
  <2>8. Place
    BY <2>1 DEF Places
  <2> QED
    BY <1>3, <1>4, <2>1, <2>2, <2>3, <2>4, <2>6, <2>7, <2>8
<1>17. ASSUME UNCHANGED vars PROVE TypeInv'
  <2>1. Kept /\ ChatKept /\ pc' = pc /\ local' = local /\ output' = output /\ row' = row
        /\ told' = told /\ events' = events /\ stops' = stops /\ error' = error
    BY <1>17 DEF vars, answerVars, mode, store, clients, chat
  <2>2. Counts /\ Place
    BY <1>1, <1>4, <2>1
  <2> QED
    BY <1>3, <1>6, <1>7, <1>8, <2>1, <2>2
<1> QED
  BY <1>10, <1>11, <1>12, <1>13, <1>14, <1>15, <1>16, <1>17 DEF Next, Step

\* A completion begins with them.
LEMMA InitTypes == Init => TypeInv
<1> SUFFICES ASSUME Init PROVE TypeInv
  OBVIOUS
<1>1. <<>> \in Seq(Server) /\ <<>> \in Seq(Items) /\ Named(<<>>) /\ ToSet(<<>>) = {}
      /\ <<>> \in Seq(Seq(Items)) /\ NoLocal \in LocalType /\ NoLocal.theirs = <<>>
      /\ <<>> \in Seq(Messages)
  BY RoundsAssumption DEF Named, ToSet, NoLocal, LocalType
<1>2. 0 \in 0..MaxEvents /\ 0 \in 0..MaxStops /\ 1 \in 1..MaxTurns
  BY RoundsAssumption, TurnsAssumption
<1>3. /\ dialect \in {"chat", "responses", "whole"}
      /\ realtime \in BOOLEAN /\ interpreter \in BOOLEAN
  BY DEF Init
<1>4. /\ output = <<>> /\ row = <<>> /\ told = <<>> /\ local = NoLocal /\ events = 0
      /\ pc = "payload" /\ dialled = <<>> /\ broken = {} /\ connected = {}
      /\ handed = FALSE /\ error = FALSE /\ past = <<>> /\ turn = 1 /\ stops = 0
  BY DEF Init
<1>5. local \in LocalType /\ events \in 0..MaxEvents
  BY <1>1, <1>2, <1>4
<1>6. AnswerTypeOK
  BY <1>1, <1>3, <1>4, <1>5 DEF AnswerTypeOK, LocalType
<1>7. /\ pc \in Places /\ turn \in 1..MaxTurns /\ stops \in 0..MaxStops
      /\ handed \in BOOLEAN /\ error \in BOOLEAN
  BY <1>2, <1>4 DEF Places
<1>8. /\ dialled \in Seq(Server) /\ past \in Seq(Messages)
      /\ broken \subseteq ToSet(dialled) /\ connected \subseteq ToSet(dialled) \ broken
  BY <1>1, <1>4
<1>9. TypeOK
  BY <1>6, <1>7, <1>8 DEF TypeOK, Messages
<1> QED
  BY <1>1, <1>4, <1>9 DEF TypeInv

(* Every variable of a completion stays in its type: of however many       *)
(* rounds, the items, the local variables and the messages made of them.   *)
THEOREM CompletionTypes == Spec => []TypeOK
<1>1. Init => TypeInv
  BY InitTypes
<1>2. TypeInv => TypeOK
  BY DEF TypeInv
<1> QED
  BY <1>1, <1>2, TypeStep, PTL DEF Spec

-----------------------------------------------------------------------------
(* The requests of a chat that nobody stopped.                             *)

\* The answer has calls at its end that wait for their results.
Asked(items, calls) ==
  \E n \in 0..Len(items) :
    items = SubSeq(items, 1, n) \o CallItems("call", calls) /\ Answered(SubSeq(items, 1, n))

(* The inductive invariant.                                                *)
PairInv ==
  dialect = "chat" /\ stops = 0 =>
    /\ pc \notin {"stopping", "cancelled", "torn"} \cup Whole
    /\ Paired(past)
    /\ Answered(row)
    /\ pc \in Working \ {"tools"} => Answered(output)
    /\ pc = "tools" => Asked(output, local.calls)

\* A round that begins, behind an answer without open calls.
LEMMA AskedAtEnd ==
  ASSUME NEW x, NEW calls \in Seq(Call), Listed(x), Answered(x)
  PROVE  Asked(x \o CallItems("call", calls), calls)
<1>1. PICK c : c = CallItems("call", calls)
  OBVIOUS
<1>2. c \in Seq(Items) /\ x \in Seq(Items)
  BY <1>1, CallItemsType DEF Tool, Listed
<1>3. PICK y : y = x \o c
  OBVIOUS
<1>4. SubSeq(y, 1, Len(x)) = x
  BY <1>2, <1>3
<1>5. Len(x) \in 0..Len(y)
  BY <1>2, <1>3
<1> QED
  BY <1>1, <1>3, <1>4, <1>5 DEF Asked

\* An item closed is the same item.
LEMMA MarkedAlike ==
  ASSUME NEW x \in Seq(Items), NEW ids
  PROVE  /\ \A i \in 1..Len(x) : Alike(x[i], MarkCalls(x, ids)[i])
         /\ \A i \in 1..Len(x) : Alike(x[i], CloseAll(x)[i])
<1>1. DOMAIN x = 1..Len(x)
  OBVIOUS
<1>2. \A i \in 1..Len(x) : /\ MarkCalls(x, ids)[i] \in {x[i], Closed(x[i])}
                           /\ CloseAll(x)[i] = Closed(x[i])
  BY <1>1 DEF MarkCalls, CloseAll
<1>3. \A i \in 1..Len(x) : Alike(x[i], Closed(x[i])) /\ Alike(x[i], x[i])
  BY <1>1, ClosedType DEF Alike
<1> QED
  BY <1>2, <1>3

\* The results of a round answer the calls that waited for them.
LEMMA AskedIsAnswered ==
  ASSUME NEW x, Listed(x), NEW calls \in Seq(Call), Asked(x, calls), NEW S
  PROVE  Answered(MarkCalls(x, S) \o CloseAll(CallItems("result", calls))
                    \o <<Item("message", 0)>>)
<1>1. PICK m \in 0..Len(x) :
        x = SubSeq(x, 1, m) \o CallItems("call", calls) /\ Answered(SubSeq(x, 1, m))
  BY DEF Asked
<1>2. PICK base, cs, rs, z, a, b :
        /\ base = SubSeq(x, 1, m) /\ cs = CallItems("call", calls)
        /\ rs = CallItems("result", calls) /\ z = Item("message", 0)
        /\ a = MarkCalls(x, S) /\ b = CloseAll(rs)
  OBVIOUS
<1>3. x \in Seq(Items) /\ z \in Items /\ z.type \notin Tool
  BY <1>2, TextItems DEF Listed
<1>4. PICK n \in Nat : n = Len(calls)
  OBVIOUS
<1>5. /\ cs \in Seq(Items) /\ Len(cs) = n
      /\ \A i \in 1..n : cs[i].type = "call" /\ cs[i].id = calls[i]
  BY <1>2, <1>4, CallItemsType DEF Tool
<1>6. /\ rs \in Seq(Items) /\ Len(rs) = n
      /\ \A i \in 1..n : rs[i].type = "result" /\ rs[i].id = calls[i]
  BY <1>2, <1>4, CallItemsType DEF Tool
<1>7. /\ base \in Seq(Items) /\ Len(base) = m /\ m \in Nat
      /\ \A i \in 1..m : base[i] = x[i]
  BY <1>2, <1>3
<1>8. /\ Len(x) = m + n
      /\ \A i \in 1..n : x[m + i] = cs[i]
  <2>1. x = base \o cs
    BY <1>1, <1>2
  <2>2. Len(x) = Len(base) + Len(cs) /\ \A i \in 1..Len(cs) : x[Len(base) + i] = cs[i]
    <3>1. base \in Seq(Items) /\ cs \in Seq(Items)
      BY <1>5, <1>7
    <3> QED
      BY <2>1, <3>1
  <2> QED
    BY <1>5, <1>7, <2>2
<1>9. a \in Seq(Items) /\ Len(a) = m + n /\ \A i \in 1..(m + n) : Alike(x[i], a[i])
  BY <1>2, <1>3, <1>8, MarkCallsEdits, MarkedAlike
<1>10. b \in Seq(Items) /\ Len(b) = n /\ \A i \in 1..n : Alike(rs[i], b[i])
  BY <1>2, <1>6, CloseAllEdits, MarkedAlike
<1>11. PICK y : y = a \o b \o <<z>>
  OBVIOUS
<1>12. /\ y \in Seq(Items) /\ Len(y) = ((m + n) + n) + 1
       /\ \A i \in 1..(m + n) : y[i] = a[i]
       /\ \A i \in 1..n : y[(m + n) + i] = b[i]
       /\ y[Len(y)] = z
  <2>1. PICK d : d = a \o b
    OBVIOUS
  <2>2. /\ d \in Seq(Items) /\ Len(d) = (m + n) + n
        /\ \A i \in 1..(m + n) : d[i] = a[i]
        /\ \A i \in 1..n : d[(m + n) + i] = b[i]
    <3>1. /\ d \in Seq(Items) /\ Len(d) = Len(a) + Len(b)
          /\ \A i \in 1..Len(a) : d[i] = a[i]
          /\ \A i \in 1..Len(b) : d[Len(a) + i] = b[i]
      <4>1. a \in Seq(Items) /\ b \in Seq(Items)
        BY <1>9, <1>10
      <4> QED
        BY <2>1, <4>1
    <3> QED
      BY <1>9, <1>10, <3>1
  <2>3. /\ y \in Seq(Items) /\ Len(y) = Len(d) + 1
        /\ \A i \in 1..Len(d) : y[i] = d[i]
        /\ y[Len(y)] = z
    BY <1>3, <1>11, <2>1, <2>2
  <2>4. \A i \in 1..(m + n) : i \in 1..Len(d)
    BY <2>2, <1>4, <1>7
  <2>5. \A i \in 1..n : (m + n) + i \in 1..Len(d)
    BY <2>2, <1>4, <1>7
  <2> QED
    BY <2>2, <2>3, <2>4, <2>5
<1>13. \A i \in 1..m : Alike(base[i], y[i])
  <2>1. \A i \in 1..m : i \in 1..(m + n)
    BY <1>4, <1>7
  <2> QED
    BY <1>7, <1>9, <1>12, <2>1
<1>14. \A i \in 1..n : y[m + i].type = "call" /\ y[m + i].id = calls[i]
  <2>1. \A i \in 1..n : m + i \in 1..(m + n)
    BY <1>4, <1>7
  <2> TAKE i \in 1..n
  <2>2. PICK k \in 1..(m + n) : k = m + i
    BY <2>1
  <2>3. Alike(x[k], y[k])
    BY <1>9, <1>12
  <2>4. x[k] = cs[i]
    BY <1>8, <2>2
  <2>5. y[k].type = "call" /\ y[k].id = calls[i]
    BY <1>5, <2>3, <2>4 DEF Alike
  <2> QED
    BY <2>2, <2>5
<1>15. \A i \in 1..n : y[(m + n) + i].type = "result" /\ y[(m + n) + i].id = calls[i]
  <2> TAKE i \in 1..n
  <2>1. y[(m + n) + i] = b[i]
    BY <1>12
  <2>2. Alike(rs[i], b[i]) /\ rs[i].type = "result" /\ rs[i].id = calls[i]
    BY <1>6, <1>10
  <2> QED
    BY <2>1, <2>2 DEF Alike
<1>16. Named(base)
  <2>1. \A i \in 1..m : i \in 1..Len(x)
    BY <1>4, <1>7, <1>8
  <2> QED
    BY <1>7, <2>1 DEF Listed, Named
<1>17. Len(y) = Len(base) + 2 * Len(calls) + 1
  BY <1>4, <1>7, <1>12
<1>18. \A i \in 1..Len(calls) :
           /\ y[Len(base) + i].type = "call" /\ y[Len(base) + i].id = calls[i]
           /\ y[Len(base) + Len(calls) + i].type = "result"
           /\ y[Len(base) + Len(calls) + i].id = calls[i]
  BY <1>4, <1>7, <1>14, <1>15
<1>19. y[Len(y)].type \notin Tool
  BY <1>3, <1>12
<1>20. Answered(base)
  BY <1>1, <1>2
<1>21. Answered(y)
  BY <1>7, <1>12, <1>13, <1>16, <1>17, <1>18, <1>19, <1>20, AnsweredRound
<1> QED
  BY <1>2, <1>11, <1>21

\* What a step of the answer does to what the invariant reads.
LEMMA PairAnswer ==
  ASSUME TypeInv, PairInv, AnswerStep, dialect = "chat", stops = 0
  PROVE  /\ pc' \notin {"stopping", "cancelled", "torn"} \cup Whole
         /\ Answered(row')
         /\ pc' \in Working \ {"tools"} => Answered(output')
         /\ pc' = "tools" => Asked(output', local'.calls)
<1>1. /\ pc \notin {"stopping", "cancelled", "torn"} \cup Whole
      /\ Answered(row)
      /\ pc \in Working \ {"tools"} => Answered(output)
      /\ pc = "tools" => Asked(output, local.calls)
  BY DEF PairInv
<1>2. Listed(output) /\ Listed(row) /\ local \in LocalType /\ output \in Seq(Items)
  BY TypeParts DEF Listed
<1>3. CASE TextSteps
  <2>1. pc \in Working \ {"tools"}
    BY <1>3 DEF TextSteps, TextDelta, ReasoningDelta, StreamEnds, RunCode, Finish, Delta, Working
  <2>2. TextEdit(output, output')
    BY <1>3, TextStepsEdit
  <2>3. Answered(output')
    BY <1>1, <1>2, <2>1, <2>2, AnsweredEdit DEF Listed
  <2>4. row' \in {row, output'}
    BY <1>3 DEF TextSteps, TextDelta, ReasoningDelta, StreamEnds, RunCode, Finish, store
  <2>5. pc' \in {"stream", "flush", "toolLoop", "codeLoop", "request", "telling"}
    BY <1>3 DEF TextSteps, TextDelta, ReasoningDelta, StreamEnds, RunCode, Finish, Delta
  <2> QED
    BY <1>1, <2>3, <2>4, <2>5 DEF Working, Whole
<1>4. CASE IdleSteps
  <2>1. output' = output
    BY <1>4, IdleOutput
  <2>2. row' = row
    BY <1>1, <1>4 DEF IdleSteps, CallDelta, StreamBreaks, LeaveTools, RunTool, ToolBreaks,
         BeginCode, Request, TellDone, BackgroundTasks, SaveStopped, TellWhole, SaveWhole,
         Whole, store
  <2>3. \/ pc \in Working \ {"tools"} /\ pc' \in (Working \ {"tools"}) \cup {"background", "raised"}
        \/ pc = "tools" /\ pc' = "tools" /\ local'.calls = local.calls
        \/ pc' \in {"ended", "raised"}
    <3>1. CASE \/ (\E c \in Call : CallDelta(c)) \/ StreamBreaks \/ LeaveTools
               \/ BeginCode \/ Request \/ TellDone
      BY <3>1 DEF CallDelta, StreamBreaks, LeaveTools, BeginCode, Request, TellDone, Delta,
                  Working
    <3>2. CASE RunTool
      BY <1>2, <3>2 DEF RunTool, LocalType
    <3>3. CASE \/ ToolBreaks \/ BackgroundTasks \/ SaveStopped
      BY <3>3 DEF ToolBreaks, BackgroundTasks, SaveStopped
    <3>4. CASE TellWhole \/ SaveWhole
      BY <1>1, <3>4 DEF TellWhole, SaveWhole, Whole
    <3> QED
      BY <1>4, <3>1, <3>2, <3>3, <3>4 DEF IdleSteps
  <2> QED
    BY <1>1, <2>1, <2>2, <2>3 DEF Working, Whole
<1>5. CASE EventSteps
  BY <1>5, EventDialect
<1>6. CASE BeginTools
  <2>1. /\ pc = "toolLoop" /\ pc' = "tools" /\ row' = row
        /\ local.queue # <<>>
        /\ output' = output \o CallItems("call", Head(local.queue))
    BY <1>6 DEF BeginTools, MoreTools, store
  <2>2. local.queue \in Seq(Seq(Call))
    BY <1>2 DEF LocalType
  <2>3. PICK cs \in Seq(Call) : cs = Head(local.queue)
    BY <2>1, <2>2
  <2>4. local'.calls = cs
    BY <1>2, <1>6, <2>3 DEF BeginTools, LocalType
  <2>5. Answered(output)
    BY <1>1, <2>1 DEF Working
  <2>6. Asked(output', cs)
    BY <1>2, <2>1, <2>3, <2>5, AskedAtEnd
  <2> QED
    BY <1>1, <2>1, <2>4, <2>6 DEF Whole
<1>7. CASE AnswerTools
  <2>1. /\ pc = "tools" /\ pc' = "request" /\ row' = row
        /\ output' = MarkCalls(output, ToSet(local.calls))
                       \o CloseAll(CallItems("result", local.calls)) \o <<Item("message", 0)>>
    BY <1>7 DEF AnswerTools, store
  <2>2. local.calls \in Seq(Call)
    BY <1>2 DEF LocalType
  <2>3. Asked(output, local.calls)
    BY <1>1, <2>1
  <2>4. Answered(output')
    BY <1>2, <2>1, <2>2, <2>3, AskedIsAnswered
  <2> QED
    BY <1>1, <2>1, <2>4 DEF Whole
<1> QED
  BY <1>3, <1>4, <1>5, <1>6, <1>7, AnswerStepKinds

\* An answer that is still empty.
LEMMA NothingAnswered == Listed(<<>>) /\ Answered(<<>>) /\ Paired(<<>>) /\ <<>> \in Seq(Messages)
<1>1. Listed(<<>>) /\ <<>> \in Seq(Messages) /\ <<>> \in Seq(Items)
  BY DEF Listed, Named
<1>2. Collected(<<>>)[0] = [done |-> <<>>, ids |-> <<>>, text |-> FALSE]
  <2>1. Len(<<>>) = 0 /\ 0 \in 0..Len(<<>>)
    OBVIOUS
  <2>2. \A n \in 0..Len(<<>>) :
           Collected(<<>>)[n] = IF n = 0 THEN Nothing
                                 ELSE Converted(Collected(<<>>)[n - 1], (<<>>)[n])
    BY <1>1, CollectedDef, Zenon
  <2>3. Collected(<<>>)[0] = Nothing
    BY <2>1, <2>2, Zenon
  <2> QED
    BY <2>3 DEF Nothing
<1>3. Paired(<<>>)
  BY DEF Paired
<1>4. Len(<<>>) = 0
  OBVIOUS
<1> QED
  BY <1>1, <1>2, <1>3, <1>4 DEF Answered

\* No step breaks the pairs.
LEMMA PairStep == TypeInv /\ PairInv /\ [Next]_vars => PairInv'
<1> SUFFICES ASSUME TypeInv, PairInv, [Next]_vars, dialect' = "chat", stops' = 0
             PROVE  /\ pc' \notin {"stopping", "cancelled", "torn"} \cup Whole
                    /\ Paired(past')
                    /\ Answered(row')
                    /\ pc' \in Working \ {"tools"} => Answered(output')
                    /\ pc' = "tools" => Asked(output', local'.calls)
  BY DEF PairInv
<1> DEFINE Goal == /\ pc' \notin {"stopping", "cancelled", "torn"} \cup Whole
                   /\ Paired(past')
                   /\ Answered(row')
                   /\ pc' \in Working \ {"tools"} => Answered(output')
                   /\ pc' = "tools" => Asked(output', local'.calls)
<1>1. stops \in Nat /\ past \in Seq(Messages) /\ Listed(row)
  BY TypeParts, TurnsAssumption DEF TypeInv, TypeOK, Messages
<1>2. dialect = "chat" /\ stops = 0 =>
        /\ pc \notin {"stopping", "cancelled", "torn"} \cup Whole
        /\ Paired(past) /\ Answered(row)
        /\ pc \in Working \ {"tools"} => Answered(output)
        /\ pc = "tools" => Asked(output, local.calls)
  BY DEF PairInv
<1>3. CASE AnswerStep /\ UNCHANGED <<clients, error, chat, stops>>
  <2>1. dialect = "chat" /\ stops = 0 /\ past' = past
    BY <1>3, AnswerRest DEF mode, chat
  <2> QED
    BY <1>2, <1>3, <2>1, PairAnswer
<1>4. CASE \/ (\E s \in Server : Connect(s)) \/ PayloadReady \/ PayloadFails
           \/ SaveError \/ Leave \/ Cleanup
  <2>1. /\ dialect = "chat" /\ stops = 0 /\ past' = past /\ row' = row
        /\ pc' \in {"payload", "asking", "raised", "cleanup", "over"}
    BY <1>4 DEF Connect, PayloadReady, PayloadFails, SaveError, Leave, Cleanup, mode, store, chat
  <2> QED
    BY <1>2, <2>1 DEF Working, Whole
<1>5. CASE Respond
  <2>1. dialect = "chat" /\ stops = 0 /\ past' = past /\ row' = row
    BY <1>5 DEF Respond, mode, store, chat
  <2>2. pc' = "stream" /\ output' = row
    BY <1>5, <2>1 DEF Respond, BeginStream
  <2> QED
    BY <1>2, <2>1, <2>2 DEF Working, Whole
<1>6. CASE Stop
  <2>1. stops' = stops + 1
    BY <1>6 DEF Stop
  <2> QED
    BY <1>1, <2>1
<1>7. CASE NextTurn
  <2>1. /\ dialect = "chat" /\ stops = 0 /\ pc' = "payload"
        /\ \/ past' = past \o TurnMessages(row) /\ row' = <<>>
           \/ past' = past /\ row' = row
    BY <1>7 DEF NextTurn, mode
  <2>2. Paired(past \o TurnMessages(row))
    <3>1. TurnMessages(row) \in Seq(Messages) /\ Paired(TurnMessages(row))
      BY <1>1, <1>2, <2>1, ConvertType, ConvertPaired DEF Listed
    <3> QED
      BY <1>1, <1>2, <2>1, <3>1, PairedConcat
  <2> QED
    BY <1>2, <2>1, <2>2, NothingAnswered DEF Working, Whole
<1>8. CASE UNCHANGED vars
  <2>1. /\ dialect = "chat" /\ stops = 0 /\ past' = past /\ row' = row /\ pc' = pc
        /\ output' = output /\ local' = local
    BY <1>8 DEF vars, answerVars, mode, store, chat
  <2> QED
    BY <1>2, <2>1
<1> QED
  BY <1>3, <1>4, <1>5, <1>6, <1>7, <1>8 DEF Next, Step

(* As long as nobody stops an answer, every request of a chat has all of   *)
(* its calls followed by their results: for any calls, any number of tool  *)
(* and code rounds, failed requests, later turns and continued answers.    *)
THEOREM RequestsPaired == Spec => []UnstoppedRequestsArePaired
<1>1. Init => TypeInv /\ PairInv
  <2>1. Init => TypeInv
    BY InitTypes
  <2>2. Init => pc = "payload" /\ past = <<>> /\ row = <<>>
    BY DEF Init
  <2> QED
    BY <2>1, <2>2, NothingAnswered DEF PairInv, Working, Whole
<1>2. TypeInv /\ PairInv => UnstoppedRequestsArePaired
  <2> SUFFICES ASSUME TypeInv, PairInv, pc \in {"asking", "request"}, dialect = "chat", stops = 0
               PROVE  Paired(RequestMessages)
    BY DEF UnstoppedRequestsArePaired
  <2>1. Paired(past) /\ (pc = "request" => Answered(output))
    BY DEF PairInv, Working
  <2>2. past \in Seq(Messages) /\ Listed(output)
    BY TypeParts DEF TypeInv, TypeOK, Messages
  <2>3. PICK q : q = Append(past, Message("user", <<>>))
    OBVIOUS
  <2>4. q \in Seq(Messages) /\ Paired(q)
    BY <2>1, <2>2, <2>3, PairedPlain
  <2>5. CASE pc = "request"
    <3>1. ConvertOutput(output) \in Seq(Messages) /\ Paired(ConvertOutput(output))
      BY <2>1, <2>2, <2>5, ConvertType, ConvertPaired DEF Listed
    <3> QED
      BY <2>3, <2>4, <2>5, <3>1, PairedConcat DEF RequestMessages
  <2>6. CASE pc # "request"
    <3>1. RequestMessages = q \o <<>> /\ q \o <<>> = q
      BY <2>3, <2>4, <2>6 DEF RequestMessages
    <3> QED
      BY <2>4, <3>1
  <2> QED
    BY <2>5, <2>6
<1>3. TypeInv /\ PairInv /\ [Next]_vars => (TypeInv /\ PairInv)'
  BY TypeStep, PairStep
<1> QED
  BY <1>1, <1>2, <1>3, PTL DEF Spec

-----------------------------------------------------------------------------
(* What is stored of an answer stays.                                      *)

\* KeepsTools is a preorder, and holds of edits and of what is added behind.
LEMMA KindParts ==
  ASSUME NEW a, NEW b
  PROVE  Kind(a) = Kind(b) <=> a.type = b.type /\ a.id = b.id
  BY DEF Kind

LEMMA KeepsSame == \A x : KeepsTools(x, x)
  BY DEF KeepsTools

LEMMA KeepsTrans ==
  ASSUME NEW x \in Seq(Items), NEW y \in Seq(Items), NEW z,
         KeepsTools(x, y), KeepsTools(y, z)
  PROVE  KeepsTools(x, z)
<1>1. ASSUME NEW i \in DOMAIN x, x[i].type \in Tool
      PROVE  i \in DOMAIN z /\ \A j \in 1..i : Kind(z[j]) = Kind(x[j])
  <2>1. i \in DOMAIN y /\ \A j \in 1..i : Kind(y[j]) = Kind(x[j])
    BY <1>1 DEF KeepsTools, Tool
  <2>2. i \in 1..i
    OBVIOUS
  <2>3. y[i].type \in Tool
    BY <1>1, <2>1, <2>2, KindParts
  <2>4. i \in DOMAIN z /\ \A j \in 1..i : Kind(z[j]) = Kind(y[j])
    BY <2>1, <2>3 DEF KeepsTools, Tool
  <2> QED
    BY <2>1, <2>4
<1> QED
  BY <1>1 DEF KeepsTools, Tool

\* Items of the same kind at the same places, whatever follows.
LEMMA KeepsAlike ==
  ASSUME NEW x \in Seq(Items), NEW y \in Seq(Items), NEW n \in Nat,
         n <= Len(x), n <= Len(y), \A i \in 1..n : Alike(x[i], y[i]),
         \A i \in (n + 1)..Len(x) : x[i].type \notin Tool
  PROVE  KeepsTools(x, y)
<1>1. ASSUME NEW i \in DOMAIN x, x[i].type \in Tool
      PROVE  i \in DOMAIN y /\ \A j \in 1..i : Kind(y[j]) = Kind(x[j])
  <2>1. i \in 1..Len(x) /\ DOMAIN y = 1..Len(y)
    OBVIOUS
  <2>2. i <= n
    BY <1>1, <2>1
  <2>3. \A j \in 1..i : j \in 1..n
    BY <2>1, <2>2
  <2> QED
    BY <2>1, <2>2, <2>3, KindParts DEF Alike
<1> QED
  BY <1>1 DEF KeepsTools, Tool

LEMMA KeepsEdit ==
  ASSUME NEW x \in Seq(Items), NEW y, TextEdit(x, y)
  PROVE  KeepsTools(x, y)
<1>1. PICK n \in Nat : /\ n <= Len(x) /\ n <= Len(y)
                       /\ \A i \in 1..n : Alike(x[i], y[i])
                       /\ \A i \in (n + 1)..Len(x) : x[i].type \notin Tool
  BY DEF TextEdit
<1> QED
  BY <1>1, TextEditType, KeepsAlike

LEMMA KeepsConcat ==
  ASSUME NEW x \in Seq(Items), NEW y \in Seq(Items)
  PROVE  KeepsTools(x, x \o y)
<1>1. PICK z : z = x \o y
  OBVIOUS
<1>2. z \in Seq(Items) /\ Len(z) >= Len(x) /\ Len(x) \in Nat /\ Len(z) \in Nat
      /\ \A i \in 1..Len(x) : z[i] = x[i]
  BY <1>1
<1>3. \A i \in 1..Len(x) : Alike(x[i], z[i])
  BY <1>2 DEF Alike
<1>4. \A i \in (Len(x) + 1)..Len(x) : x[i].type \notin Tool
  BY <1>2
<1>5. KeepsTools(x, z)
  BY <1>2, <1>3, <1>4, KeepsAlike
<1> QED
  BY <1>1, <1>5

(* What the answer has come to keeps what is stored of it.                 *)
KeepInv ==
  dialect = "chat" =>
    /\ pc \notin Whole
    /\ pc \in Working \cup {"background", "stopping"} => KeepsTools(row, output)

\* The answer keeps its calls and results at every step.
LEMMA AnswerKeeps ==
  ASSUME TypeInv, AnswerStep, dialect = "chat"
  PROVE  KeepsTools(output, output')
<1>1. Listed(output) /\ local \in LocalType /\ output \in Seq(Items)
  BY TypeParts DEF Listed
<1>2. CASE TextSteps
  BY <1>1, <1>2, TextStepsEdit, KeepsEdit
<1>3. CASE IdleSteps
  BY <1>3, IdleOutput, KeepsSame
<1>4. CASE EventSteps
  BY <1>4, EventDialect
<1>5. CASE BeginTools
  <2>1. local.queue # <<>> /\ local.queue \in Seq(Seq(Call))
        /\ output' = output \o CallItems("call", Head(local.queue))
    BY <1>1, <1>5 DEF BeginTools, MoreTools, LocalType
  <2>2. Head(local.queue) \in Seq(Call)
    BY <2>1
  <2>3. CallItems("call", Head(local.queue)) \in Seq(Items)
    BY <2>2, CallItemsType DEF Tool
  <2> QED
    BY <1>1, <2>1, <2>3, KeepsConcat
<1>6. CASE AnswerTools
  <2>1. PICK a, b, c : /\ a = MarkCalls(output, ToSet(local.calls))
                       /\ b = CloseAll(CallItems("result", local.calls))
                       /\ c = <<Item("message", 0)>>
    OBVIOUS
  <2>2. output' = (a \o b) \o c
    BY <1>6, <2>1 DEF AnswerTools
  <2>3. a \in Seq(Items) /\ KeepsTools(output, a)
    BY <1>1, <2>1, MarkCallsEdits, KeepsEdit
  <2>4. b \in Seq(Items)
    <3>1. local.calls \in Seq(Call)
      BY <1>1 DEF LocalType
    <3> QED
      BY <2>1, <3>1, CallItemsType, CloseAllEdits DEF Tool
  <2>5. c \in Seq(Items)
    <3>1. Item("message", 0) \in Items
      BY TextItems
    <3> QED
      BY <2>1, <3>1
  <2>6. KeepsTools(output, a \o b) /\ a \o b \in Seq(Items)
    BY <1>1, <2>3, <2>4, KeepsConcat, KeepsTrans
  <2>7. KeepsTools(a \o b, output')
    BY <2>2, <2>5, <2>6, KeepsConcat
  <2> QED
    BY <1>1, <2>6, <2>7, KeepsTrans
<1> QED
  BY <1>2, <1>3, <1>4, <1>5, <1>6, AnswerStepKinds

\* Where the answer is made.
LEMMA AnswerPlaces ==
  ASSUME AnswerStep
  PROVE  /\ pc \in Working \cup Whole \cup {"background", "stopping"}
         /\ pc' \in Whole => pc \in Whole
<1>1. CASE TextSteps
  BY <1>1 DEF TextSteps, TextDelta, ReasoningDelta, StreamEnds, RunCode, Finish, Delta,
              Working, Whole
<1>2. CASE IdleSteps
  BY <1>2 DEF IdleSteps, CallDelta, StreamBreaks, LeaveTools, RunTool, ToolBreaks,
         BeginCode, Request, TellDone, BackgroundTasks, SaveStopped, TellWhole, SaveWhole,
         Delta, Working, Whole
<1>3. CASE EventSteps
  BY <1>3 DEF EventSteps, ItemAdded, ItemDelta, ItemDone, ResponseCompleted, Delta,
              Working, Whole
<1>4. CASE BeginTools \/ AnswerTools
  BY <1>4 DEF BeginTools, AnswerTools, Working, Whole
<1> QED
  BY <1>1, <1>2, <1>3, <1>4, AnswerStepKinds

\* No step breaks this, and none takes a stored result away.
LEMMA KeepStep ==
  TypeInv /\ KeepInv /\ [Next]_vars
    => KeepInv' /\ (dialect = "chat" /\ past' = past => KeepsTools(row, row'))
<1> SUFFICES ASSUME TypeInv, KeepInv, [Next]_vars
             PROVE  KeepInv' /\ (dialect = "chat" /\ past' = past => KeepsTools(row, row'))
  OBVIOUS
<1>1. /\ Listed(output) /\ Listed(row) /\ row \in Seq(Items) /\ output \in Seq(Items)
      /\ past \in Seq(Messages)
  BY TypeParts DEF TypeInv, TypeOK, Messages, Listed
<1>2. dialect' = dialect
  BY AnswerRest DEF Next, Step, Connect, PayloadReady, PayloadFails, Respond, SaveError,
     Leave, Cleanup, Stop, NextTurn, vars, answerVars, mode
<1>3. CASE AnswerStep /\ dialect = "chat"
  <2>1. pc \notin Whole /\ KeepsTools(row, output)
    BY <1>3, AnswerPlaces DEF KeepInv
  <2>2. KeepsTools(output, output') /\ output' \in Seq(Items)
    BY <1>3, AnswerKeeps, AnswerLists DEF Listed
  <2>3. KeepsTools(row, output')
    BY <1>1, <2>1, <2>2, KeepsTrans
  <2>4. row' \in {row, output, output'}
    BY <1>3, AnswerRest
  <2>5. KeepsTools(row, row') /\ KeepsTools(row', output')
    BY <2>1, <2>2, <2>3, <2>4, KeepsSame
  <2>6. pc' \notin Whole
    BY <1>3, <2>1, AnswerPlaces
  <2> QED
    BY <2>5, <2>6 DEF KeepInv
<1>4. CASE \/ (\E s \in Server : Connect(s)) \/ PayloadReady \/ PayloadFails
           \/ SaveError \/ Leave \/ Cleanup
  <2>1. row' = row /\ pc' \in {"payload", "asking", "raised", "cleanup", "over"}
    BY <1>4 DEF Connect, PayloadReady, PayloadFails, SaveError, Leave, Cleanup, store
  <2> QED
    BY <2>1, KeepsSame DEF KeepInv, Working, Whole
<1>5. CASE Respond
  <2>1. row' = row /\ (dialect = "chat" => pc' = "stream" /\ output' = row)
    BY <1>5 DEF Respond, BeginStream, store
  <2> QED
    BY <1>2, <2>1, KeepsSame DEF KeepInv, Whole
<1>6. CASE Stop
  <2>1. row' = row /\ output' = output
        /\ \/ pc \in Working \cup {"background"} /\ pc' = "stopping"
           \/ pc' \in {"cancelled", "torn"}
    BY <1>6 DEF Stop, store
  <2> QED
    BY <1>2, <2>1, KeepsSame DEF KeepInv, Working, Whole
<1>7. CASE NextTurn
  <2>1. /\ pc' = "payload"
        /\ \/ past' = past \o TurnMessages(row)
           \/ past' = past /\ row' = row
    BY <1>7 DEF NextTurn
  <2>2. past \o TurnMessages(row) # past
    <3>1. PICK c : c = IF ConvertOutput(row) = <<>> THEN <<Message("assistant", <<>>)>>
                       ELSE ConvertOutput(row)
      OBVIOUS
    <3>2. PICK t, u : t = TurnMessages(row) /\ u = Message("user", <<>>)
      OBVIOUS
    <3>3. t = <<u>> \o c /\ t \in Seq(Messages)
      BY <1>1, <3>1, <3>2, ConvertType DEF TurnMessages, Listed
    <3>4. c \in Seq(Messages) /\ u \in Messages
      <4>1. <<>> \in Seq(Call)
        OBVIOUS
      <4>2. \A role \in {"user", "assistant"} : Message(role, <<>>) \in Messages
        BY <4>1, MessageType
      <4> QED
        BY <1>1, <3>1, <3>2, <4>2, ConvertType DEF Listed
    <3>5. Len(t) >= 1 /\ Len(t) \in Nat
      BY <3>3, <3>4
    <3>6. Len(past \o t) = Len(past) + Len(t) /\ Len(past) \in Nat
      BY <1>1, <3>3
    <3>7. past \o t # past
      BY <3>5, <3>6
    <3> QED
      BY <3>2, <3>7
  <2>3. past' = past => row' = row
    BY <2>1, <2>2
  <2> QED
    BY <2>1, <2>3, KeepsSame DEF KeepInv, Working, Whole
<1>8. CASE UNCHANGED vars
  <2>1. row' = row /\ pc' = pc /\ output' = output
    BY <1>8 DEF vars, answerVars, store
  <2> QED
    BY <1>2, <2>1, KeepsSame DEF KeepInv
<1>9. CASE dialect # "chat"
  BY <1>2, <1>9 DEF KeepInv
<1> QED
  BY <1>3, <1>4, <1>5, <1>6, <1>7, <1>8, <1>9 DEF Next, Step

(* The calls and results stored with an answer of a chat stay where they   *)
(* are, after the same items, through every text, tag, tool and code       *)
(* round, real-time save, stop and continuation, whatever their number.    *)
THEOREM StoredToolsStay == Spec => StoredResultsAreKept
<1>1. Init => TypeInv /\ KeepInv
  <2>1. Init => TypeInv
    BY InitTypes
  <2>2. Init => pc = "payload"
    BY DEF Init
  <2> QED
    BY <2>1, <2>2 DEF KeepInv, Working, Whole
<1>2. TypeInv /\ KeepInv /\ [Next]_vars
        => [dialect = "chat" /\ past' = past => KeepsTools(row, row')]_vars
  BY KeepStep
<1>3. TypeInv /\ KeepInv /\ [Next]_vars => (TypeInv /\ KeepInv)'
  BY TypeStep, KeepStep
<1> QED
  BY <1>1, <1>2, <1>3, PTL DEF Spec, StoredResultsAreKept
=============================================================================
