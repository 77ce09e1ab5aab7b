------------------------------- MODULE ChatStream -------------------------------
(***************************************************************************)
(* A provider that speaks Chat Completions answers Codex, which speaks     *)
(* Responses: the local proxy reads the provider's chunks, keeps what it   *)
(* has seen of each item (ChatSseState), and writes the events of a        *)
(* Responses stream.  Reasoning comes in a field of its own or as a        *)
(* <think> block at the head of the text, cut anywhere; tool calls come in *)
(* pieces, several at a time; the provider may fail or the connection      *)
(* break at any point.                                                     *)
(*                                                                         *)
(* Text is a sequence of the two halves of each tag and of words, a word   *)
(* being named for the chunk that brought it.  White space, usage, ids of  *)
(* the response and the finish reason are left out.                        *)
(*                                                                         *)
(* The proxy does not hold a provider to the protocol: it converts what    *)
(* comes.  What the converter does relies on four things a provider is     *)
(* trusted with, and Departures names those it does not keep:              *)
(*   "reasoning"  it does not go back to reasoning that is over (text or a *)
(*                call came after it, or a whole think block)              *)
(*   "calls"      a call whose item is open keeps its id and its kind      *)
(*   "chunks"     no chunk and no error follows [DONE] or an error         *)
(*   "breaks"     a connection that ended its answer closes, not breaks    *)
(***************************************************************************)
EXTENDS Naturals, FiniteSets, ChatHistory, TLC

CONSTANTS
  Indexes,       \* positions of tool calls in the provider's answer
  Null,
  MaxChunks,     \* bound on the chunks of an answer
  MaxText,       \* ... on its text, and on its reasoning
  Departures     \* what the provider does that the protocol does not have

ASSUME StreamAssumption ==
  Indexes \subseteq Nat /\ IsFiniteSet(Indexes)
    /\ Departures \subseteq {"reasoning", "calls", "chunks", "breaks"}
    /\ MaxChunks \in Nat /\ MaxText \in Nat
    /\ Null \notin Nat \cup {"function", "custom", "unknown"}

VARIABLES
  tools_known,   \* the request names custom tools (tool_context.has_custom_tools)
  chat,          \* the converter
  wire,          \* events written to Codex and not yet read
  view,          \* what Codex made of the events it read: the response, and in
                 \* kept the items in the order in which they were done
  sent,          \* history: the answer of the provider as one message
  upstream       \* "open", "done" ([DONE] sent), "failed", "over"

stream_vars == <<tools_known, chat, wire, view, sent, upstream>>

----
(* The converter. *)

OpenTag  == <<"<th", "ink>">>
CloseTag == <<"</th", "ink>">>
Marks    == {"<th", "</th", "ink>"}

NoItem == [index |-> Null, said |-> <<>>, done |-> FALSE]
NoTool == [index |-> Null, call |-> Null, name |-> Null, said |-> <<>>, done |-> FALSE]

Emit(s, event) == [s EXCEPT !.out = Append(@, event)]

Started(s) == IF s.started THEN s ELSE Emit([s EXCEPT !.started = TRUE], [type |-> "created"])

(* An item takes the next output index when something is first said of it. *)
Added(s, kind, call) ==
  Emit([s EXCEPT !.next = @ + 1],
       [type |-> "added", index |-> s.next, kind |-> kind, call |-> call])

Delta(s, index, d) == Emit(s, [type |-> "delta", index |-> index, said |-> d])

Done(s, index, item) ==
  Emit([s EXCEPT !.output = @ \cup {[index |-> index, item |-> item]}],
       [type |-> "done", index |-> index, item |-> item])

(* push_reasoning_delta_into, push_text_delta_into. *)
Push(s, kind, d) ==
  LET o == IF s[kind].index = Null THEN [Added(s, kind, Null) EXCEPT ![kind].index = s.next] ELSE s
  IN Delta([o EXCEPT ![kind].said = @ \o d], o[kind].index, d)

(* finalize_reasoning_into, finalize_text_into. *)
Finalize(s, kind) ==
  IF s[kind].index = Null \/ s[kind].done THEN s
  ELSE Done([s EXCEPT ![kind].done = TRUE], s[kind].index,
            [kind |-> kind, call |-> Null, said |-> s[kind].said])

PushSome(s, kind, d) == IF d = <<>> THEN s ELSE Push(s, kind, d)

----
(* A think block at the head of the text. *)

StartsThink(text) == IsPrefix(OpenTag, text)
MayStartThink(text) == IsStrictPrefix(text, OpenTag)

Closes(text) == {i \in 3..(Len(text) - 1) : SubSeq(text, i, i + 1) = CloseTag}
Closed(text) == StartsThink(text) /\ Closes(text) # {}
FirstClose(text) == CHOOSE i \in Closes(text) : \A j \in Closes(text) : i <= j
Thought(text) == SubSeq(text, 3, FirstClose(text) - 1)
Answer(text) == SubSeq(text, FirstClose(text) + 2, Len(text))

(* drain_complete_inline_think_into. *)
Split(s, text) ==
  LET a == IF Thought(text) = <<>> THEN s
           ELSE Finalize(Push(s, "reasoning", Thought(text)), "reasoning")
  IN PushSome(a, "message", Answer(text))

Drained(s) ==
  IF ~Closed(s.buffer) THEN s
  ELSE Split([s EXCEPT !.mode = "text", !.buffer = <<>>], s.buffer)

(* push_content_delta_into. *)
Content(s, d) ==
  LET b == s.buffer \o d IN
  CASE s.mode = "text" -> Push(Finalize(s, "reasoning"), "message", d)
    [] s.mode = "reasoning" -> Drained([s EXCEPT !.buffer = b])
    [] s.mode = "detecting" /\ StartsThink(b) -> Drained([s EXCEPT !.mode = "reasoning", !.buffer = b])
    [] s.mode = "detecting" /\ MayStartThink(b) -> [s EXCEPT !.buffer = b]
    [] OTHER -> Push(Finalize([s EXCEPT !.mode = "text", !.buffer = <<>>], "reasoning"), "message", b)

(* Mutant: a block without an end is dropped. *)
FlushedIfClosed(s) ==
  LET t == [s EXCEPT !.mode = "text", !.buffer = <<>>]
  IN CASE s.mode = "detecting" /\ s.buffer # <<>> ->
            Push(Finalize(t, "reasoning"), "message", s.buffer)
       [] s.mode = "reasoning" /\ Closed(s.buffer) -> Split(t, s.buffer)
       [] OTHER -> t

(* flush_inline_think_at_boundary_into: a tool call or the end of the      *)
(* answer decides what the buffered text is.                               *)
Flushed(s) ==
  LET b == s.buffer
      t == [s EXCEPT !.mode = "text", !.buffer = <<>>]
  IN CASE s.mode = "text" \/ b = <<>> -> t
       [] s.mode = "detecting" /\ b # <<>> -> Push(Finalize(t, "reasoning"), "message", b)
       [] s.mode = "reasoning" /\ b # <<>> /\ Closed(b) -> Split(t, b)
       [] OTHER -> LET thought == SubSeq(b, 3, Len(b)) IN
                   IF thought = <<>> THEN t
                   ELSE Finalize(Push(t, "reasoning", thought), "reasoning")

----
(* Tool calls. *)

Kind(name) == IF name = "custom" THEN "custom_tool_call" ELSE "function_call"

(* The item of a call: without an id it is named for its position. *)
IdAt(i) == ToString(<<"position", i>>)
AddTool(s, i) ==
  LET call == IF s.tools[i].call = Null THEN IdAt(i) ELSE s.tools[i].call
  IN [Added(s, Kind(s.tools[i].name), call) EXCEPT
        !.tools[i].index = s.next, !.tools[i].call = call,
        !.tools[i].name = IF @ = Null THEN "unknown" ELSE @]

(* The input of a custom tool is not streamed: it is rewritten when it is  *)
(* whole.                                                                  *)
ToolDelta(s, i, d) ==
  IF d = <<>> \/ Kind(s.tools[i].name) = "custom_tool_call" THEN s
  ELSE Delta(s, s.tools[i].index, d)

Merged(tool, piece) ==
  [tool EXCEPT !.call = IF piece.call = Null THEN @ ELSE piece.call,
               !.name = IF piece.name = Null THEN @ ELSE piece.name,
               !.said = @ \o piece.said]

(* push_tool_call_delta_into: the item opens with the id or the name, with *)
(* the name when it tells a custom tool from a function.                   *)
PushTool(s, piece) ==
  LET i == piece.index
      a == [s EXCEPT !.tools[i] = Merged(@, piece)]
      tool == a.tools[i]
      waits == a.custom /\ tool.name = Null
  IN IF tool.index # Null THEN ToolDelta(a, i, piece.said)
     ELSE IF (tool.call # Null \/ tool.name # Null) /\ ~waits
          THEN ToolDelta(AddTool(a, i), i, tool.said)
          ELSE a

PushTools(s, pieces) ==
  LET after[n \in 0..Len(pieces)] ==
        IF n = 0 THEN s ELSE PushTool(after[n - 1], pieces[n])
  IN after[Len(pieces)]

FinalizeTool(s, i) ==
  IF s.tools[i] = NoTool \/ s.tools[i].done THEN s
  ELSE LET a == IF s.tools[i].index = Null THEN AddTool(s, i) ELSE s
           tool == a.tools[i]
       IN Done([a EXCEPT !.tools[i].done = TRUE], tool.index,
               [kind |-> Kind(tool.name), call |-> tool.call, said |-> tool.said])

(* The elements of S from the smallest on: before the n-th come n - 1. *)
InOrder(S) ==
  [n \in 1..Cardinality(S) |-> CHOOSE x \in S : Cardinality({y \in S : y < x}) = n - 1]

FinalizeTools(s) ==
  LET order == InOrder(Indexes)
      after[n \in 0..Len(order)] ==
        IF n = 0 THEN s ELSE FinalizeTool(after[n - 1], order[n])
  IN after[Len(order)]

----
(* Chunks and the end of the answer. *)

(* handle_chat_chunk_into: reasoning, then text, then tool calls. *)
HandleChunk(s, chunk) ==
  LET a == PushSome(Started(s), "reasoning", chunk.reasoning)
      b == IF chunk.content = <<>> THEN a ELSE Content(a, chunk.content)
  IN IF chunk.calls = Null THEN b
     ELSE PushTools(Finalize(Flushed(b), "reasoning"), chunk.calls)

(* Mutant: the items of the whole response are listed as they were done: *)
(* tool calls last.                                                       *)
OutputAsDone(s) ==
  LET calls == {o \in s.output : o.item.call # Null}
      listed(S) == LET indexes == InOrder({o.index : o \in S})
                   IN [n \in DOMAIN indexes |->
                         (CHOOSE o \in S : o.index = indexes[n]).item]
  IN listed(s.output \ calls) \o listed(calls)

(* completed_output_items: by output index. *)
Output(s) ==
  LET at(index) == CHOOSE o \in s.output : o.index = index
      indexes == InOrder({o.index : o \in s.output})
  IN [n \in DOMAIN indexes |-> at(indexes[n]).item]

(* finalize_into. *)
Finalized(s) ==
  IF s.completed THEN s
  ELSE LET a == FinalizeTools(Finalize(Finalize(Flushed(Started(s)), "reasoning"), "message"))
       IN Emit([a EXCEPT !.completed = TRUE], [type |-> "completed", output |-> Output(a)])

(* failed_into. *)
Failed(s) == Emit([s EXCEPT !.completed = TRUE, !.failed = TRUE], [type |-> "failed"])

(* finish. *)
Finished(s) == IF s.failed THEN s ELSE Finalized(s)

----
(* Codex reads an event. *)

Read(v, event) ==
  CASE event.type = "created" -> [v EXCEPT !.status = "in_progress"]
    [] event.type = "added" ->
         [v EXCEPT !.items = Append(@, [kind |-> event.kind, call |-> event.call,
                                        said |-> <<>>, done |-> FALSE])]
    [] event.type = "delta" -> [v EXCEPT !.items[event.index + 1].said = @ \o event.said]
    [] event.type = "done" ->
         [v EXCEPT !.items[event.index + 1] = [kind |-> event.item.kind, call |-> event.item.call,
                                               said |-> event.item.said, done |-> TRUE],
                   !.kept = Append(@, event.item)]
    [] event.type = "completed" ->
         [v EXCEPT !.status = "completed",
                   !.items = [n \in DOMAIN event.output |->
                       [kind |-> event.output[n].kind, call |-> event.output[n].call,
                        said |-> event.output[n].said, done |-> TRUE]]]
    [] event.type = "failed" -> [v EXCEPT !.status = "failed"]

Receive ==
  /\ wire # <<>>
  /\ view' = Read(view, Head(wire))
  /\ wire' = Tail(wire)
  /\ UNCHANGED <<tools_known, chat, sent, upstream>>

----
(* The proxy's loop over what the provider sends: the events of a chunk    *)
(* are written before the next is read.  (Codex reads them in order; that  *)
(* it has read all before the next chunk loses no order of events.)        *)

Converts(s) ==
  /\ chat' = [s EXCEPT !.out = <<>>]
  /\ wire' = s.out
  /\ UNCHANGED <<tools_known, view>>

Reading == wire = <<>> /\ upstream # "over"

Departs(how) == how \in Departures

Word == ToString(sent.chunks + 1)

(* The message the chunks make up; cut is how much of its text came before *)
(* the first tool call.                                                    *)
Heard(message, chunk) ==
  [chunks    |-> message.chunks + 1,
   reasoning |-> message.reasoning \o chunk.reasoning,
   content   |-> message.content \o chunk.content,
   cut       |-> IF message.cut = Null /\ chunk.calls # Null
                 THEN Len(message.content \o chunk.content) ELSE message.cut,
   calls     |-> [i \in Indexes |->
                    IF chunk.calls = Null THEN message.calls[i]
                    ELSE FoldLeft(Merged, message.calls[i],
                                  SelectSeq(chunk.calls, LAMBDA piece : piece.index = i))]]

Gets(chunk) ==
  /\ Reading /\ (upstream = "open" \/ Departs("chunks"))
  /\ sent.chunks < MaxChunks
  /\ Converts(HandleChunk(chat, chunk))
  /\ sent' = Heard(sent, chunk)
  /\ UNCHANGED upstream

Empty == [reasoning |-> <<>>, content |-> <<>>, calls |-> Null]

(* Reasoning comes at any time, until what came of it is an item done. *)
Reasons ==
  /\ ~chat.reasoning.done \/ Departs("reasoning")
  /\ Len(sent.reasoning) < MaxText
  /\ Gets([Empty EXCEPT !.reasoning = <<Word>>])

Speaks(d) == Len(sent.content) + Len(d) <= MaxText /\ Gets([Empty EXCEPT !.content = d])

(* An item that is open keeps the id and the kind it was opened with. *)
Settled(tool, piece) ==
  LET merged == Merged(tool, piece)
  IN tool.index # Null => merged.call = tool.call /\ Kind(merged.name) = Kind(tool.name)

(* A piece brings an id, a name or arguments of a call, or several of them, *)
(* in any order and more than once.                                         *)
Pieces(i) ==
  LET names == {"function"} \cup (IF tools_known THEN {"custom"} ELSE {})
      own   == ToString(<<"id", i>>)
      word  == ToString(<<i, sent.chunks + 1>>)
  IN {piece \in [index : {i}, call : {Null, own}, name : names \cup {Null}, said : {<<>>, <<word>>}] :
        /\ piece.call # Null \/ piece.name # Null \/ piece.said # <<>>
        /\ Settled(chat.tools[i], piece) \/ Departs("calls")}

CallsTools ==
  /\ Reading
  /\ \/ \E i \in Indexes : \E piece \in Pieces(i) : Gets([Empty EXCEPT !.calls = <<piece>>])
     \/ \E i, j \in Indexes :
          /\ i < j
          /\ \E p \in {piece \in Pieces(i) : piece.call # Null /\ piece.said = <<>>},
                q \in {piece \in Pieces(j) : piece.call # Null /\ piece.said = <<>>} :
               p.name # Null /\ Gets([Empty EXCEPT !.calls = <<p, q>>])
     \/ Gets([Empty EXCEPT !.calls = <<>>])

(* [DONE]. *)
Completes ==
  /\ Reading
  /\ Converts(Finalized(chat))
  /\ upstream' = IF upstream = "open" THEN "done" ELSE upstream
  /\ UNCHANGED sent

(* An error of the provider in the stream. *)
Errs ==
  /\ Reading /\ (upstream = "open" \/ Departs("chunks"))
  /\ Converts(Failed(chat))
  /\ upstream' = "failed"
  /\ UNCHANGED sent

(* The end of the stream, with [DONE] or without. *)
Ends ==
  /\ Reading
  /\ Converts(Finished(chat))
  /\ upstream' = "over"
  /\ UNCHANGED sent

(* The connection to the provider breaks. *)
Breaks ==
  /\ Reading /\ (upstream = "open" \/ Departs("breaks"))
  /\ Converts(Failed(chat))
  /\ upstream' = "over"
  /\ UNCHANGED sent

StreamInit ==
  /\ tools_known \in BOOLEAN
  /\ chat = [started |-> FALSE, completed |-> FALSE, failed |-> FALSE, next |-> 0,
             reasoning |-> NoItem, message |-> NoItem, mode |-> "detecting", buffer |-> <<>>,
             tools |-> [i \in Indexes |-> NoTool], output |-> {}, custom |-> tools_known,
             out |-> <<>>]
  /\ wire = <<>>
  /\ view = [status |-> "none", items |-> <<>>, kept |-> <<>>]
  /\ sent = [chunks |-> 0, reasoning |-> <<>>, content |-> <<>>, cut |-> Null,
             calls |-> [i \in Indexes |-> NoTool]]
  /\ upstream = "open"

StreamNext ==
  \/ Receive
  \/ Reasons \/ CallsTools \/ \E d \in {<<m>> : m \in Marks} \cup {<<Word>>, OpenTag, CloseTag} : Speaks(d)
  \/ Completes \/ Errs \/ Ends \/ Breaks

StreamSpec == StreamInit /\ [][StreamNext]_stream_vars

----
(* Properties. *)

StreamTypeOK ==
  /\ tools_known \in BOOLEAN
  /\ chat.custom = tools_known /\ chat.out = <<>>
  /\ chat.mode \in {"detecting", "reasoning", "text"} /\ chat.next \in Nat
  /\ \A i \in Indexes : chat.tools[i].index \in {Null} \cup Nat
  /\ view.status \in {"none", "in_progress", "completed", "failed"}
  /\ \A n \in DOMAIN view.items :
       /\ view.items[n].kind \in {"reasoning", "message", "function_call", "custom_tool_call"}
       /\ view.items[n].done \in BOOLEAN
  /\ upstream \in {"open", "done", "failed", "over"}

(* Codex reads a proper Responses stream from a provider that keeps to the *)
(* protocol, however it cuts its answer and wherever that ends: an item is *)
(* streamed to only while it is open, ends with what was streamed of it    *)
(* and stays itself, the response completes with the items Codex has seen  *)
(* and nothing follows its end.                                            *)
Responses == INSTANCE ResponsesStream WITH status <- view.status, items <- view.items
ImplementsResponses == Responses!Spec

(* A stream that is over has told Codex how the response ended ... *)
EndIsTold == upstream = "over" /\ wire = <<>> => view.status \in {"completed", "failed"}

(* ... and when it was completed every word of the provider is in it once, *)
(* whatever the chunks and tags it was cut into.                           *)
Words(text) == SelectSeq(text, LAMBDA w : w \notin Marks)
NothingIsLost ==
  /\ EndIsTold
  /\ view.status = "completed" =>
       LET said == Words(FlattenSeq([n \in DOMAIN view.items |-> view.items[n].said]))
       IN /\ IsInjective(said)
          /\ ToSet(said) = ToSet(Words(sent.reasoning \o sent.content))
                             \cup UNION {ToSet(sent.calls[i].said) : i \in Indexes}

(* What chat_completion_to_response makes of the message in one piece. *)
WholeReasoning(message) ==
  IF message.reasoning # <<>> THEN message.reasoning
  ELSE IF Closed(message.content) THEN Thought(message.content) ELSE <<>>
WholeText(message) ==
  IF Closed(message.content) THEN Answer(message.content) ELSE message.content
WholeCalls(message) ==
  LET made == InOrder({i \in Indexes : message.calls[i] # NoTool})
      item(i, tool) == [kind |-> Kind(tool.name), said |-> tool.said,
                        call |-> IF tool.call = Null THEN IdAt(i) ELSE tool.call]
  IN [n \in DOMAIN made |-> item(made[n], message.calls[made[n]])]

(* A think block beside a reasoning field, without an end, or with a tool  *)
(* call before it is not the same in one piece and in many.                *)
PlainThought ==
  LET head == IF sent.cut = Null THEN sent.content ELSE SubSeq(sent.content, 1, sent.cut)
  IN StartsThink(sent.content) => Closed(head) /\ sent.reasoning = <<>>

(* Streamed or in one piece an answer says the same. *)
AgreesWithWhole ==
  LET said(kind) == FlattenSeq([n \in DOMAIN view.items |->
                      IF view.items[n].kind = kind THEN view.items[n].said ELSE <<>>])
      whole(call) == [kind |-> call.kind, call |-> call.call, said |-> call.said, done |-> TRUE]
  IN view.status = "completed" /\ PlainThought =>
       /\ said("reasoning") = WholeReasoning(sent)
       /\ said("message") = WholeText(sent)
       /\ {item \in ToSet(view.items) : item.kind \notin {"reasoning", "message"}}
            = {whole(call) : call \in ToSet(WholeCalls(sent))}

(* With Codex's next request the provider gets its answer back as the one  *)
(* message it was, followed by the outputs of its calls in their order,    *)
(* whatever came before: Codex sends what it remembers and then the        *)
(* outputs and the user's next words.                                      *)
UserSays == [kind |-> "message", role |-> "user", call |-> Null, said |-> <<"question">>]
Remembered(item) == [kind |-> item.kind, role |-> "assistant", call |-> item.call, said |-> item.said]
OutputOf(call) == [kind |-> "output", role |-> Null, call |-> call, said |-> <<"output">>]
HistoryReturns ==
  LET made    == WholeCalls(sent)
      answer  == Assistant(WholeText(sent), WholeReasoning(sent),
                   [n \in DOMAIN made |-> [id |-> made[n].call, kind |-> made[n].kind, said |-> made[n].said]])
      silent  == answer = Assistant(<<>>, <<>>, <<>>)
      outputs == [n \in DOMAIN made |-> OutputOf(made[n].call)]
      earlier == [kind |-> "function_call", role |-> "assistant", call |-> "earlier", said |-> <<>>]
      after(before) == before \o [n \in DOMAIN view.kept |-> Remembered(view.kept[n])]
                         \o outputs \o <<UserSays>>
  IN view.status = "completed" /\ PlainThought =>
       \A before \in {<<UserSays>>, <<UserSays, earlier, OutputOf("earlier")>>} :
         Messages(after(before)) =
           Messages(before) \o (IF silent THEN <<>> ELSE <<answer>>)
             \o [n \in DOMAIN made |-> Message("tool", made[n].call, <<"output">>)]
             \o <<Message("user", "", <<"question">>)>>

(* Both: what the provider said in pieces is the same message there and    *)
(* back again.                                                             *)
SameMessage == AgreesWithWhole /\ HistoryReturns

(* A response that failed is never completed as well. *)
EndIsFinal ==
  [][view.status \in {"completed", "failed"} => view'.status = view.status]_stream_vars
=============================================================================
