------------------------------ MODULE ChatHistory ------------------------------
(***************************************************************************)
(* The way back: the items Codex remembers are sent with its next request, *)
(* and the local proxy makes Chat Completions messages of them             *)
(* (append_responses_input).  Chat Completions has one message for what    *)
(* the provider said in one go, its reasoning, text and tool calls, and    *)
(* wants the outputs right after it; in a Responses request these are      *)
(* items of their own.  Instructions, images, and calls and outputs        *)
(* without an id are left out.                                             *)
(***************************************************************************)
EXTENDS SequencesExt

Assistant(said, reasoning, calls) ==
  [role |-> "assistant", said |-> said, reasoning |-> reasoning, calls |-> calls, call |-> ""]
Message(role, call, said) ==
  [role |-> role, said |-> said, reasoning |-> <<>>, calls |-> <<>>, call |-> call]

Nothing == [messages |-> <<>>, calls |-> <<>>, reasoning |-> <<>>, seen |-> {}]

LastSpoke(s) == s.messages # <<>> /\ Last(s.messages).role = "assistant"
OnLast(s, message) == [s EXCEPT !.messages = Append(Front(@), message)]
Sent(s, message) == [s EXCEPT !.messages = Append(@, message)]

(* merge_tool_calls_into_message: a call of an id that is there is         *)
(* skipped.                                                                *)
Joined(calls, incoming) ==
  FoldLeft(LAMBDA cs, c : IF \E i \in DOMAIN cs : cs[i].id = c.id THEN cs ELSE Append(cs, c),
           calls, incoming)

(* Mutant: the calls get a message of their own. *)
FlushCallsApart(s) ==
  IF s.calls = <<>> THEN s
  ELSE [Sent(s, Assistant(<<>>, s.reasoning, s.calls)) EXCEPT !.calls = <<>>, !.reasoning = <<>>]

(* flush_tool_calls: pending calls belong to what was said just before     *)
(* them; reasoning stays pending then.                                     *)
FlushCalls(s) ==
  IF s.calls = <<>> THEN s
  ELSE IF LastSpoke(s)
  THEN [OnLast(s, [Last(s.messages) EXCEPT !.calls = Joined(@, s.calls)]) EXCEPT !.calls = <<>>]
  ELSE [Sent(s, Assistant(<<>>, s.reasoning, s.calls)) EXCEPT !.calls = <<>>, !.reasoning = <<>>]

(* flush_reasoning. *)
FlushReasoning(s) ==
  LET t == [s EXCEPT !.reasoning = <<>>]
  IN IF s.reasoning = <<>> THEN s
     ELSE IF LastSpoke(s)
     THEN OnLast(t, [Last(s.messages) EXCEPT !.reasoning = @ \o s.reasoning])
     ELSE Sent(t, Assistant(<<>>, s.reasoning, <<>>))

(* The output of a call nobody made is told as the user's words. *)
AppendOutput(s, item) ==
  IF item.call \in s.seen THEN Sent(FlushCalls(s), Message("tool", item.call, item.said))
  ELSE Sent(FlushReasoning(FlushCalls(s)), Message("user", "", item.said))

AppendMessage(s, item) ==
  LET t == FlushCalls(s)
  IN IF item.role = "assistant"
     THEN Sent([t EXCEPT !.reasoning = <<>>], Assistant(item.said, t.reasoning, <<>>))
     ELSE Sent(FlushReasoning(t), Message(item.role, "", item.said))

(* append_responses_item. *)
AppendItem(s, item) ==
  CASE item.kind \in {"function_call", "custom_tool_call"} ->
         [s EXCEPT !.calls = Append(@, [id |-> item.call, kind |-> item.kind, said |-> item.said]),
                   !.seen = @ \cup {item.call}]
    [] item.kind = "output"    -> AppendOutput(s, item)
    [] item.kind = "reasoning" -> [s EXCEPT !.reasoning = @ \o item.said]
    [] item.kind = "message"   -> AppendMessage(s, item)

Messages(items) == FlushReasoning(FlushCalls(FoldLeft(AppendItem, Nothing, items))).messages
=============================================================================
