---------------------------- MODULE OpenAIStreams ---------------------------
(***************************************************************************)
(* The stream converters for clients of the OpenAI APIs: Claude events and *)
(* chat chunks into Responses events, Claude and Responses events into     *)
(* chat chunks.  None of them has a finalizer.                             *)
(*                                                                         *)
(* Each maps a StreamContext and an upstream event to the next context and *)
(* the events for the client.  The arguments of a tool call are counted in *)
(* pieces, as tool_arguments collects them.                                *)
(*                                                                         *)
(* A chunk has text, or a tool call arguments, if the field counts for the *)
(* converter at hand: openai_chat_stream_to_responses passes on an empty   *)
(* string as a delta, openai_stream_to_claude takes it for none.           *)
(***************************************************************************)
EXTENDS Naturals, Sequences, FiniteSetsExt

resp(type, kind, index, n) == [type |-> type, kind |-> kind, index |-> index, n |-> n]
chat(type, index) == [type |-> type, index |-> index]

NewContext ==
    [message_id |-> FALSE, message_start_sent |-> FALSE, finish_reason_sent |-> FALSE,
     content_block_started |-> FALSE, content_index |-> 0,
     tool_block_started |-> FALSE, tool_index |-> 0,
     current_tool_id |-> FALSE, tool_arguments |-> 0]

emit(r, e) == [r EXCEPT !.out = Append(@, e)]
emitAll(r, es) == [r EXCEPT !.out = @ \o es]

-----------------------------------------------------------------------------
(* Items of a Responses stream.                                            *)
open_message(r, x) ==
    [emitAll(r, <<resp("item_added", "message", x, 0), resp("part_added", "text", x, 0)>>)
       EXCEPT !.ctx.content_block_started = TRUE, !.ctx.content_index = x]

close_message(r) ==
    LET x == r.ctx.content_index IN
    [emitAll(r, <<resp("text_done", "text", x, 0), resp("part_done", "text", x, 0),
                  resp("item_done", "message", x, 0)>>)
       EXCEPT !.ctx.content_block_started = FALSE]

open_call(r, x) ==
    [emit(r, resp("item_added", "function_call", x, 0))
       EXCEPT !.ctx.tool_block_started = TRUE, !.ctx.tool_index = x]

call_done(r) ==
    emitAll(r, <<resp("args_done", "args", r.ctx.tool_index, r.ctx.tool_arguments),
                 resp("item_done", "function_call", r.ctx.tool_index, 0)>>)

args_delta(r) ==
    [emit(r, resp("args_delta", "args", r.ctx.tool_index, 0))
       EXCEPT !.ctx.tool_arguments = @ + 1]

complete(r) == emitAll(r, <<resp("completed", "none", 0, 0), resp("done", "none", 0, 0)>>)

-----------------------------------------------------------------------------
(* claude_stream_to_openai_responses; e is a Claude event.                 *)
claude_block_start(r, e) ==
    CASE e.kind = "text" -> open_message(r, e.index)
      [] e.kind = "tool_use" -> [open_call(r, e.index) EXCEPT !.ctx.current_tool_id = TRUE]
      [] OTHER -> r

claude_block_delta(r, e) ==
    LET s == IF r.ctx.message_id THEN r
             ELSE [emit(r, resp("created", "none", 0, 0)) EXCEPT !.ctx.message_id = TRUE]
        text == IF s.ctx.content_block_started THEN s ELSE open_message(s, e.index)
        call == IF s.ctx.tool_block_started THEN s ELSE open_call(s, e.index)
    IN CASE e.kind = "text" -> emit(text, resp("text_delta", "text", text.ctx.content_index, 0))
         [] e.kind = "tool_use" -> args_delta(call)
         [] OTHER -> s

claude_block_stop_keeping_arguments(r, e) ==
    CASE r.ctx.tool_block_started /\ e.index = r.ctx.tool_index ->
            [call_done(r) EXCEPT !.ctx.tool_block_started = FALSE]
      [] ~(r.ctx.tool_block_started /\ e.index = r.ctx.tool_index)
            /\ r.ctx.content_block_started /\ e.index = r.ctx.content_index -> close_message(r)
      [] OTHER -> r

claude_block_stop(r, e) ==
    CASE r.ctx.tool_block_started /\ e.index = r.ctx.tool_index ->
            [call_done(r) EXCEPT !.ctx.tool_block_started = FALSE, !.ctx.tool_arguments = 0]
      [] ~(r.ctx.tool_block_started /\ e.index = r.ctx.tool_index)
            /\ r.ctx.content_block_started /\ e.index = r.ctx.content_index -> close_message(r)
      [] OTHER -> r

claude_stream_to_openai_responses(c, e) ==
    LET r == [ctx |-> c, out |-> << >>] IN
    CASE e.type = "message_start" ->
            [emit(r, resp("created", "none", 0, 0)) EXCEPT !.ctx.message_id = TRUE]
      [] e.type = "content_block_start" -> claude_block_start(r, e)
      [] e.type = "content_block_delta" -> claude_block_delta(r, e)
      [] e.type = "content_block_stop" -> claude_block_stop(r, e)
      [] e.type = "message_stop" ->
            complete(IF c.tool_block_started THEN call_done(r) ELSE r)
      [] OTHER -> r

-----------------------------------------------------------------------------
(* openai_chat_stream_to_responses.  A tool call with an id closes the     *)
(* message, without its part, and opens an item of its own unless its      *)
(* index is the one already open.                                          *)
chat_call_start(r, tc) ==
    LET x == tc.index + 1
        c == IF ~r.ctx.content_block_started THEN r
             ELSE [emitAll(r, <<resp("text_done", "text", r.ctx.content_index, 0),
                                resp("item_done", "message", r.ctx.content_index, 0)>>)
                     EXCEPT !.ctx.content_block_started = FALSE]
    IN IF c.ctx.tool_block_started /\ c.ctx.tool_index = x THEN c
       ELSE [open_call(c, x) EXCEPT !.ctx.tool_arguments = 0, !.ctx.current_tool_id = TRUE]

chat_tool_call(r, tc) ==
    LET s == IF tc.id THEN chat_call_start(r, tc) ELSE r
    IN IF tc.args THEN args_delta(s) ELSE s

(* In the order of the chunk.                                              *)
chat_tool_calls(r, calls) ==
    MapThenFoldSet(LAMBDA tc, s : chat_tool_call(s, tc), r,
                   LAMBDA i : calls[i], Max, DOMAIN calls)

chat_text(r) ==
    LET s == IF r.ctx.content_block_started THEN r ELSE open_message(r, 0)
    IN emit(s, resp("text_delta", "text", s.ctx.content_index, 0))

(* At a finish reason, or at "[DONE]" when there was none.                 *)
chat_complete(r) ==
    LET t == IF r.ctx.tool_block_started
               THEN [call_done(r) EXCEPT !.ctx.tool_block_started = FALSE] ELSE r
        m == IF t.ctx.content_block_started THEN close_message(t) ELSE t
    IN IF r.ctx.finish_reason_sent THEN r
       ELSE [complete(m) EXCEPT !.ctx.finish_reason_sent = TRUE]

chat_done(c) == chat_complete([ctx |-> c, out |-> << >>])

(* A chunk that only carries usage has no choices.                         *)
openai_chat_stream_to_responses(c, chunk) ==
    LET choices == chunk.text \/ chunk.reasoning \/ chunk.finish
                     \/ chunk.tools # << >> \/ ~chunk.usage
        r == [ctx |-> [c EXCEPT !.message_id = TRUE], out |-> << >>]
        start == IF c.message_start_sent THEN r
                 ELSE [emit(r, resp("created", "none", 0, 0))
                         EXCEPT !.ctx.message_start_sent = TRUE]
        said == IF chunk.text THEN chat_text(start) ELSE start
        called == chat_tool_calls(said, chunk.tools)
    IN CASE ~choices -> r
         [] choices /\ chunk.finish -> chat_complete(called)
         [] OTHER -> called

-----------------------------------------------------------------------------
(* The role, before the first text.                                        *)
role_always(r) == emit(r, chat("role", 0))

role_if_needed(r) ==
    IF r.ctx.message_start_sent THEN r
    ELSE [emit(r, chat("role", 0)) EXCEPT !.ctx.message_start_sent = TRUE]

(* openai_responses_stream_to_chat; e is a Responses event.  The index of  *)
(* the finish reason is 1 for "tool_calls" and 0 for "stop".               *)
openai_responses_stream_to_chat(c, e) ==
    LET r == [ctx |-> c, out |-> << >>]
    IN CASE e.type = "created" -> [r EXCEPT !.ctx.message_id = TRUE]
         [] e.type = "text_delta" -> emit(role_if_needed(r), chat("content", e.index))
         [] e.type = "item_added" /\ e.kind = "function_call" ->
               [emit(r, chat("tool", e.index))
                  EXCEPT !.ctx.current_tool_id = TRUE, !.ctx.tool_index = e.index]
         [] e.type = "args_delta" ->
               [emit(r, chat("args", e.index)) EXCEPT !.ctx.tool_arguments = @ + 1]
         [] e.type = "completed" -> emit(r, chat("finish", IF c.current_tool_id THEN 1 ELSE 0))
         [] e.type = "done" -> emit(r, chat("done", 0))
         [] OTHER -> r

(* claude_stream_to_openai: tool calls have no counterpart.                *)
claude_stream_to_openai(c, e) ==
    LET r == [ctx |-> c, out |-> << >>] IN
    CASE e.type = "message_start" -> [r EXCEPT !.ctx.message_id = TRUE]
      [] e.type = "content_block_delta" /\ e.kind = "text" -> emit(r, chat("content", 0))
      [] e.type = "message_delta" /\ e.kind = "stop" -> emit(r, chat("finish", 0))
      [] e.type = "message_stop" -> emit(r, chat("done", 0))
      [] OTHER -> r
=============================================================================
