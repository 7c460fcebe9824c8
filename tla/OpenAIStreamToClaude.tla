------------------------ MODULE OpenAIStreamToClaude ------------------------
(***************************************************************************)
(* The converter of streamed OpenAI chat completions into Claude events    *)
(* (openai_stream_to_claude and its finalizer), called by the stream task  *)
(* for every upstream event, for the terminator "[DONE]" and once more at  *)
(* the end of the stream.                                                  *)
(*                                                                         *)
(* A chunk is reduced to what it makes the converter do: whether it has    *)
(* non-empty reasoning, text, finish reason and usage, and for each tool   *)
(* call whether it has an id and arguments.                                *)
(***************************************************************************)
EXTENDS Naturals, Sequences, FiniteSetsExt

event(type, kind, index) == [type |-> type, kind |-> kind, index |-> index]

NewContext ==
    [message_start_sent |-> FALSE, finish_reason_sent |-> FALSE,
     content_index |-> 0, content_block_started |-> FALSE,
     thinking_index |-> 0, thinking_block_started |-> FALSE,
     tool_index |-> 0, tool_block_started |-> FALSE]

-----------------------------------------------------------------------------
(* The steps of the converter map a pair of context and result to the      *)
(* next pair.                                                              *)
emit(r, e) == [r EXCEPT !.out = Append(@, e)]

close_text_block(r) ==
    IF ~r.ctx.content_block_started THEN r
    ELSE [emit(r, event("content_block_stop", "none", r.ctx.content_index))
            EXCEPT !.ctx.content_block_started = FALSE]

close_thinking_block(r) ==
    IF ~r.ctx.thinking_block_started THEN r
    ELSE [emit(r, event("content_block_stop", "none", r.ctx.thinking_index))
            EXCEPT !.ctx.thinking_block_started = FALSE,
                   !.ctx.content_index = r.ctx.thinking_index + 1]

close_tool_block(r) ==
    IF ~r.ctx.tool_block_started THEN r
    ELSE [emit(r, event("content_block_stop", "none", r.ctx.tool_index))
            EXCEPT !.ctx.tool_block_started = FALSE]

close_all(r) == close_tool_block(close_text_block(close_thinking_block(r)))

(* A closed text or tool block frees its index for the next block.         *)
text_done_stuck(r) == close_text_block(r)

text_done(r) ==
    IF ~r.ctx.content_block_started THEN r
    ELSE [close_text_block(r) EXCEPT !.ctx.content_index = @ + 1]

tool_done(r) ==
    IF ~r.ctx.tool_block_started THEN r
    ELSE [close_tool_block(r) EXCEPT !.ctx.content_index = @ + 1]

emit_message_start(r) ==
    IF r.ctx.message_start_sent THEN r
    ELSE [emit(r, event("message_start", "none", 0))
            EXCEPT !.ctx.message_start_sent = TRUE]

emit_thinking_delta(r) ==
    LET c == tool_done(text_done(r))
        s == IF c.ctx.thinking_block_started THEN c
             ELSE [emit(c, event("content_block_start", "thinking", c.ctx.content_index))
                     EXCEPT !.ctx.thinking_block_started = TRUE,
                            !.ctx.thinking_index = c.ctx.content_index]
    IN emit(s, event("content_block_delta", "thinking", s.ctx.thinking_index))

emit_text_delta(r) ==
    LET c == tool_done(close_thinking_block(r))
        s == IF c.ctx.content_block_started THEN c
             ELSE [emit(c, event("content_block_start", "text", c.ctx.content_index))
                     EXCEPT !.ctx.content_block_started = TRUE]
    IN emit(s, event("content_block_delta", "text", s.ctx.content_index))

open_tool(r) ==
    [emit(r, event("content_block_start", "tool_use", r.ctx.content_index))
       EXCEPT !.ctx.tool_block_started = TRUE,
              !.ctx.tool_index = r.ctx.content_index]

(* A tool call with an id opens a new block; arguments without one go to   *)
(* the open block, or open one where they are.                             *)
emit_tool_call(r, tc) ==
    LET named == IF tc.id THEN open_tool(tool_done(text_done(close_thinking_block(r))))
                 ELSE r
        opened == IF tc.args /\ ~named.ctx.tool_block_started THEN open_tool(named)
                  ELSE named
    IN IF tc.args
         THEN emit(opened, event("content_block_delta", "tool_use", opened.ctx.tool_index))
         ELSE opened

(* In the order of the chunk.                                              *)
emit_tool_calls(r, calls) ==
    MapThenFoldSet(LAMBDA tc, s : emit_tool_call(s, tc), r,
                   LAMBDA i : calls[i], Max, DOMAIN calls)

stop_reason(r) ==
    [emit(r, event("message_delta", "stop", 0))
       EXCEPT !.ctx.finish_reason_sent = TRUE]

emit_finish(r) ==
    IF r.ctx.finish_reason_sent THEN r ELSE stop_reason(close_all(r))

emit_usage(r) == emit(r, event("message_delta", "usage", 0))

(* openai_stream_to_claude on a chunk.                                     *)
openai_stream_to_claude(c, chunk) ==
    LET start == emit_message_start([ctx |-> c, out |-> << >>])
        thought == IF chunk.reasoning THEN emit_thinking_delta(start) ELSE start
        said == IF chunk.text THEN emit_text_delta(thought) ELSE thought
        called == emit_tool_calls(said, chunk.tools)
        ended == IF chunk.finish THEN emit_finish(called) ELSE called
    IN IF chunk.usage THEN emit_usage(ended) ELSE ended

(* finalize_openai_stream_to_claude.                                       *)
finalize_leaving_blocks_open(c) ==
    LET started == [ctx |-> c, out |-> << >>]
    IN IF c.message_start_sent
         THEN emit(started, event("message_stop", "none", 0)) ELSE started

finalize_openai_stream_to_claude(c) ==
    LET closed == close_all([ctx |-> c, out |-> << >>])
        reason == IF c.message_start_sent /\ ~c.finish_reason_sent
                    THEN stop_reason(closed) ELSE closed
    IN IF c.message_start_sent
         THEN emit(reason, event("message_stop", "none", 0)) ELSE reason
=============================================================================
