----------------------- MODULE ResponsesStreamToClaude ----------------------
(***************************************************************************)
(* The converter of streamed OpenAI Responses events into Claude events    *)
(* (openai_responses_stream_to_claude and its finalizer).  Content parts   *)
(* and tool calls are given Claude block indexes the first time they are   *)
(* seen, under a key made of whatever identifies them in the event.        *)
(*                                                                         *)
(* An upstream identifies an item in every event by its item id, by the    *)
(* item id when it is added and by the output index afterwards ("mixed"),  *)
(* by the output index only, or not at all.                                *)
(***************************************************************************)
EXTENDS Naturals, Sequences, FiniteSetsExt

CONSTANT None

IdStyle == {"item", "mixed", "output", "none"}

claude(type, kind, index) == [type |-> type, kind |-> kind, index |-> index]

NewContext ==
    [message_start_sent |-> FALSE, finish_reason_sent |-> FALSE,
     has_tool_use |-> FALSE, next_content_index |-> 0,
     index_by_key |-> << >>, open_indices |-> {}, fallback_open_index |-> None,
     tool_index_by_item_id |-> << >>, last_tool_index |-> None]

emit(r, e) == [r EXCEPT !.out = Append(@, e)]

(* The maps of the context.                                                *)
insert(f, k, x) == [y \in DOMAIN f \cup {k} |-> IF y = k THEN x ELSE f[y]]
remove(f, k) == [y \in DOMAIN f \ {k} |-> f[y]]

(* The keys.  content_index is always 0 here.                              *)
content_part_key(ids, e) ==
    CASE ids = "none" -> None
      [] ids = "item" -> <<"part", e.index>>
      [] OTHER -> <<"part:out", e.index>>

tool_item_key_from_added(ids, e) ==
    CASE ids = "none" -> None
      [] ids \in {"item", "mixed"} -> <<"tool", e.index>>
      [] OTHER -> <<"tool:out", e.index>>

tool_item_key_from_event(ids, e) ==
    CASE ids = "none" -> None
      [] ids = "item" -> <<"tool", e.index>>
      [] OTHER -> <<"tool:out", e.index>>

known(key, ctx) == key # None /\ key \in DOMAIN ctx.index_by_key

(* The pair of an index and the context it leaves.                         *)
next_index(c) == [index |-> c.next_content_index,
                  ctx |-> [c EXCEPT !.next_content_index = @ + 1]]

assign_index(c, key) ==
    LET n == next_index(c)
    IN [n EXCEPT !.ctx.index_by_key = insert(@, key, n.index)]

resolve_content_index(c, ids, e) ==
    LET key == content_part_key(ids, e) IN
    CASE known(key, c) -> [index |-> c.index_by_key[key], ctx |-> c]
      [] key # None /\ ~known(key, c) -> assign_index(c, key)
      [] key = None /\ c.fallback_open_index # None ->
            [index |-> c.fallback_open_index, ctx |-> c]
      [] OTHER -> LET n == next_index(c)
                  IN [n EXCEPT !.ctx.fallback_open_index = n.index]

emit_message_start_if_needed(r) ==
    IF r.ctx.message_start_sent THEN r
    ELSE [emit(r, claude("message_start", "none", 0))
            EXCEPT !.ctx.message_start_sent = TRUE]

open_block(r, kind, index) ==
    IF index \in r.ctx.open_indices THEN r
    ELSE [emit(r, claude("content_block_start", kind, index))
            EXCEPT !.ctx.open_indices = @ \cup {index}]

close_open_index(r, index) ==
    IF index \notin r.ctx.open_indices THEN r
    ELSE [emit(r, claude("content_block_stop", "none", index))
            EXCEPT !.ctx.open_indices = @ \ {index},
                   !.ctx.fallback_open_index = IF @ = index THEN None ELSE @]

(* In ascending order.                                                     *)
close_all_open_indices(r) ==
    MapThenFoldSet(LAMBDA i, s : close_open_index(s, i), r, LAMBDA i : i, Max, r.ctx.open_indices)

-----------------------------------------------------------------------------
part_added(r, ids, e) ==
    LET s == emit_message_start_if_needed(r)
        i == resolve_content_index(s.ctx, ids, e)
    IN open_block([s EXCEPT !.ctx = i.ctx], "text", i.index)

content_delta(r, ids, e, kind) ==
    LET s == emit_message_start_if_needed(r)
        i == resolve_content_index(s.ctx, ids, e)
    IN emit(open_block([s EXCEPT !.ctx = i.ctx], kind, i.index),
            claude("content_block_delta", kind, i.index))

part_done(r, ids, e) ==
    LET key == content_part_key(ids, e) IN
    CASE known(key, r.ctx) -> close_open_index(r, r.ctx.index_by_key[key])
      [] key = None /\ r.ctx.fallback_open_index # None ->
            close_open_index(r, r.ctx.fallback_open_index)
      [] OTHER -> r

function_call_added_first(r, ids, e) ==
    LET s == emit_message_start_if_needed(r)
        key == tool_item_key_from_added(ids, e)
        i == CASE known(key, s.ctx) -> [index |-> s.ctx.index_by_key[key], ctx |-> s.ctx]
               [] key # None /\ ~known(key, s.ctx) -> assign_index(s.ctx, key)
               [] OTHER -> next_index(s.ctx)
        c == [i.ctx EXCEPT
                !.has_tool_use = TRUE,
                !.last_tool_index = IF @ = None THEN i.index ELSE @,
                !.tool_index_by_item_id =
                    IF ids \in {"item", "mixed"} THEN insert(@, e.index, i.index) ELSE @]
    IN open_block([s EXCEPT !.ctx = c], "tool_use", i.index)

function_call_added(r, ids, e) ==
    LET s == emit_message_start_if_needed(r)
        key == tool_item_key_from_added(ids, e)
        i == CASE known(key, s.ctx) -> [index |-> s.ctx.index_by_key[key], ctx |-> s.ctx]
               [] key # None /\ ~known(key, s.ctx) -> assign_index(s.ctx, key)
               [] OTHER -> next_index(s.ctx)
        c == [i.ctx EXCEPT
                !.has_tool_use = TRUE,
                !.last_tool_index = i.index,
                !.tool_index_by_item_id =
                    IF ids \in {"item", "mixed"} THEN insert(@, e.index, i.index) ELSE @]
    IN open_block([s EXCEPT !.ctx = c], "tool_use", i.index)

(* The block of an event of a tool call: by item id, by key, or the last   *)
(* one; None if there is none.                                             *)
tool_index(c, ids, e) ==
    LET key == tool_item_key_from_event(ids, e) IN
    CASE ids = "item" /\ e.index \in DOMAIN c.tool_index_by_item_id ->
            c.tool_index_by_item_id[e.index]
      [] ~(ids = "item" /\ e.index \in DOMAIN c.tool_index_by_item_id) /\ known(key, c) ->
            c.index_by_key[key]
      [] OTHER -> c.last_tool_index

arguments_delta(r, ids, e) ==
    LET s == emit_message_start_if_needed(r)
        found == tool_index(s.ctx, ids, e)
        i == IF found # None THEN [index |-> found, ctx |-> s.ctx] ELSE next_index(s.ctx)
    IN emit(open_block([s EXCEPT !.ctx = [i.ctx EXCEPT !.last_tool_index = i.index]],
                       "tool_use", i.index),
            claude("content_block_delta", "tool_use", i.index))

arguments_done(r, ids, e) ==
    LET found == tool_index(r.ctx, ids, e)
        c == close_open_index(r, found)
    IN IF found = None THEN r
       ELSE IF ids = "item"
         THEN [c EXCEPT !.ctx.tool_index_by_item_id = remove(@, e.index)]
         ELSE c

completed(r) ==
    LET s == close_all_open_indices(emit_message_start_if_needed(r))
        d == emit(emit(s, claude("message_delta", "stop", 0)), claude("message_stop", "none", 0))
    IN IF r.ctx.finish_reason_sent THEN r
       ELSE [d EXCEPT !.ctx.fallback_open_index = None, !.ctx.finish_reason_sent = TRUE]

finalize_done(r) ==
    LET c == [close_all_open_indices(r) EXCEPT
                !.ctx.tool_index_by_item_id = << >>,
                !.ctx.last_tool_index = None, !.ctx.fallback_open_index = None]
    IN IF c.ctx.finish_reason_sent \/ ~c.ctx.message_start_sent THEN c
       ELSE [emit(c, claude("message_stop", "none", 0)) EXCEPT !.ctx.finish_reason_sent = TRUE]

finalize_openai_responses_stream_to_claude(c) ==
    LET r == [ctx |-> c, out |-> << >>]
    IN IF c.finish_reason_sent \/ (~c.message_start_sent /\ c.open_indices = {})
         THEN r ELSE finalize_done(r)

(* Events without a counterpart, response.failed among them, are skipped.  *)
openai_responses_stream_to_claude(c, ids, e) ==
    LET r == [ctx |-> c, out |-> << >>] IN
    CASE e.type = "created" -> emit_message_start_if_needed(r)
      [] e.type = "part_added" -> part_added(r, ids, e)
      [] e.type = "text_delta" -> content_delta(r, ids, e, "text")
      [] e.type = "reasoning_delta" -> content_delta(r, ids, e, "thinking")
      [] e.type \in {"part_done", "reasoning_done"} -> part_done(r, ids, e)
      [] e.type = "item_added" /\ e.kind = "function_call" -> function_call_added(r, ids, e)
      [] e.type = "args_delta" -> arguments_delta(r, ids, e)
      [] e.type = "args_done" -> arguments_done(r, ids, e)
      [] e.type = "completed" -> completed(r)
      [] e.type = "done" -> finalize_done(r)
      [] OTHER -> r
=============================================================================
