-------------------------- MODULE StreamTransformer -------------------------
(***************************************************************************)
(* The conversion of a streamed answer: the converter chosen for the       *)
(* protocols of client and upstream is called for every upstream event,    *)
(* for the terminator "[DONE]", and its finalizer once more when the       *)
(* stream ends, breaks off or an event does not parse.  The events one     *)
(* call returns reach the client one by one, before the next call.         *)
(*                                                                         *)
(* The upstream keeps to its protocol ("conforming"); among the conforming *)
(* chat upstreams those that call at most one tool and say nothing after   *)
(* it, not even an empty text to a Responses client, are told apart        *)
(* ("single"), and one for a Claude client may also send anything in any   *)
(* order ("any").                                                          *)
(***************************************************************************)
EXTENDS Naturals, Sequences, FiniteSets, SequencesExt

CONSTANTS
    MaxEvents,    \* bound on the events of a Claude or Responses upstream
    MaxChunks,    \* bound on the chunks of a chat upstream
    MaxAnyChunks, \* the same, of one that sends anything
    MaxToolCalls, \* bound on the tool calls in one chunk of such an upstream
    MaxIndex,     \* bound on output indexes
    None

ASSUME TransformerAssumption ==
    /\ {MaxEvents, MaxChunks, MaxAnyChunks, MaxToolCalls, MaxIndex} \subseteq Nat
    /\ None \notin Nat \cup ({"part", "part:out", "tool", "tool:out"} \X Nat)

VARIABLES
    conv,       \* the converter
    style,      \* what the upstream sends
    ids,        \* how a Responses upstream identifies items
    ctx,        \* StreamContext
    sent,       \* events of the upstream
    wire,       \* events returned by the converter, not yet received
    delivered,  \* events received by the client
    upstream    \* "open", "finished" (a finish reason was sent), "done", "over"

vars == <<conv, style, ids, ctx, sent, wire, delivered, upstream>>

ToClaude == INSTANCE OpenAIStreamToClaude
RespToClaude == INSTANCE ResponsesStreamToClaude
OpenAI == INSTANCE OpenAIStreams
ClaudeUp == INSTANCE ClaudeStream WITH events <- sent
RespUp == INSTANCE ResponsesStream WITH events <- sent, Indexes <- 0..MaxIndex

(* prepare_transformer_for_route: the pairs of protocols with a converter. *)
Converters ==
    {[name |-> "cc_openai", client |-> "claude", from |-> "chat"],
     [name |-> "cc_openai2", client |-> "claude", from |-> "responses"],
     [name |-> "cx_chat_claude", client |-> "chat", from |-> "claude"],
     [name |-> "cx_chat_openai2", client |-> "chat", from |-> "responses"],
     [name |-> "cx_resp_claude", client |-> "responses", from |-> "claude"],
     [name |-> "cx_resp_openai", client |-> "responses", from |-> "chat"]}

NewContext(c) ==
    CASE c.name = "cc_openai" -> ToClaude!NewContext
      [] c.name = "cc_openai2" -> RespToClaude!NewContext
      [] OTHER -> OpenAI!NewContext

Init ==
    /\ conv \in Converters
    /\ style \in CASE conv.name = "cc_openai" -> {"conforming", "any"}
                   [] conv.name = "cx_resp_openai" -> {"conforming", "single"}
                   [] OTHER -> {"conforming"}
    /\ ids \in IF conv.from = "responses" THEN RespToClaude!IdStyle ELSE {"none"}
    /\ ctx = NewContext(conv)
    /\ sent = << >> /\ wire = << >> /\ delivered = << >>
    /\ upstream = "open"

-----------------------------------------------------------------------------
(* The upstream.                                                           *)
ToolCall == [id : BOOLEAN, args : BOOLEAN]
Chunk == [reasoning : BOOLEAN, text : BOOLEAN, finish : BOOLEAN, usage : BOOLEAN,
          tools : UNION {[1..n -> ToolCall] : n \in 0..MaxToolCalls}]

callsIn(tools) == Cardinality({i \in 1..Len(tools) : tools[i].id})
callsSoFar == FoldLeft(LAMBDA n, c : n + callsIn(c.tools), 0, sent)

(* Tool calls are numbered in order; arguments belong to the latest.       *)
numbered(chunk) ==
    [chunk EXCEPT !.tools = [i \in 1..Len(@) |->
        LET n == callsSoFar + callsIn(SubSeq(@, 1, i))
        IN [id |-> @[i].id, args |-> @[i].args, index |-> IF n = 0 THEN 0 ELSE n - 1]]]

content(chunk) == chunk.reasoning \/ chunk.text \/ chunk.tools # << >>

(* Nothing but usage after the finish reason, arguments without id only to *)
(* the tool call being sent.                                               *)
conforms(chunk) ==
    /\ Len(chunk.tools) <= 1
    /\ upstream = "finished" => ~content(chunk) /\ ~chunk.finish
    /\ chunk.tools # << >> /\ ~chunk.tools[1].id =>
          /\ sent # << >> /\ sent[Len(sent)].tools # << >>
          /\ ~chunk.reasoning /\ ~chunk.text

SendsChunk(chunk) ==
    /\ CASE style = "any" -> Len(sent) < MaxAnyChunks
         [] style = "conforming" -> Len(sent) < MaxChunks /\ conforms(chunk)
         [] style = "single" ->
               /\ Len(sent) < MaxChunks /\ conforms(chunk)
               /\ callsSoFar > 0 => ~chunk.text /\ callsIn(chunk.tools) = 0
    /\ sent' = Append(sent, numbered(chunk))
    /\ upstream' = IF chunk.finish THEN "finished" ELSE upstream

SendsClaudeEvent ==
    /\ Len(sent) < MaxEvents
    /\ ~ClaudeUp!stopped
    /\ ClaudeUp!Next
    /\ sent'[Len(sent')].kind = "stop" =>
          \A i \in 1..Len(sent) : sent[i].kind # "stop"
    /\ (\E i \in 1..Len(sent) : sent[i].kind = "stop")
          => sent'[Len(sent')].type \in {"message_delta", "message_stop"}
    /\ UNCHANGED upstream

(* The part of a message is closed before its item.                        *)
SendsResponsesEvent ==
    /\ Len(sent) < MaxEvents
    /\ RespUp!Next
    /\ sent'[Len(sent')].type = "item_done" =>
          sent[Len(sent)].type \in {"part_done", "args_done", "reasoning_done"}
    /\ UNCHANGED upstream

-----------------------------------------------------------------------------
(* transform_sse_event.                                                    *)
convert(c, e) ==
    CASE c = "cc_openai" -> ToClaude!openai_stream_to_claude(ctx, e)
      [] c = "cc_openai2" -> RespToClaude!openai_responses_stream_to_claude(ctx, ids, e)
      [] c = "cx_chat_claude" -> OpenAI!claude_stream_to_openai(ctx, e)
      [] c = "cx_chat_openai2" -> OpenAI!openai_responses_stream_to_chat(ctx, e)
      [] c = "cx_resp_claude" -> OpenAI!claude_stream_to_openai_responses(ctx, e)
      [] c = "cx_resp_openai" -> OpenAI!openai_chat_stream_to_responses(ctx, e)

apply(r) == ctx' = r.ctx /\ wire' = r.out

ConvertEvent ==
    /\ upstream \in {"open", "finished"} /\ wire = << >>
    /\ \/ conv.from = "chat" /\ \E chunk \in Chunk : SendsChunk(chunk)
       \/ conv.from = "claude" /\ SendsClaudeEvent
       \/ conv.from = "responses" /\ SendsResponsesEvent
    /\ apply(convert(conv.name, sent'[Len(sent')]))
    /\ UNCHANGED <<conv, style, ids, delivered>>

(* "data: [DONE]" after the chunks of a chat upstream, of which one that    *)
(* conforms has sent some.                                                 *)
ConvertDone ==
    /\ upstream \in {"open", "finished"} /\ wire = << >>
    /\ conv.from = "chat"
    /\ style = "any" \/ \E i \in 1..Len(sent) : content(sent[i]) \/ sent[i].finish
    /\ apply(IF conv.name = "cc_openai"
               THEN ToClaude!finalize_openai_stream_to_claude(ctx)
               ELSE OpenAI!chat_done(ctx))
    /\ upstream' = "done"
    /\ UNCHANGED <<conv, style, ids, sent, delivered>>

(* finalize_stream_transform at the end of the stream.                     *)
finalize(c) ==
    CASE c = "cc_openai" -> ToClaude!finalize_openai_stream_to_claude(ctx)
      [] c = "cc_openai2" -> RespToClaude!finalize_openai_responses_stream_to_claude(ctx)
      [] OTHER -> [ctx |-> ctx, out |-> << >>]

EndStream ==
    /\ upstream # "over" /\ wire = << >>
    /\ apply(finalize(conv.name))
    /\ upstream' = "over"
    /\ UNCHANGED <<conv, style, ids, sent, delivered>>

(* The bytes of one call arrive together; a client is shown them event by  *)
(* event, except where only the end of the stream is judged ("any").       *)
Deliver ==
    /\ wire # << >>
    /\ LET n == IF style = "any" THEN Len(wire) ELSE 1
       IN /\ delivered' = delivered \o SubSeq(wire, 1, n)
          /\ wire' = SubSeq(wire, n + 1, Len(wire))
    /\ UNCHANGED <<conv, style, ids, ctx, sent, upstream>>

Next == ConvertEvent \/ ConvertDone \/ EndStream \/ Deliver

Spec == Init /\ [][Next]_vars

-----------------------------------------------------------------------------
(* Properties.                                                             *)
received(protocol, styles) ==
    IF conv.client = protocol /\ style \in styles THEN delivered ELSE << >>

(* Of an upstream that keeps to its protocol, cut off anywhere, a Claude   *)
(* client always receives a Claude stream: openai_stream_to_claude and     *)
(* openai_responses_stream_to_claude start, number, fill and close the     *)
(* blocks in order.                                                        *)
ClaudeDown == INSTANCE ClaudeStream
                WITH events <- received("claude", {"conforming"})
ImplementsClaudeStream == ClaudeDown!Spec

(* A Responses client receives a Responses stream from                     *)
(* claude_stream_to_openai_responses, and from                             *)
(* openai_chat_stream_to_responses if the upstream calls one tool and says *)
(* nothing after it: the closing event of a call repeats exactly its own   *)
(* arguments, and nothing is completed while an item is open.              *)
ResponsesDown == INSTANCE ResponsesStream
                   WITH Indexes <- 0..(MaxIndex + MaxEvents),
                        events <- received("responses",
                                    IF conv.from = "chat" THEN {"single"} ELSE {"conforming"})
ImplementsResponsesStream == ResponsesDown!Spec

(* A chat client receives a chat stream from                               *)
(* openai_responses_stream_to_chat and claude_stream_to_openai: arguments  *)
(* only of announced calls, one finish reason after all content.           *)
ChatDown == INSTANCE ChatStream
              WITH Indexes <- 0..(MaxIndex + MaxEvents),
                   events <- received("chat", {"conforming"})
ImplementsChatStream == ChatDown!Spec

(* Once the stream is over and everything is delivered, a Claude client    *)
(* that saw a message start has seen it stop and every block closed,       *)
(* whatever the upstream sent (the finalizers); with a stop reason if it   *)
(* was a chat upstream.                                                    *)
EndedCleanly ==
    conv.client = "claude" /\ upstream = "over" /\ wire = << >> /\ delivered # << >> =>
        /\ \E i \in 1..Len(delivered) : delivered[i].type = "message_start"
        /\ \E i \in 1..Len(delivered) : delivered[i].type = "message_stop"
        /\ conv.name = "cc_openai" => \E i \in 1..Len(delivered) : delivered[i].kind = "stop"
        /\ \A i \in 1..Len(delivered) : delivered[i].type = "content_block_start" =>
              \E j \in i..Len(delivered) :
                  delivered[j].type = "content_block_stop" /\ delivered[j].index = delivered[i].index

(* The content of a stream: what each delta belongs to, tool calls counted *)
(* in the order they were announced.                                       *)
Announces(e) ==
    \/ e.type = "content_block_start" /\ e.kind = "tool_use"
    \/ e.type = "item_added" /\ e.kind = "function_call"
    \/ e.type = "tool"
callOf(es, i) ==
    Cardinality({j \in 1..i : Announces(es[j])
                    /\ \E k \in j..i : Announces(es[k]) /\ es[k].index = es[i].index})
kindOf(e) ==
    CASE e.type \in {"text_delta", "content"} -> "text"
      [] e.type = "reasoning_delta" -> "thinking"
      [] e.type \in {"args_delta", "args"} -> "tool_use"
      [] e.type = "content_block_delta" -> e.kind
      [] OTHER -> "none"
contentOf(es, kinds) ==
    LET piece(i) == LET k == kindOf(es[i]) IN
                    IF k \notin kinds THEN << >>
                    ELSE << <<k, IF k = "tool_use" THEN callOf(es, i) ELSE 0>> >>
    IN FlattenSeq([i \in 1..Len(es) |-> piece(i)])

contentOfChunk(c, kinds) ==
    (IF c.reasoning /\ "thinking" \in kinds THEN << <<"thinking", 0>> >> ELSE << >>)
    \o (IF c.text /\ "text" \in kinds THEN << <<"text", 0>> >> ELSE << >>)
    \o FlattenSeq([i \in 1..Len(c.tools) |->
          IF c.tools[i].args THEN << <<"tool_use", c.tools[i].index + 1>> >> ELSE << >>])
contentOfChunks(cs, kinds) ==
    FlattenSeq([i \in 1..Len(cs) |-> contentOfChunk(cs[i], kinds)])

(* The kinds a converter drops, although all three APIs have a form for    *)
(* them.  Only Claude clients see what the upstream thought.  The one from *)
(* Claude to chat looks at text deltas alone: the client is told with      *)
(* finish_reason that tools were called, and never which.                  *)
Kinds == {"text", "thinking", "tool_use"}
droppedKinds ==
    CASE conv.client = "claude" -> {}
      [] conv.name = "cx_chat_claude" -> {"thinking", "tool_use"}
      [] OTHER -> {"thinking"}
carriedKinds == Kinds \ droppedKinds

(* Of a conforming upstream, every delta of a kind the converter carries,  *)
(* and nothing else, is relayed, once and in order, and a piece of         *)
(* arguments goes to the tool call it belongs to: the block or item index  *)
(* found for it in resolve_content_index, the maps by item id and key or   *)
(* tool_index is the right one, however the upstream identifies its items. *)
DeltasRelayed ==
    style # "any" /\ wire = << >> =>
        contentOf(delivered, Kinds) = IF conv.from = "chat" THEN contentOfChunks(sent, carriedKinds)
                                      ELSE contentOf(sent, carriedKinds)

(* "Close any unclosed blocks": when a chat upstream has finished, every   *)
(* item opened for a Responses client is done.                             *)
EveryItemDone ==
    conv.name = "cx_resp_openai" /\ style = "conforming" /\ upstream = "done" /\ wire = << >> =>
        \A i \in 1..Len(delivered) : delivered[i].type = "item_added" =>
            \E j \in i..Len(delivered) :
                delivered[j].type = "item_done" /\ delivered[j].index = delivered[i].index
=============================================================================
