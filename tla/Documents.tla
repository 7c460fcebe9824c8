------------------------------ MODULE Documents -----------------------------
(***************************************************************************)
(* The conversions of whole requests and answers between the Claude        *)
(* Messages, Chat Completions and Responses APIs.                          *)
(*                                                                         *)
(* A text is a sequence of tokens: words, the tags of thinking and the     *)
(* pieces of a tool call written as text.  Content is a string, an array   *)
(* of parts or null.  A tool call is its id; names, arguments and results are not  *)
(* told apart, except for the name in a tool call written as text.         *)
(***************************************************************************)
EXTENDS Naturals, Sequences, SequencesExt

CONSTANT None

token(tok, n) == [tok |-> tok, n |-> n]
part(type, text, id) == [type |-> type, text |-> text, id |-> id]
string(text) == [form |-> "string", parts |-> <<part("text", text, None)>>]
array(parts) == [form |-> "array", parts |-> parts]
null == [form |-> "null", parts |-> << >>]

(* Messages of the Claude and Chat APIs, items of the Responses API.       *)
claudeMessage(role, content) == [role |-> role, content |-> content]
chatMessage(role, content, calls, id) ==
    [role |-> role, content |-> content, tool_calls |-> calls, tool_call_id |-> id]
item(type, role, parts, id, call_id) ==
    [type |-> type, role |-> role, content |-> parts, id |-> id, call_id |-> call_id]

mapped(s, Op(_)) == [i \in 1..Len(s) |-> Op(s[i])]
flatMap(s, Op(_)) == FlattenSeq(mapped(s, Op))
ofType(parts, types) == SelectSeq(parts, LAMBDA p : p.type \in types)
joined(parts) == flatMap(parts, LAMBDA p : p.text)
if(cond, s) == IF cond THEN s ELSE << >>

Placeholder == <<token("(thinking...)", 0)>>
Null == <<token("null", 0)>>
positive(limit) == IF limit = None \/ limit = 0 THEN None ELSE limit
TextTypes == {"text", "input_text", "output_text"}

-----------------------------------------------------------------------------
(* Mutated form: a text before the tag is lost.                           *)
split_think_losing_text(text) ==
    IF \E i \in 1..Len(text) : text[i].tok = "<think>" THEN << >> ELSE <<part("text", text, None)>>


(* split_think_tagged_text: what is between tags is thinking, an opening   *)
(* tag that is never closed disappears.                                    *)
split_think_tagged_text(text) ==
    LET say(s, type) == [s EXCEPT !.blocks = @ \o if(s.now # << >>, <<part(type, s.now, None)>>),
                                  !.now = << >>]
        step(s, t) ==
            CASE ~s.inside /\ t.tok = "<think>" -> [say(s, "text") EXCEPT !.inside = TRUE]
              [] s.inside /\ t.tok = "</think>" -> [say(s, "thinking") EXCEPT !.inside = FALSE]
              [] OTHER -> [s EXCEPT !.now = Append(@, t)]
    IN say(FoldLeft(step, [inside |-> FALSE, now |-> << >>, blocks |-> << >>], text), "text").blocks

(* The first marker followed by an allowed tool and arguments that parse   *)
(* up to some closing bracket.  A closing bracket may be part of the       *)
(* arguments.                                                              *)
parses(args) ==
    \/ Len(args) = 1 /\ args[1].tok = "object"
    \/ Len(args) = 3 /\ args[1].tok = "object-start" /\ args[2].tok = ")]" /\ args[3].tok = "object-end"

parse_strict_text_tool_call(text, allowed) ==
    \E i, k \in 1..Len(text) :
        /\ i + 2 < k
        /\ text[i].tok = "[Tool Call:" /\ text[i + 1].tok = "name(" /\ text[i + 1].n \in allowed
        /\ text[k].tok = ")]"
        /\ parses(SubSeq(text, i + 2, k - 1))

(* An object with a shell command, taken for a call of tool 0, "Bash".     *)
parse_command_array_text_tool_call(text, allowed) ==
    0 \in allowed /\ \E i \in 1..Len(text) : text[i].tok = "command"

parse_text_tool_call_fallback(text, allowed) ==
    \/ parse_strict_text_tool_call(text, allowed)
    \/ parse_command_array_text_tool_call(text, allowed)

-----------------------------------------------------------------------------
(* Requests: system (a text), messages or input, tools, tool_choice, limit *)
(* (max_tokens, None if absent).                                           *)
Tools(tools, kinds) == SelectSeq(tools, LAMBDA t : t.kind \in kinds)

(* Results follow the text and the calls of their message.                 *)
claude_message_to_openai(m) ==
    LET blocks == m.content.parts
        texts == ofType(blocks, {"text"})
        calls == mapped(ofType(blocks, {"tool_use"}), LAMBDA b : b.id)
        results == mapped(ofType(blocks, {"tool_result"}),
                          LAMBDA b : chatMessage("tool", string(b.text), << >>, b.id))
        thinks == ofType(blocks, {"thinking"}) # << >> /\ m.role = "assistant"
    IN CASE m.content.form = "string" -> <<chatMessage(m.role, m.content, << >>, None)>>
         [] m.content.form = "array" /\ (texts # << >> \/ calls # << >>) ->
               <<chatMessage(m.role, string(joined(texts)), calls, None)>> \o results
         [] OTHER -> if(thinks, <<chatMessage("assistant", string(Placeholder), << >>, None)>>)
                       \o results

claude_req_to_openai(req) ==
    [system |-> << >>,
     messages |-> if(req.system # << >>, <<chatMessage("system", string(req.system), << >>, None)>>)
                    \o flatMap(req.messages, claude_message_to_openai),
     tools |-> req.tools, tool_choice |-> None, limit |-> req.limit]

convert_openai_content_to_claude_blocks(parts) ==
    mapped(ofType(parts, TextTypes), LAMBDA p : part("text", p.text, None))

(* Content that is neither string nor array is written out as JSON.        *)
openai_content_to_claude(m) ==
    CASE m.content.form = "string" -> m.content
      [] m.content.form = "array" ->
            array(convert_openai_content_to_claude_blocks(m.content.parts))
      [] m.content.form = "null" -> string(Null)

openai_message_to_claude(m) ==
    LET content == openai_content_to_claude(m)
        blocks == if(content.form = "array" \/ joined(content.parts) # << >>, content.parts)
        calls == mapped(m.tool_calls, LAMBDA id : part("tool_use", << >>, id))
    IN CASE m.role = "tool" ->
              claudeMessage("user", array(<<part("tool_result", joined(m.content.parts), m.tool_call_id)>>))
         [] m.role # "tool" /\ m.tool_calls # << >> -> claudeMessage(m.role, array(blocks \o calls))
         [] OTHER -> claudeMessage(m.role, content)

extract_openai_text_content(m) == joined(ofType(m.content.parts, TextTypes))

openai_req_to_claude(req) ==
    [system |-> flatMap(SelectSeq(req.messages, LAMBDA m : m.role = "system"),
                        extract_openai_text_content),
     messages |-> mapped(SelectSeq(req.messages, LAMBDA m : m.role # "system"),
                         openai_message_to_claude),
     tools |-> Tools(req.tools, {"function"}), tool_choice |-> None,
     limit |-> IF req.limit = None THEN 8192 ELSE req.limit]

(* A message is cut at every call and result.                              *)
convert_claude_message_to_openai_responses_items(m) ==
    LET flush(s) == [s EXCEPT !.items = @ \o if(s.parts # << >>,
                                <<item("message", m.role, s.parts, None, None)>>),
                              !.parts = << >>]
        add(s, i) == [flush(s) EXCEPT !.items = Append(@, i)]
        type == IF m.role = "assistant" THEN "output_text" ELSE "input_text"
        step(s, b) ==
            CASE b.type = "text" -> [s EXCEPT !.parts = Append(@, part(type, b.text, None))]
              [] b.type = "image" -> [s EXCEPT !.parts = Append(@, part("input_image", << >>, None))]
              [] b.type = "tool_use" -> add(s, item("function_call", None, << >>, None, b.id))
              [] b.type = "tool_result" ->
                    add(s, item("function_call_output", None, <<part("text", b.text, None)>>, None, b.id))
              [] OTHER -> s
    IN flush(FoldLeft(step, [items |-> << >>, parts |-> << >>], m.content.parts)).items

(* Mutated form: only the first message is looked at.                     *)
first_has_claude_tool_result(messages) ==
    messages # << >> /\ ofType(messages[1].content.parts, {"tool_result"}) # << >>


has_claude_tool_result(messages) ==
    \E i \in 1..Len(messages) :
        /\ messages[i].content.form = "array"
        /\ ofType(messages[i].content.parts, {"tool_result"}) # << >>

map_claude_tool_choice_to_openai_responses(choice) == IF choice = "any" THEN "required" ELSE choice

claude_req_to_openai_responses(req) ==
    [system |-> req.system,
     messages |-> flatMap(req.messages, convert_claude_message_to_openai_responses_items),
     tools |-> req.tools,
     tool_choice |-> CASE req.tools = << >> -> None
                       [] req.tools # << >> /\ req.tool_choice # None ->
                             map_claude_tool_choice_to_openai_responses(req.tool_choice)
                       [] OTHER -> IF has_claude_tool_result(req.messages) THEN "auto" ELSE "required",
     limit |-> positive(req.limit)]

-----------------------------------------------------------------------------
(* Mutated form: texts of an assistant are not recognized.                *)
convert_input_text_to_claude(parts) ==
    array(mapped(ofType(parts, {"input_text"}), LAMBDA p : part("text", p.text, None)))


(* A message item with one text becomes a string.                          *)
convert_openai_responses_content_to_claude(parts) ==
    LET texts == mapped(ofType(parts, {"input_text", "output_text", "refusal"}),
                        LAMBDA p : part("text", p.text, None))
    IN IF Len(texts) = 1 THEN string(texts[1].text) ELSE array(texts)

call_id(i) == IF i.call_id # None THEN i.call_id ELSE i.id

(* Mutated form: calls stay gathered after they were written.             *)
flush_tool_uses_keeping(s) ==
    [s EXCEPT !.messages = @ \o if(s.uses # << >>, <<claudeMessage("assistant", array(s.uses))>>)]


(* Calls, and results, are gathered until the next item of another kind.   *)
flush_tool_uses(s) ==
    [s EXCEPT !.messages = @ \o if(s.uses # << >>, <<claudeMessage("assistant", array(s.uses))>>),
              !.uses = << >>]
flush_tool_results(s) ==
    [s EXCEPT !.messages = @ \o if(s.results # << >>, <<claudeMessage("user", array(s.results))>>),
              !.results = << >>]

responses_item_to_claude(s, i) ==
    LET f == flush_tool_results(flush_tool_uses(s))
        system == i.role \in {"developer", "system"}
    IN CASE i.type = "message" /\ system -> [f EXCEPT !.system = @ \o joined(i.content)]
         [] i.type = "message" /\ ~system ->
               [f EXCEPT !.messages = Append(@, claudeMessage(
                    IF i.role = "assistant" THEN "assistant" ELSE "user",
                    convert_openai_responses_content_to_claude(i.content)))]
         [] i.type = "function_call" ->
               [flush_tool_results(s) EXCEPT !.uses = Append(@, part("tool_use", << >>, call_id(i)))]
         [] i.type = "function_call_output" ->
               [flush_tool_uses(s) EXCEPT
                  !.results = Append(@, part("tool_result", joined(i.content), i.call_id))]
         [] OTHER -> s

openai_responses_req_to_claude(req) ==
    LET start == [messages |-> << >>, uses |-> << >>, results |-> << >>, system |-> req.system]
        end == flush_tool_results(flush_tool_uses(
                   FoldLeft(responses_item_to_claude, start, req.messages)))
    IN [system |-> end.system, messages |-> end.messages,
        tools |-> Tools(req.tools, {"function", "custom"}), tool_choice |-> None,
        limit |-> IF positive(req.limit) = None THEN 8192 ELSE req.limit]

-----------------------------------------------------------------------------
(* A message with tool calls leaves only the calls; only the last system   *)
(* message is kept.                                                        *)
chat_message_to_responses(m) ==
    CASE m.role = "system" -> << >>
      [] m.role = "assistant" /\ m.tool_calls # << >> ->
            mapped(m.tool_calls, LAMBDA id : item("function_call", None, << >>, id, id))
      [] m.role = "tool" ->
            <<item("function_call_output", None, m.content.parts, None, m.tool_call_id)>>
      [] OTHER ->
            <<item("message", m.role, mapped(ofType(m.content.parts, {"text"}),
                                             LAMBDA p : part("input_text", p.text, None)), None, None)>>

openai_chat_to_responses(req) ==
    LET systems == SelectSeq(req.messages, LAMBDA m : m.role = "system")
    IN [system |-> IF systems = << >> THEN << >> ELSE joined(systems[Len(systems)].content.parts),
        messages |-> flatMap(req.messages, chat_message_to_responses),
        tools |-> Tools(req.tools, {"function"}), tool_choice |-> None,
        limit |-> req.limit]

(* Mutated form: gathered calls are not written before the next item.     *)
flush_nothing(s) == s

flush_pending_tool_calls(s) ==
    [s EXCEPT !.messages = @ \o if(s.calls # << >>,
                                   <<chatMessage("assistant", null, s.calls, None)>>),
              !.calls = << >>]

responses_item_to_chat(s, i) ==
    LET f == flush_pending_tool_calls(s) IN
    CASE i.type = "message" ->
            [f EXCEPT !.messages = Append(@, chatMessage(i.role,
                string(joined(ofType(i.content, TextTypes))), << >>, None))]
      [] i.type = "function_call" -> [s EXCEPT !.calls = Append(@, call_id(i))]
      [] i.type = "function_call_output" ->
            [f EXCEPT !.messages = Append(@, chatMessage("tool",
                string(joined(i.content)), << >>, i.call_id))]
      [] OTHER -> s

openai_responses_req_to_chat(req) ==
    LET start == [messages |-> if(req.system # << >>,
                     <<chatMessage("system", string(req.system), << >>, None)>>), calls |-> << >>]
    IN [system |-> << >>,
        messages |-> flush_pending_tool_calls(FoldLeft(responses_item_to_chat, start, req.messages)).messages,
        tools |-> Tools(req.tools, {"function", "custom"}), tool_choice |-> None,
        limit |-> positive(req.limit)]

-----------------------------------------------------------------------------
(* Answers: the message or the items, and why it ended.                    *)
map_responses_stop_reason(status, has_tool_use, reason) ==
    CASE status = "completed" -> IF has_tool_use THEN "tool_use" ELSE "end_turn"
      [] status = "incomplete" ->
            IF reason \in {None, "max_output_tokens"} THEN "max_tokens" ELSE "end_turn"
      [] OTHER -> "end_turn"

claude_resp_to_openai(r) ==
    [message |-> chatMessage("assistant", string(joined(ofType(r.content, {"text"}))),
                    mapped(ofType(r.content, {"tool_use"}), LAMBDA b : b.id), None),
     finish_reason |-> CASE r.stop_reason = "tool_use" -> "tool_calls"
                         [] r.stop_reason = "max_tokens" -> "length" [] OTHER -> "stop"]

openai_resp_to_claude(r) ==
    [content |-> flatMap(ofType(r.message.content.parts, TextTypes), LAMBDA p : split_think_tagged_text(p.text))
                   \o mapped(r.message.tool_calls, LAMBDA id : part("tool_use", << >>, id)),
     stop_reason |-> CASE r.finish_reason = "tool_calls" -> "tool_use"
                       [] r.finish_reason = "length" -> "max_tokens" [] OTHER -> "end_turn"]

claude_resp_to_openai_responses(r) ==
    LET texts == mapped(ofType(r.content, {"text"}), LAMBDA b : part("output_text", b.text, None))
        calls == mapped(ofType(r.content, {"tool_use"}),
                        LAMBDA b : item("function_call", None, << >>, b.id, b.id))
    IN [output |-> if(texts # << >>, <<item("message", "assistant", texts, None, None)>>) \o calls,
        status |-> "completed", reason |-> None]

(* fallback is the id for tool calls written as text, allowed the declared *)
(* tools if the rule enables the fallback.                                 *)
responses_part_to_claude(p, allowed, fallback) ==
    CASE p.type = "output_text" /\ parse_text_tool_call_fallback(p.text, allowed) ->
            <<part("tool_use", << >>, fallback)>>
      [] p.type = "output_text" /\ ~parse_text_tool_call_fallback(p.text, allowed) ->
            split_think_tagged_text(p.text)
      [] p.type = "refusal" -> if(p.text # << >>, <<part("text", p.text, None)>>)
      [] OTHER -> << >>

openai_responses_resp_to_claude_with_options(r, allowed, fallback) ==
    LET blocks(i) ==
            CASE i.type = "message" ->
                    flatMap(i.content, LAMBDA p : responses_part_to_claude(p, allowed, fallback))
              [] i.type = "function_call" -> <<part("tool_use", << >>, call_id(i))>>
              [] i.type = "reasoning" ->
                    if(joined(i.content) # << >>, <<part("thinking", joined(i.content), None)>>)
              [] OTHER -> << >>
        content == flatMap(r.output, blocks)
    IN [content |-> content,
        stop_reason |-> map_responses_stop_reason(r.status,
                            ofType(content, {"tool_use"}) # << >>, r.reason)]

openai_responses_to_chat(r) ==
    LET texts == flatMap(SelectSeq(r.output, LAMBDA i : i.type = "message"),
                         LAMBDA i : joined(ofType(i.content, {"output_text"})))
        calls == mapped(SelectSeq(r.output, LAMBDA i : i.type = "function_call"), LAMBDA i : i.id)
        content == IF texts = << >> /\ calls # << >> THEN null ELSE string(texts)
    IN [message |-> chatMessage("assistant", content, calls, None),
        finish_reason |-> IF calls # << >> THEN "tool_calls" ELSE "stop"]

openai_chat_resp_to_responses(r) ==
    LET text == if(r.message.content.form = "string", joined(r.message.content.parts))
    IN [output |-> if(text # << >>, <<item("message", "assistant",
                                           <<part("output_text", text, None)>>, None, None)>>)
                     \o mapped(r.message.tool_calls,
                               LAMBDA id : item("function_call", None, << >>, id, id)),
        status |-> "completed", reason |-> None]
=============================================================================
