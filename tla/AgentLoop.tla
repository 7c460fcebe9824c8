------------------------------ MODULE AgentLoop -----------------------------
(***************************************************************************)
(* A conversation through the converters.  A client of one API sends its   *)
(* whole history with every request; the proxy converts it for an upstream *)
(* of another API and converts the answer back; the client appends the     *)
(* answer, runs the tools it was told to call, appends their results and   *)
(* asks again, or its user speaks.                                         *)
(***************************************************************************)
EXTENDS Documents, FiniteSets

CONSTANTS
    MaxRequests,  \* bound on the requests of a conversation
    MaxCalls,     \* bound on the tool calls of one answer
    OddAnswers    \* how many answers, the first ones, may think or hold odd texts

ASSUME LoopAssumption == {MaxRequests, MaxCalls, OddAnswers} \subseteq Nat

VARIABLES
    conv,      \* the converter
    request,   \* what the client sends: its history, tools and limit
    seen,      \* the last request the upstream got, None before
    answer,    \* its answer
    received,  \* the answer the client got
    asked,     \* requests so far
    calls,     \* ids used for calls so far
    turn       \* "user", "client" (to send), "tools" (to run)

vars == <<conv, request, seen, answer, received, asked, calls, turn>>

Converters ==
    {[name |-> "cc_openai", client |-> "claude", upstream |-> "chat"],
     [name |-> "cc_openai2", client |-> "claude", upstream |-> "responses"],
     [name |-> "cx_chat_claude", client |-> "chat", upstream |-> "claude"],
     [name |-> "cx_chat_openai2", client |-> "chat", upstream |-> "responses"],
     [name |-> "cx_resp_claude", client |-> "responses", upstream |-> "claude"],
     [name |-> "cx_resp_openai", client |-> "responses", upstream |-> "chat"]}

(* transform_request and transform_response of the transformers.           *)
transform_request(c, req) ==
    CASE c = "cc_openai" -> claude_req_to_openai(req)
      [] c = "cc_openai2" -> claude_req_to_openai_responses(req)
      [] c = "cx_chat_claude" -> openai_req_to_claude(req)
      [] c = "cx_chat_openai2" -> openai_chat_to_responses(req)
      [] c = "cx_resp_claude" -> openai_responses_req_to_claude(req)
      [] c = "cx_resp_openai" -> openai_responses_req_to_chat(req)

extract_declared_tool_names(req) == {req.tools[i].name : i \in 1..Len(req.tools)}

transform_response(c, req, resp, fallback) ==
    CASE c = "cc_openai" -> openai_resp_to_claude(resp)
      [] c = "cc_openai2" -> openai_responses_resp_to_claude_with_options(
                                 resp, extract_declared_tool_names(req), fallback)
      [] c = "cx_chat_claude" -> claude_resp_to_openai(resp)
      [] c = "cx_chat_openai2" -> openai_responses_to_chat(resp)
      [] c = "cx_resp_claude" -> claude_resp_to_openai_responses(resp)
      [] c = "cx_resp_openai" -> openai_chat_resp_to_responses(resp)

-----------------------------------------------------------------------------
(* The client.                                                             *)
word(n) == <<token("word", n)>>
DeclaredTools == <<[kind |-> "function", name |-> 0], [kind |-> "function", name |-> 1]>>

(* Chat and Responses clients may send content as string or array.         *)
says(role, text) ==
    CASE conv.client = "claude" -> {claudeMessage(role, string(text)),
                                    claudeMessage(role, array(<<part("text", text, None)>>))}
      [] conv.client = "chat" -> {chatMessage(role, string(text), << >>, None),
                                  chatMessage(role, array(<<part("text", text, None)>>), << >>, None)}
      [] conv.client = "responses" ->
            {item("message", role, <<part("input_text", text, None)>>, None, None)}

result(id) ==
    CASE conv.client = "claude" -> part("tool_result", word(id), id)
      [] conv.client = "chat" -> chatMessage("tool", string(word(id)), << >>, id)
      [] conv.client = "responses" ->
            item("function_call_output", None, <<part("text", word(id), None)>>, None, id)

Init ==
    /\ conv \in Converters
    /\ request \in [system : {<< >>, word(0)}, messages : {<< >>}, tools : {<< >>, DeclaredTools},
                    tool_choice : {None}, limit : {None, 0, 100}]
    /\ request.system # << >> => conv.client # "chat" /\ request.limit # None
    /\ request.tools = << >> => request.limit # 0
    /\ seen = None /\ answer = None /\ received = None
    /\ asked = 0 /\ calls = 0 /\ turn = "user"

append(s) == request' = [request EXCEPT !.messages = @ \o s]

(* A chat client may send a further system message before its user speaks. *)
UserSpeaks ==
    /\ turn = "user" /\ asked < MaxRequests
    /\ \E m \in says("user", word(asked)) :
          \/ append(<<m>>)
          \/ conv.client # "claude" /\ append(<<CHOOSE s \in says("system", word(asked)) : TRUE, m>>)
    /\ turn' = "client"
    /\ UNCHANGED <<conv, seen, answer, received, asked, calls>>

(* The calls of an answer, which the client is to run.                     *)
toRun(r) ==
    CASE conv.client = "claude" -> mapped(ofType(r.content, {"tool_use"}), LAMBDA b : b.id)
      [] conv.client = "chat" -> r.message.tool_calls
      [] conv.client = "responses" ->
            mapped(SelectSeq(r.output, LAMBDA i : i.type = "function_call"),
                   LAMBDA i : i.call_id)

(* A Claude client sends the results in one message, maybe with a text.    *)
RunTools ==
    /\ turn = "tools" /\ asked < MaxRequests
    /\ LET results == mapped(toRun(received), result) IN
       IF conv.client = "claude"
         THEN \E also \in {<< >>, <<part("text", word(asked), None)>>} :
                 append(<<claudeMessage("user", array(results \o also))>>)
         ELSE append(results)
    /\ turn' = "client"
    /\ UNCHANGED <<conv, seen, answer, received, asked, calls>>

-----------------------------------------------------------------------------
(* The upstream: what it may say in a text, and its answers.               *)
Texts(n) ==
    {<< >>, word(n),
     <<token("<think>", 0), token("thought", n), token("</think>", 0)>> \o word(n),
     <<token("<think>", 0)>> \o word(n),
     <<token("[Tool Call:", 0), token("name(", 1), token("object-start", 0), token(")]", 0),
       token("object-end", 0), token(")]", 0)>>,
     <<token("[Tool Call:", 0), token("name(", 7), token("object", 0), token(")]", 0)>>,
     word(n) \o <<token("command", 0)>>}

ids(k) == [i \in 1..k |-> calls + i]

(* A Responses item has an id of its own beside the call id.  Upstreams    *)
(* say something first and call tools then.                                *)
ItemId(id) == id + 100

Answers(k, text, thinks) ==
    CASE conv.upstream = "claude" ->
            {[content |-> if(thinks, <<part("thinking", word(asked), None)>>)
                            \o if(text # << >>, <<part("text", text, None)>>)
                            \o mapped(ids(k), LAMBDA id : part("tool_use", << >>, id)),
              stop_reason |-> IF k > 0 THEN "tool_use" ELSE "end_turn"]}
      [] conv.upstream = "chat" ->
            {[message |-> chatMessage("assistant", IF text = << >> THEN null ELSE string(text),
                                      ids(k), None),
              finish_reason |-> IF k > 0 THEN "tool_calls" ELSE "stop"]}
      [] conv.upstream = "responses" ->
            {[output |-> if(thinks, <<item("reasoning", None, <<part("text", word(asked), None)>>, None, None)>>)
                           \o if(text # << >>, <<item("message", "assistant",
                                                      <<part(t, text, None)>>, None, None)>>)
                           \o mapped(ids(k), LAMBDA id : item("function_call", None, << >>, ItemId(id), id)),
              status |-> "completed", reason |-> None] : t \in {"output_text", "refusal"}}

(* How a client of its API remembers an answer; a chat client may write an *)
(* empty text as null.                                                     *)
remembers(r) ==
    CASE conv.client = "claude" -> {<<claudeMessage("assistant", array(r.content))>>}
      [] conv.client = "chat" ->
            {<<r.message>>} \cup
            IF joined(r.message.content.parts) = << >> /\ r.message.tool_calls # << >>
              THEN {<<[r.message EXCEPT !.content = null]>>} ELSE {}
      [] conv.client = "responses" -> {r.output}

(* One request and its answer.  An upstream required to call a tool does.  *)
Exchange ==
    /\ turn = "client" /\ asked < MaxRequests
    /\ seen' = transform_request(conv.name, request)
    /\ \E k \in 0..MaxCalls, text \in Texts(asked), thinks \in BOOLEAN :
          /\ k > 0 => request.tools # << >>
          /\ asked >= OddAnswers => ~thinks /\ text \in {<< >>, word(asked)}
          /\ k = 0 => text # << >> /\ seen'.tool_choice # "required"
          /\ conv.upstream # "responses" \/ thinks => text = << >> \/ Len(text) < 5
          /\ \E a \in Answers(k, text, thinks) :
                /\ answer' = a
                /\ received' = transform_response(conv.name, request, a, calls + k + 1)
                /\ \E m \in remembers(received') : append(m)
          /\ calls' = calls + k + 1
    /\ asked' = asked + 1
    /\ turn' = IF toRun(received') = << >> THEN "user" ELSE "tools"
    /\ UNCHANGED conv

Next == UserSpeaks \/ RunTools \/ Exchange

Spec == Init /\ [][Next]_vars

-----------------------------------------------------------------------------
(* What a document says: system, user and assistant texts, calls and       *)
(* results in order.                                                       *)
utterance(who, text, id) == [who |-> who, text |-> text, id |-> id]
utterances(who, text) == mapped(text, LAMBDA t : utterance(who, <<t>>, None))

ofPart(role, p) ==
    CASE p.type \in TextTypes \cup {"refusal"} -> utterances(role, p.text)
      [] p.type = "tool_use" -> <<utterance("call", << >>, p.id)>>
      [] p.type = "tool_result" -> <<utterance("result", p.text, p.id)>>
      [] OTHER -> << >>

claudeMeaning(m) == flatMap(m.content.parts, LAMBDA p : ofPart(m.role, p))

chatMeaning(m) ==
    IF m.role = "tool" THEN <<utterance("result", joined(m.content.parts), m.tool_call_id)>>
    ELSE flatMap(m.content.parts, LAMBDA p : ofPart(m.role, p))
           \o mapped(m.tool_calls, LAMBDA id : utterance("call", << >>, id))

itemMeaning(i) ==
    CASE i.type = "message" -> flatMap(i.content, LAMBDA p : ofPart(i.role, p))
      [] i.type = "function_call" -> <<utterance("call", << >>, call_id(i))>>
      [] i.type = "function_call_output" -> <<utterance("result", joined(i.content), i.call_id)>>
      [] OTHER -> << >>

(* Calls are told apart by their order: a result names the latest call     *)
(* before it that has its id, 0 if there is none.                          *)
numbered(us) ==
    LET callsUpTo(n) == {j \in 1..n : us[j].who = "call"}
        ordinal(n, id) ==
            LET same == {j \in callsUpTo(n) : us[j].id = id}
            IN IF same = {} THEN 0 ELSE Cardinality(callsUpTo(CHOOSE j \in same : \A k \in same : k <= j))
    IN [n \in 1..Len(us) |->
          IF us[n].who \in {"call", "result"} THEN [us[n] EXCEPT !.id = ordinal(n, us[n].id)] ELSE us[n]]

spoken(protocol, messages) ==
    CASE protocol = "claude" -> flatMap(messages, claudeMeaning)
      [] protocol = "chat" -> flatMap(messages, chatMeaning)
      [] protocol = "responses" -> flatMap(messages, itemMeaning)

(* System messages count as one, ahead of the rest.                        *)
meaning(protocol, req) ==
    LET us == spoken(protocol, req.messages)
        isSystem(u) == u.who \in {"system", "developer"}
    IN utterances("system", req.system) \o SelectSeq(us, isSystem)
         \o numbered(SelectSeq(us, LAMBDA u : ~isSystem(u)))

(* The client's request that led to the last answer.                       *)
sentRequest ==
    [request EXCEPT !.messages = SubSeq(@, 1, Len(@) - Len(CHOOSE m \in remembers(received) : TRUE))]

justAnswered == seen # None /\ turn \in {"user", "tools"}

(* Where a converter is known to change what is said: the text after tool  *)
(* results comes before them (cc_openai); a thought alone becomes a text   *)
(* (cc_openai); null becomes a text (cx_chat_claude); the text beside tool *)
(* calls and all but the last system message are dropped                   *)
(* (cx_chat_openai2).                                                      *)
KnownToDeviate(req) ==
    LET some(P(_)) == \E i \in 1..Len(req.messages) : P(req.messages[i])
        partOf(m, types) == ofType(m.content.parts, types) # << >>
    IN CASE conv.name = "cc_openai" ->
               some(LAMBDA m : \/ partOf(m, {"tool_result"}) /\ partOf(m, {"text"})
                               \/ m.role = "assistant" /\ ~partOf(m, {"text", "tool_use"}))
         [] conv.name = "cx_chat_claude" -> some(LAMBDA m : m.content.form = "null")
         [] conv.name = "cx_chat_openai2" ->
               \/ req.system # << >> /\ some(LAMBDA m : m.role = "system")
               \/ some(LAMBDA m : m.tool_calls # << >> /\ m.content.parts # << >>)
               \/ Len(SelectSeq(req.messages, LAMBDA m : m.role = "system")) > 1
         [] OTHER -> FALSE

(* The upstream reads in the converted request what the client said, in    *)
(* the same order and from the same speakers.                              *)
MeaningPreserved ==
    justAnswered /\ ~KnownToDeviate(sentRequest) =>
        meaning(conv.upstream, seen) = meaning(conv.client, sentRequest)

(* Whatever else a converter changes, the upstream sees every call and     *)
(* every result of the conversation once, in order, and each result is of  *)
(* the call it was of, however ids were renamed on the way.                *)
ToolChainPreserved ==
    justAnswered =>
        LET chain(us) == SelectSeq(us, LAMBDA u : u.who \in {"call", "result"})
        IN chain(meaning(conv.upstream, seen)) = chain(meaning(conv.client, sentRequest))

(* The text of an answer a Claude client should see: without what is       *)
(* between thinking tags, and without the tags.                            *)
visible(text) ==
    LET tagged(i) == \E o, c \in 1..Len(text) :
                        o <= i /\ i <= c /\ text[o].tok = "<think>" /\ text[c].tok = "</think>"
    IN FlattenSeq([i \in 1..Len(text) |->
          IF tagged(i) \/ text[i].tok = "<think>" THEN << >> ELSE <<text[i]>>])

isCall(p) == p.type = "output_text"
               /\ parse_text_tool_call_fallback(p.text, extract_declared_tool_names(request))

(* The client gets the text and then the calls of the answer, the same     *)
(* ones in the same order, by the ids it has to answer them with (those of *)
(* the items for cx_chat_openai2).  A tool call written as text counts as  *)
(* a call where the fallback applies; for a Claude client the tags of      *)
(* thinking are gone.  A refusal reaches a Claude client as it is and a    *)
(* chat client not at all: openai_responses_to_chat drops it.  The client  *)
(* is told to run tools exactly when there are some.                       *)
AnswerPreserved ==
    justAnswered =>
        LET source == CASE conv.upstream = "claude" -> claudeMeaning(claudeMessage("assistant", array(answer.content)))
                        [] conv.upstream = "chat" -> chatMeaning(answer.message)
                        [] conv.upstream = "responses" -> flatMap(answer.output, itemMeaning)
            target == CASE conv.client = "claude" -> claudeMeaning(claudeMessage("assistant", array(received.content)))
                        [] conv.client = "chat" -> chatMeaning(received.message)
                        [] conv.client = "responses" -> flatMap(received.output, itemMeaning)
            text == flatMap(SelectSeq(source, LAMBDA u : u.who = "assistant"), LAMBDA u : u.text)
            called(us) == SelectSeq(us, LAMBDA u : u.who = "call")
            parts == if(conv.upstream = "responses", flatMap(answer.output, LAMBDA i : i.content))
            asCall == conv.client = "claude" /\ \E i \in 1..Len(parts) : isCall(parts[i])
            refused == \E i \in 1..Len(parts) : parts[i].type = "refusal"
            shown == CASE asCall -> << >>
                       [] conv.client = "claude" /\ ~asCall /\ ~refused -> visible(text)
                       [] conv.client = "chat" /\ refused -> << >>
                       [] OTHER -> text
            known(u) == IF conv.name = "cx_chat_openai2" THEN [u EXCEPT !.id = ItemId(@)] ELSE u
        IN /\ target = utterances("assistant", shown)
                         \o if(asCall, <<utterance("call", << >>, calls)>>)
                         \o mapped(called(source), known)
           /\ conv.client = "claude" => (received.stop_reason = "tool_use") = (called(target) # << >>)
           /\ conv.client = "chat" => (received.finish_reason = "tool_calls") = (called(target) # << >>)

(* The loop can end: once the client has sent a result, the upstream is    *)
(* not required to call a tool again; and a limit the client set, or the   *)
(* one Claude requires, reaches the upstream.                              *)
LoopCanEnd ==
    justAnswered =>
        /\ (\E i \in 1..Len(spoken(conv.client, sentRequest.messages)) :
               spoken(conv.client, sentRequest.messages)[i].who = "result")
              => seen.tool_choice # "required"
        /\ positive(request.limit) # None => seen.limit = request.limit
        /\ conv.upstream = "claude" => seen.limit # None
=============================================================================
