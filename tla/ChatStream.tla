------------------------------ MODULE ChatStream ----------------------------
(***************************************************************************)
(* What a client of the OpenAI Chat Completions API may see of a streamed  *)
(* answer: the role once and before any text, arguments only of a tool     *)
(* call that was announced, one finish reason after all content, and       *)
(* "[DONE]" last.                                                          *)
(***************************************************************************)
EXTENDS Naturals, Sequences

CONSTANT Indexes   \* of choices and tool calls

VARIABLE events

event(type, index) == [type |-> type, index |-> index]

has(type) == \E i \in 1..Len(events) : events[i].type = type
announced == {events[i].index : i \in {j \in 1..Len(events) : events[j].type = "tool"}}
running == ~has("finish") /\ ~has("done")

send(e) == events' = Append(events, e)

Init == events = << >>

Role == running /\ ~has("role") /\ ~has("content") /\ send(event("role", 0))
Content == running /\ \E x \in Indexes : send(event("content", x))
Tool == running /\ \E x \in Indexes \ announced : send(event("tool", x))
Args == running /\ \E x \in announced : send(event("args", x))
Finish == running /\ \E x \in {0, 1} : send(event("finish", x))
Done == ~has("done") /\ send(event("done", 0))

Next == Role \/ Content \/ Tool \/ Args \/ Finish \/ Done

Spec == Init /\ [][Next]_events
=============================================================================
