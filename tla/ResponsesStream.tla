--------------------------- MODULE ResponsesStream --------------------------
(***************************************************************************)
(* What may be seen of an answer streamed in the OpenAI Responses API: one *)
(* response.created, output items one at a time under ascending indexes,   *)
(* deltas only inside the open item and of its kind, the closing event of  *)
(* a function call repeating its arguments, and response.completed (or     *)
(* failed) when every item is done.                                        *)
(***************************************************************************)
EXTENDS Naturals, Sequences, FiniteSets

CONSTANT Indexes   \* output indexes

VARIABLE events

(* n is the number of argument deltas a closing event stands for.          *)
event(type, kind, index, n) ==
    [type |-> type, kind |-> kind, index |-> index, n |-> n]

last == events[Len(events)]
has(types) == \E i \in 1..Len(events) : events[i].type \in types
ended == has({"completed", "failed"})

added == {i \in 1..Len(events) : events[i].type = "item_added"}
isDone(i) == \E j \in i..Len(events) :
                events[j].type = "item_done" /\ events[j].index = events[i].index
openItems == {i \in added : ~isDone(i)}
since(i, type) == {j \in i..Len(events) : events[j].type = type}

send(e) == events' = Append(events, e)

Init == events = << >>

Created == events = << >> /\ send(event("created", "none", 0, 0))

ItemAdded ==
    /\ has({"created"}) /\ ~ended /\ openItems = {}
    /\ \E k \in {"message", "function_call", "reasoning"}, x \in Indexes :
          /\ \A i \in added : events[i].index < x
          /\ send(event("item_added", k, x, 0))

PartAdded ==
    \E i \in openItems :
        /\ events[i].kind = "message" /\ since(i, "part_added") = {}
        /\ send(event("part_added", "text", events[i].index, 0))

(* A delta of the open item.                                               *)
TextDelta ==
    \E i \in openItems :
        /\ since(i, "part_added") # {} /\ since(i, "text_done") = {}
        /\ send(event("text_delta", "text", events[i].index, 0))

ArgsDelta ==
    \E i \in openItems :
        /\ events[i].kind = "function_call" /\ since(i, "args_done") = {}
        /\ send(event("args_delta", "args", events[i].index, 0))

ReasoningDelta ==
    \E i \in openItems :
        /\ events[i].kind = "reasoning" /\ since(i, "reasoning_done") = {}
        /\ send(event("reasoning_delta", "reasoning", events[i].index, 0))

(* Closing events, in this order; the part of a message may be left to its *)
(* item.                                                                   *)
Closing ==
    \E i \in openItems :
        LET x == events[i].index IN
        \/ /\ since(i, "part_added") # {} /\ since(i, "text_done") = {}
           /\ send(event("text_done", "text", x, 0))
        \/ /\ since(i, "text_done") # {} /\ since(i, "part_done") = {}
           /\ send(event("part_done", "text", x, 0))
        \/ /\ events[i].kind = "function_call" /\ since(i, "args_done") = {}
           /\ send(event("args_done", "args", x, Cardinality(since(i, "args_delta"))))
        \/ /\ events[i].kind = "reasoning" /\ since(i, "reasoning_done") = {}
           /\ send(event("reasoning_done", "reasoning", x, 0))

ItemDone == \E i \in openItems :
    /\ since(i, "text_done") # {} \/ since(i, "args_done") # {} \/ since(i, "reasoning_done") # {}
    /\ send(event("item_done", events[i].kind, events[i].index, 0))

Ended ==
    /\ has({"created"}) /\ ~ended /\ openItems = {}
    /\ \E t \in {"completed", "failed"} : send(event(t, "none", 0, 0))

Done == ended /\ ~has({"done"}) /\ send(event("done", "none", 0, 0))

Next ==
    \/ Created \/ ItemAdded \/ PartAdded \/ TextDelta \/ ArgsDelta
    \/ ReasoningDelta \/ Closing \/ ItemDone \/ Ended \/ Done

Spec == Init /\ [][Next]_events
=============================================================================
