----------------------------- MODULE ClaudeStream ---------------------------
(***************************************************************************)
(* What a client of the Claude Messages API may see of a streamed answer:  *)
(* one message_start, content blocks one at a time and numbered from 0 in  *)
(* order, deltas only inside the open block and of its kind, message_delta *)
(* between start and stop, and message_stop when every block is closed.    *)
(***************************************************************************)
EXTENDS Naturals, Sequences, FiniteSets

VARIABLE events    \* what the client has received

event(type, kind, index) == [type |-> type, kind |-> kind, index |-> index]

has(type) == \E i \in 1..Len(events) : events[i].type = type
started == has("message_start")
stopped == has("message_stop")

(* The blocks started so far, by the index the client knows them under.    *)
blocks == {i \in 1..Len(events) : events[i].type = "content_block_start"}

isOpen(i) == \A j \in i..Len(events) :
                ~(events[j].type = "content_block_stop"
                    /\ events[j].index = events[i].index)

openBlocks == {i \in blocks : isOpen(i)}

send(e) == events' = Append(events, e)

Init == events = << >>

MessageStart == events = << >> /\ send(event("message_start", "none", 0))

BlockStart ==
    /\ started /\ ~stopped /\ openBlocks = {}
    /\ \E k \in {"text", "thinking", "tool_use"} :
          send(event("content_block_start", k, Cardinality(blocks)))

BlockDelta ==
    \E i \in openBlocks :
        send(event("content_block_delta", events[i].kind, events[i].index))

BlockStop ==
    \E i \in openBlocks : send(event("content_block_stop", "none", events[i].index))

(* The stop reason (of kind "stop") or usage figures.                      *)
MessageDelta ==
    /\ started /\ ~stopped
    /\ \E k \in {"stop", "usage"} : send(event("message_delta", k, 0))

(* A client ignores what follows the stop, a second stop included.         *)
MessageStop ==
    started /\ openBlocks = {} /\ send(event("message_stop", "none", 0))

Next ==
    \/ MessageStart \/ BlockStart \/ BlockDelta \/ BlockStop
    \/ MessageDelta \/ MessageStop

Spec == Init /\ [][Next]_events
=============================================================================
