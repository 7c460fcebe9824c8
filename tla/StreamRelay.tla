----------------------------- MODULE StreamRelay ----------------------------
(***************************************************************************)
(* The task that relays one streamed answer: it reads chunks from the      *)
(* upstream, cuts them into SSE events, converts each event for the        *)
(* protocol of the client and sends the result through a bounded channel   *)
(* to the response body.  The upstream cuts its bytes anywhere and breaks  *)
(* off at will; the client reads at its own pace and goes away at will.    *)
(*                                                                         *)
(* An event of the upstream is two pieces, so that a chunk may end inside  *)
(* one.  A converter is reduced to what the relay tells apart: whether it  *)
(* needs whole events, whether it can fail, and what its finalizer does.   *)
(* The log and metrics the task also writes are in RequestPipeline.        *)
(***************************************************************************)
EXTENDS Naturals, Sequences

CONSTANTS
    Kinds,       \* converters, see KindsAssumption
    Cap,         \* capacity of the channel (32)
    MaxPieces,   \* bound on what the upstream sends
    MaxChunk,    \* largest chunk, in pieces
    MaxPending   \* MAX_SSE_PENDING_BYTES, in pieces

(* finalizer: "none", "once" (silent after the message was stopped) or     *)
(* "always" (stops a started message whenever it is called).  The one      *)
(* converter with a finalizer of the second sort,                          *)
(* openai_responses_stream_to_claude, skips what it cannot parse and never *)
(* fails.                                                                  *)
ASSUME KindsAssumption ==
    /\ Kinds \subseteq [buffered : BOOLEAN, fails : BOOLEAN,
                        finalizer : {"none", "once", "always"}]
    /\ Kinds # {}
    /\ \A k \in Kinds : k.finalizer = "once" => ~k.fails
    /\ Cap \in Nat \ {0} /\ MaxPieces \in Nat
    /\ MaxChunk \in Nat \ {0} /\ MaxPending \in Nat

VARIABLES
    kind,      \* the converter of this stream
    probe,     \* the first chunk must still look like SSE
    supply,    \* the upstream connection: "open", "eof" or "broken"
    read,      \* pieces read so far
    pending,   \* pieces in sse_pending
    started, stopped,  \* StreamContext: the message was started / stopped
    batch,     \* chunks waiting to be sent
    channel,   \* the mpsc channel
    rx,        \* its receiver: "open" or "closed"
    got,       \* what the client has received
    failed, closed,    \* stream_failed, downstream_closed
    pc,
    made       \* ghost: all the data the converter produced

vars == <<kind, probe, supply, read, pending, started, stopped, batch,
          channel, rx, got, failed, closed, pc, made>>

data(n) == [type |-> "data", at |-> n]
Stop == [type |-> "stop", at |-> 0]       \* message_stop
Broken == [type |-> "error", at |-> 0]    \* an error that ends the body

Init ==
    /\ kind \in Kinds
    /\ probe \in BOOLEAN
    /\ supply = "open"
    /\ read = 0 /\ pending = 0
    /\ started = FALSE /\ stopped = FALSE
    /\ batch = << >> /\ channel = << >> /\ got = << >> /\ made = << >>
    /\ rx = "open"
    /\ failed = FALSE /\ closed = FALSE
    /\ pc = "read"

-----------------------------------------------------------------------------
(* finalize_stream_transform, and two ways to get it wrong: no finalizer   *)
(* at all, or one that forgets that the message was stopped.               *)
FinalizerForgotten == << >>

FinalizerRepeated ==
    IF kind.finalizer # "none" /\ started THEN <<Stop>> ELSE << >>

Finalizer ==
    IF kind.finalizer # "none" /\ started
         /\ (kind.finalizer = "once" => ~stopped)
      THEN <<Stop>> ELSE << >>

(* The relay gives up: the finalizer of the converter, or an error when    *)
(* there is none, is the last thing sent.  What was converted from the     *)
(* same chunk is discarded.                                                *)
giveUp(next) ==
    /\ failed' = TRUE
    /\ batch' = IF Finalizer = << >> THEN <<Broken>> ELSE Finalizer
    /\ stopped' = (stopped \/ Finalizer # << >>)
    /\ pc' = next

(* A chunk arrives.                                                        *)
ReadChunk(n) ==
    /\ pc = "read" /\ supply = "open"
    /\ n \in 1..MaxChunk /\ read + n <= MaxPieces
    /\ read' = read + n
    /\ probe' = FALSE
    /\ \/ (* the probe fails: not SSE                                      *)
          /\ probe
          /\ failed' = TRUE /\ batch' = <<Broken>> /\ pc' = "send_last"
          /\ UNCHANGED <<pending, stopped, made>>
       \/ (* passed through as it is                                       *)
          /\ ~kind.buffered
          /\ batch' = <<data(read')>> /\ made' = Append(made, data(read'))
          /\ pc' = "send"
          /\ UNCHANGED <<pending, stopped, failed>>
       \/ (* "stream transform buffer overflow"                            *)
          /\ kind.buffered /\ pending + n > MaxPending
          /\ pending' = pending + n
          /\ giveUp("send_last")
          /\ UNCHANGED made
       \/ /\ kind.buffered /\ pending + n <= MaxPending
          /\ pending' = pending + n
          /\ batch' = << >>
          /\ pc' = "convert"
          /\ UNCHANGED <<stopped, failed, made>>
    /\ UNCHANGED <<kind, supply, started, channel, rx, got, closed>>

(* The result of converting one event, `upto` being its last piece: data   *)
(* (also the start of the message), nothing, or the end of the message.    *)
(* Of the upstream it is assumed that it sends nothing that converts to    *)
(* data after the end: the converters would pass it on.                    *)
converted(upto) ==
    \/ /\ ~stopped
       /\ batch' = Append(batch, data(upto)) /\ made' = Append(made, data(upto))
       /\ started' = TRUE /\ UNCHANGED stopped
    \/ UNCHANGED <<batch, made, started, stopped>>
    \/ /\ kind.finalizer # "none"
       /\ batch' = batch \o Finalizer
       /\ stopped' = (stopped \/ Finalizer # << >>)
       /\ UNCHANGED <<made, started>>

(* pop_sse_event and transform_sse_event, one event after the other.       *)
ConvertEvent ==
    /\ pc = "convert" /\ pending >= 2
    /\ pending' = pending - 2
    /\ \/ /\ converted(read - pending + 2)
          /\ UNCHANGED <<failed, pc>>
       \/ /\ kind.fails
          /\ giveUp("send_last")
          /\ UNCHANGED <<made, started>>
    /\ UNCHANGED <<kind, probe, supply, read, channel, rx, got, closed>>

ChunkConverted ==
    /\ pc = "convert" /\ pending < 2
    /\ pc' = "send"
    /\ UNCHANGED <<kind, probe, supply, read, pending, started, stopped,
                   batch, channel, rx, got, failed, closed, made>>

-----------------------------------------------------------------------------
(* tx.send().await: waits for room, fails once the receiver is gone.  Slips*)
(* would be: no look at the receiver, or a full channel drops.             *)
SendWithoutLooking ==
    /\ pc \in {"send", "send_tail", "send_last"} /\ batch # << >>
    /\ Len(channel) < Cap
    /\ channel' = Append(channel, Head(batch))
    /\ batch' = Tail(batch)
    /\ UNCHANGED <<kind, probe, supply, read, pending, started, stopped,
                   rx, got, failed, closed, pc, made>>

SendOrDrop ==
    /\ pc \in {"send", "send_tail", "send_last"} /\ batch # << >>
    /\ channel' = IF Len(channel) < Cap THEN Append(channel, Head(batch))
                  ELSE channel
    /\ batch' = Tail(batch)
    /\ UNCHANGED <<kind, probe, supply, read, pending, started, stopped,
                   rx, got, failed, closed, pc, made>>

Send ==
    /\ pc \in {"send", "send_tail", "send_last"} /\ batch # << >>
    /\ \/ /\ rx = "open" /\ Len(channel) < Cap
          /\ channel' = Append(channel, Head(batch))
          /\ batch' = Tail(batch)
          /\ UNCHANGED closed
       \/ /\ rx = "closed"
          /\ batch' = << >>
          /\ closed' = (closed \/ Head(batch) # Broken)
          /\ UNCHANGED channel
    /\ UNCHANGED <<kind, probe, supply, read, pending, started, stopped,
                   rx, got, failed, pc, made>>

(* Everything was sent: the loop goes on, or ends (metrics and the final   *)
(* log entry follow; the sender is dropped and with it the body ends).     *)
Sent ==
    /\ batch = << >>
    /\ \/ pc = "send" /\ pc' = IF closed THEN "done" ELSE "read"
       \/ pc = "send_tail" /\ pc' = "finalizer"
       \/ pc = "send_last" /\ pc' = "done"
    /\ UNCHANGED <<kind, probe, supply, read, pending, started, stopped,
                   batch, channel, rx, got, failed, closed, made>>

-----------------------------------------------------------------------------
(* The upstream ends: what is left in the buffer is converted as an event, *)
(* and the finalizer follows, also when that conversion failed and already *)
(* sent one.                                                               *)
ReadEof ==
    /\ pc = "read" /\ supply = "eof"
    /\ pending' = 0
    /\ \/ /\ pending = 0
          /\ batch' = << >> /\ pc' = "finalizer"
          /\ UNCHANGED <<made, started, stopped, failed>>
       \/ /\ pending > 0
          /\ converted(read)
          /\ pc' = "send_tail" /\ UNCHANGED failed
       \/ /\ pending > 0 /\ kind.fails
          /\ giveUp("send_tail")
          /\ UNCHANGED <<made, started>>
    /\ UNCHANGED <<kind, probe, supply, read, channel, rx, got, closed>>

EofFinalizer ==
    /\ pc = "finalizer"
    /\ batch' = IF closed THEN << >> ELSE Finalizer
    /\ stopped' = (stopped \/ (~closed /\ Finalizer # << >>))
    /\ pc' = "send_last"
    /\ UNCHANGED <<kind, probe, supply, read, pending, started, channel, rx,
                   got, failed, closed, made>>

ReadError ==
    /\ pc = "read" /\ supply = "broken"
    /\ giveUp("send_last")
    /\ UNCHANGED <<kind, probe, supply, read, pending, started, channel, rx,
                   got, closed, made>>

-----------------------------------------------------------------------------
(* The upstream and the client.                                            *)
UpstreamEnds ==
    /\ supply = "open"
    /\ supply' \in {"eof", "broken"}
    /\ UNCHANGED <<kind, probe, read, pending, started, stopped, batch,
                   channel, rx, got, failed, closed, pc, made>>

ClientReads ==
    /\ rx = "open" /\ channel # << >>
    /\ got' = Append(got, Head(channel))
    /\ channel' = Tail(channel)
    /\ UNCHANGED <<kind, probe, supply, read, pending, started, stopped,
                   batch, rx, failed, closed, pc, made>>

ClientCloses ==
    /\ rx = "open"
    /\ rx' = "closed" /\ channel' = << >>
    /\ UNCHANGED <<kind, probe, supply, read, pending, started, stopped,
                   batch, got, failed, closed, pc, made>>

TaskStep ==
    \/ \E n \in 1..MaxChunk : ReadChunk(n)
    \/ ConvertEvent \/ ChunkConverted \/ Send \/ Sent
    \/ ReadEof \/ EofFinalizer \/ ReadError

Next == TaskStep \/ UpstreamEnds \/ ClientReads \/ ClientCloses

Spec == Init /\ [][Next]_vars

(* The runtime polls the task; upstream and client owe nothing.            *)
FairSpec == Spec /\ WF_vars(TaskStep)

-----------------------------------------------------------------------------
Item == {Stop, Broken} \cup {data(n) : n \in 0..MaxPieces}
delivered == got \o channel
isPrefix(s, t) == Len(s) <= Len(t) /\ \A i \in 1..Len(s) : s[i] = t[i]

(* The type invariant, the bounds of the buffer and the channel included.  *)
TypeOK ==
    /\ kind \in Kinds
    /\ probe \in BOOLEAN
    /\ supply \in {"open", "eof", "broken"}
    /\ read \in 0..MaxPieces
    /\ pending \in 0..(MaxPending + MaxChunk)
    /\ started \in BOOLEAN /\ stopped \in BOOLEAN
    /\ batch \in Seq(Item) /\ channel \in Seq(Item)
    /\ Len(channel) <= Cap
    /\ rx \in {"open", "closed"}
    /\ got \in Seq(Item) /\ made \in Seq(Item)
    /\ failed \in BOOLEAN /\ closed \in BOOLEAN
    /\ pc \in {"read", "convert", "send", "send_tail", "finalizer",
               "send_last", "done"}

(* The client receives the converted data in order, without gap or repeat  *)
(* and before any error or stop, wherever the upstream cut its chunks, up  *)
(* to the point where the relay gave up: all it has received up to a piece *)
(* of data is what was converted first.                                    *)
DataInOrder ==
    \A i \in 1..Len(delivered) :
        delivered[i].type = "data" =>
            i <= Len(made) /\ \A j \in 1..i : delivered[j] = made[j]

(* A relay that reports success to a client that stayed has delivered all  *)
(* it converted, the unterminated last event included.                     *)
SuccessIsComplete ==
    pc = "done" /\ ~failed /\ rx = "open" => isPrefix(made, delivered)

(* A client that stayed can tell a failed relay from a complete one: the   *)
(* last thing it gets is an error or the stop of the message; and a Claude *)
(* client always gets the stop of a message that was started, except from  *)
(* a failed probe, before which nothing was.                               *)
FailureIsTerminated ==
    pc = "done" /\ rx = "open" =>
        /\ failed => /\ delivered # << >>
                     /\ delivered[Len(delivered)] \in {Stop, Broken}
        /\ kind.finalizer # "none" /\ started
              => \E i \in 1..Len(delivered) : delivered[i] = Stop

(* Only an error can follow the stop of a message, and nothing an error,   *)
(* whatever combination of terminator, tail, failure and end of file came  *)
(* together (for converters whose finalizer acts once).                    *)
TerminatorIsLast ==
    kind.finalizer # "always" =>
        \A i, j \in 1..Len(delivered) :
            i < j /\ delivered[i] \in {Stop, Broken} =>
                delivered[i] = Stop /\ delivered[j] = Broken

(* Once its client is gone and the upstream has ended, the task ends: it   *)
(* never waits for room in a channel nobody reads.                         *)
AbandonedTaskEnds == (rx = "closed" /\ supply # "open") ~> pc = "done"
=============================================================================
