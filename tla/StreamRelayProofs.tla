-------------------------- MODULE StreamRelayProofs -------------------------
(***************************************************************************)
(* Wherever the upstream cuts its bytes and whoever breaks off first, the  *)
(* client of a relay gets the converted data in order, all of it when the  *)
(* relay succeeds, and a terminator when it does not.                      *)
(***************************************************************************)
EXTENDS StreamRelay, SequenceTheorems, TLAPS

USE KindsAssumption

(* What the client has, will find in the channel and is about to be sent;  *)
(* after it has left, only what it has.                                    *)
stream == IF rx = "open" THEN (got \o channel) \o batch ELSE got

Ordered(s, m) ==
    \A i \in 1..Len(s) :
        s[i].type = "data" => i <= Len(m) /\ \A j \in 1..i : s[j] = m[j]

Terminated(s) ==
    \A i, j \in 1..Len(s) :
        i < j /\ s[i] \in {Stop, Broken} => s[i] = Stop /\ s[j] = Broken

(* Where the flags of the task stand at each of its places.                *)
ControlInv ==
    /\ pc \in {"read", "finalizer", "done"} => batch = << >>
    /\ pc \in {"read", "convert", "send"} => ~failed
    /\ pc \in {"read", "convert"} => ~closed
    /\ closed => rx = "closed"
    /\ rx = "closed" => channel = << >>
    /\ pending <= read
    /\ ~failed => pending <= MaxPending
    /\ probe => ~started /\ read = 0 /\ pc # "convert"
    /\ stopped => started /\ kind.finalizer # "none"
    /\ ~kind.buffered => ~started /\ pending = 0
    /\ kind.finalizer = "once" /\ failed => pc \notin {"send_tail", "finalizer"}
    /\ pc \in {"send_last", "done"} /\ rx = "open" /\ kind.finalizer # "none" /\ started
          => stopped

(* What the stream looks like, whether or not the client has got it.       *)
StreamInv ==
    /\ stream \in Seq(Item)
    /\ Ordered(stream, made)
    /\ ~failed /\ rx = "open" => isPrefix(made, stream)
    /\ \A i \in 1..Len(stream) : /\ stream[i] = Stop => stopped
                                 /\ stream[i] = Broken => failed
    /\ failed /\ rx = "open" => /\ stream # << >>
                                /\ stream[Len(stream)] \in {Stop, Broken}
    /\ kind.finalizer # "always" => Terminated(stream)
    /\ stopped /\ rx = "open" => \E i \in 1..Len(stream) : stream[i] = Stop

IndInv == TypeOK /\ ControlInv /\ StreamInv
-----------------------------------------------------------------------------
(* The finalizer has something to say.                                     *)
Speaks == kind.finalizer # "none" /\ started /\ (kind.finalizer = "once" => ~stopped)

\* What the finalizer of a converter sends.
LEMMA FinalizerFacts ==
    /\ Speaks => Finalizer = <<Stop>>
    /\ ~Speaks => Finalizer = << >>
    /\ <<Stop>> # << >>
BY DEF Finalizer, Speaks

(* What giving up does: the finalizer, or an error, replaces the batch.    *)
LEMMA GiveUpFacts ==
    ASSUME TypeOK, NEW next, giveUp(next)
    PROVE  /\ failed' = TRUE /\ pc' = next
           /\ \/ Speaks /\ batch' = <<Stop>> /\ stopped' = TRUE
              \/ ~Speaks /\ batch' = <<Broken>> /\ stopped' = stopped
<1>1. CASE Speaks
  BY <1>1, FinalizerFacts DEF giveUp, TypeOK
<1>2. CASE ~Speaks
  BY <1>2, FinalizerFacts DEF giveUp, TypeOK
<1>3. QED
  BY <1>1, <1>2

(* What the conversion of an event does.                                   *)
LEMMA ConvertedFacts ==
    ASSUME TypeOK, NEW n, converted(n)
    PROVE  \/ /\ ~stopped /\ stopped' = stopped /\ started' = TRUE
              /\ batch' = Append(batch, data(n)) /\ made' = Append(made, data(n))
           \/ UNCHANGED <<batch, made, started, stopped>>
           \/ /\ Speaks /\ UNCHANGED <<made, started>>
              /\ batch' = batch \o <<Stop>> /\ stopped' = TRUE
<1>1. CASE /\ kind.finalizer # "none"
           /\ batch' = batch \o Finalizer
           /\ stopped' = (stopped \/ Finalizer # << >>)
           /\ UNCHANGED <<made, started>>
  <2>1. CASE Speaks
    BY <1>1, <2>1, FinalizerFacts DEF TypeOK
  <2>2. CASE ~Speaks
    <3>1. batch \o << >> = batch
      BY ConcatEmptySeq DEF TypeOK
    <3>2. QED
      BY <1>1, <2>2, <3>1, FinalizerFacts DEF TypeOK
  <2>3. QED
    BY <2>1, <2>2
<1>2. QED
  BY <1>1 DEF converted

(* Pieces, terminators and one-element sequences of them.                  *)
LEMMA ItemFacts ==
    /\ Stop \in Item /\ Broken \in Item /\ \A n \in 0..MaxPieces : data(n) \in Item
    /\ Stop # Broken
    /\ \A x \in Item : x.type = "data" <=> x \notin {Stop, Broken}
    /\ << >> \in Seq(Item) /\ \A x \in Item : <<x>> \in Seq(Item)
    /\ \A n : data(n).type = "data"
<1>1. Stop \in Item /\ Broken \in Item /\ \A n \in 0..MaxPieces : data(n) \in Item
  BY DEF Item
<1>2. Stop # Broken
  BY DEF Stop, Broken
<1>3. \A x \in Item : x.type = "data" <=> x \notin {Stop, Broken}
  BY DEF Item, Stop, Broken, data
<1>4. << >> \in Seq(Item) /\ \A x \in Item : <<x>> \in Seq(Item)
  BY EmptySeq
<1>5. \A n : data(n).type = "data"
  BY DEF data
<1>6. QED
  BY <1>1, <1>2, <1>3, <1>4, <1>5

-----------------------------------------------------------------------------
(* Every step preserves the types, the bounds of the buffer and of the     *)
(* channel included.                                                       *)
LEMMA TypeStep == TypeOK /\ ControlInv /\ [Next]_vars => TypeOK'
<1> SUFFICES ASSUME TypeOK, ControlInv, [Next]_vars PROVE TypeOK'
  OBVIOUS
<1> USE DEF TypeOK
<1>1. ASSUME NEW n \in 1..MaxChunk, ReadChunk(n) PROVE TypeOK'
  <2>0. pending <= MaxPending
    BY <1>1 DEF ReadChunk, ControlInv
  <2>1. read' \in 0..MaxPieces /\ pending + n \in 0..(MaxPending + MaxChunk)
    BY <1>1, <2>0 DEF ReadChunk
  <2>2. CASE /\ failed' = TRUE /\ batch' = <<Broken>> /\ pc' = "send_last"
             /\ UNCHANGED <<pending, stopped, made>>
    BY <1>1, <2>1, <2>2, ItemFacts DEF ReadChunk
  <2>3. CASE /\ batch' = <<data(read')>> /\ made' = Append(made, data(read'))
             /\ pc' = "send"
             /\ UNCHANGED <<pending, stopped, failed>>
    <3>1. data(read') \in Item
      BY <2>1, ItemFacts
    <3>2. made' \in Seq(Item) /\ batch' \in Seq(Item)
      BY <2>3, <3>1, ItemFacts, AppendProperties
    <3>3. QED
      BY <1>1, <2>1, <2>3, <3>2 DEF ReadChunk
  <2>4. CASE /\ pending' = pending + n /\ giveUp("send_last") /\ UNCHANGED made
    BY <1>1, <2>1, <2>4, GiveUpFacts, ItemFacts DEF ReadChunk
  <2>5. CASE /\ pending' = pending + n /\ batch' = << >> /\ pc' = "convert"
             /\ UNCHANGED <<stopped, failed, made>>
    BY <1>1, <2>1, <2>5, ItemFacts DEF ReadChunk
  <2>6. QED
    BY <1>1, <2>2, <2>3, <2>4, <2>5 DEF ReadChunk
<1>c. ASSUME NEW n \in 0..MaxPieces, converted(n)
      PROVE  /\ batch' \in Seq(Item) /\ made' \in Seq(Item)
             /\ started' \in BOOLEAN /\ stopped' \in BOOLEAN
  <2>1. data(n) \in Item
    BY ItemFacts
  <2>2. Append(batch, data(n)) \in Seq(Item) /\ Append(made, data(n)) \in Seq(Item)
    BY <2>1, AppendProperties
  <2>3. batch \o <<Stop>> \in Seq(Item)
    BY ItemFacts, ConcatProperties
  <2>4. QED
    BY <1>c, <2>2, <2>3, ConvertedFacts
<1>2. CASE ConvertEvent
  <2>1. pending' \in 0..(MaxPending + MaxChunk) /\ read - pending + 2 \in 0..MaxPieces
    BY <1>2 DEF ConvertEvent, ControlInv
  <2>2. CASE converted(read - pending + 2) /\ UNCHANGED <<failed, pc>>
    BY <1>2, <2>1, <2>2, <1>c DEF ConvertEvent
  <2>3. CASE giveUp("send_last") /\ UNCHANGED <<made, started>>
    BY <1>2, <2>1, <2>3, GiveUpFacts, ItemFacts DEF ConvertEvent
  <2>4. QED
    BY <1>2, <2>2, <2>3 DEF ConvertEvent
<1>3. CASE ChunkConverted
  BY <1>3 DEF ChunkConverted
<1>4. CASE Send
  <2>1. Head(batch) \in Item /\ Tail(batch) \in Seq(Item)
    BY <1>4, HeadTailProperties DEF Send
  <2>2. CASE /\ rx = "open" /\ Len(channel) < Cap
             /\ channel' = Append(channel, Head(batch))
             /\ batch' = Tail(batch) /\ UNCHANGED closed
    <3>1. channel' \in Seq(Item) /\ Len(channel') = Len(channel) + 1
      BY <2>1, <2>2, AppendProperties
    <3>2. Len(channel') <= Cap
      BY <2>2, <3>1, LenProperties
    <3>3. QED
      BY <1>4, <2>1, <2>2, <3>1, <3>2 DEF Send
  <2>3. CASE /\ rx = "closed" /\ batch' = << >>
             /\ closed' = (closed \/ Head(batch) # Broken)
             /\ UNCHANGED channel
    <3>1. closed' \in BOOLEAN
      BY <2>3, Zenon
    <3>2. QED
      BY <1>4, <2>3, <3>1, ItemFacts DEF Send
  <2>4. QED
    BY <1>4, <2>2, <2>3 DEF Send
<1>5. CASE Sent
  BY <1>5 DEF Sent
<1>6. CASE ReadEof
  <2>1. pending' \in 0..(MaxPending + MaxChunk)
    BY <1>6 DEF ReadEof
  <2>2. CASE /\ batch' = << >> /\ pc' = "finalizer"
             /\ UNCHANGED <<made, started, stopped, failed>>
    BY <1>6, <2>1, <2>2, ItemFacts DEF ReadEof
  <2>3. CASE converted(read) /\ pc' = "send_tail" /\ UNCHANGED failed
    BY <1>6, <2>1, <2>3, <1>c DEF ReadEof
  <2>4. CASE giveUp("send_tail") /\ UNCHANGED <<made, started>>
    BY <1>6, <2>1, <2>4, GiveUpFacts, ItemFacts DEF ReadEof
  <2>5. QED
    BY <1>6, <2>2, <2>3, <2>4 DEF ReadEof
<1>7. CASE EofFinalizer
  <2>1. batch' \in Seq(Item)
    BY <1>7, FinalizerFacts, ItemFacts DEF EofFinalizer
  <2>2. stopped' \in BOOLEAN
    BY <1>7, Zenon DEF EofFinalizer
  <2>3. QED
    BY <1>7, <2>1, <2>2 DEF EofFinalizer
<1>8. CASE ReadError
  BY <1>8, GiveUpFacts, ItemFacts DEF ReadError
<1>9. CASE UpstreamEnds
  BY <1>9 DEF UpstreamEnds
<1>10. CASE ClientReads
  <2>1. /\ Head(channel) \in Item /\ Tail(channel) \in Seq(Item)
        /\ Len(Tail(channel)) = Len(channel) - 1
    BY <1>10, HeadTailProperties DEF ClientReads
  <2>2. Append(got, Head(channel)) \in Seq(Item)
    BY <2>1, AppendProperties
  <2>3. Len(Tail(channel)) <= Cap
    BY <2>1, LenProperties
  <2>4. QED
    BY <1>10, <2>1, <2>2, <2>3 DEF ClientReads
<1>11. CASE ClientCloses
  BY <1>11, ItemFacts, EmptySeq DEF ClientCloses
<1>12. CASE UNCHANGED vars
  BY <1>12 DEF vars
<1>13. QED
  BY <1>1, <1>2, <1>3, <1>4, <1>5, <1>6, <1>7, <1>8, <1>9, <1>10, <1>11, <1>12
  DEF Next, TaskStep
(* Every step keeps the flags of the task where its places say.            *)
LEMMA ControlStep == TypeOK /\ ControlInv /\ [Next]_vars => ControlInv'
<1> SUFFICES ASSUME TypeOK, ControlInv, [Next]_vars PROVE ControlInv'
  OBVIOUS
<1>k. /\ kind \in Kinds /\ kind.finalizer \in {"none", "once", "always"}
      /\ kind.buffered \in BOOLEAN /\ (kind.finalizer = "once" => ~kind.fails)
  BY DEF TypeOK
<1>t. /\ read \in Nat /\ pending \in Nat /\ MaxPending \in Nat
      /\ stopped \in BOOLEAN /\ started \in BOOLEAN /\ failed \in BOOLEAN /\ closed \in BOOLEAN
  BY DEF TypeOK
<1>s. stopped => started /\ kind.finalizer # "none"
  BY DEF ControlInv
<1>g. ASSUME NEW next, giveUp(next)
      PROVE  /\ failed' = TRUE /\ pc' = next /\ stopped' \in BOOLEAN
             /\ stopped' => started /\ kind.finalizer # "none"
             /\ kind.finalizer # "none" /\ started => stopped'
  <2>1. /\ failed' = TRUE /\ pc' = next
        /\ \/ Speaks /\ stopped' = TRUE
           \/ ~Speaks /\ stopped' = stopped
    BY <1>g, GiveUpFacts
  <2>2. CASE Speaks /\ stopped' = TRUE
    BY <2>1, <2>2 DEF Speaks
  <2>3. CASE ~Speaks /\ stopped' = stopped
    <3>1. kind.finalizer # "none" /\ started => stopped
      BY <1>t, <2>3, Zenon DEF Speaks
    <3>2. QED
      BY <1>t, <1>s, <2>1, <2>3, <3>1
  <2>4. QED
    BY <2>1, <2>2, <2>3
<1>c. ASSUME NEW n, converted(n)
      PROVE  /\ stopped' \in BOOLEAN /\ started' \in BOOLEAN /\ (started => started')
             /\ stopped' => started' /\ kind.finalizer # "none"
  <2>1. \/ ~stopped /\ stopped' = stopped /\ started' = TRUE
        \/ UNCHANGED <<started, stopped>>
        \/ Speaks /\ started' = started /\ stopped' = TRUE
    BY <1>c, ConvertedFacts
  <2>2. CASE Speaks /\ started' = started /\ stopped' = TRUE
    BY <1>t, <2>2 DEF Speaks
  <2>3. CASE ~stopped /\ stopped' = stopped /\ started' = TRUE
    BY <1>t, <2>3
  <2>4. CASE UNCHANGED <<started, stopped>>
    BY <1>t, <1>s, <2>4
  <2>5. QED
    BY <2>1, <2>2, <2>3, <2>4
<1> USE DEF ControlInv
<1>1. ASSUME NEW n \in 1..MaxChunk, ReadChunk(n) PROVE ControlInv'
  <2>0. n \in Nat /\ pending + n <= read + n /\ read' = read + n /\ probe' = FALSE
    BY <1>1, <1>t DEF ReadChunk
  <2>1. CASE /\ probe /\ failed' = TRUE /\ batch' = <<Broken>> /\ pc' = "send_last"
             /\ UNCHANGED <<pending, stopped, made>>
    BY <1>1, <1>k, <1>t, <2>0, <2>1 DEF ReadChunk
  <2>2. CASE /\ ~kind.buffered /\ pc' = "send"
             /\ UNCHANGED <<pending, stopped, failed>>
    BY <1>1, <1>k, <1>t, <2>0, <2>2 DEF ReadChunk
  <2>3. CASE /\ kind.buffered /\ pending' = pending + n /\ giveUp("send_last") /\ UNCHANGED made
    <3>1. /\ failed' = TRUE /\ pc' = "send_last" /\ stopped' \in BOOLEAN
          /\ stopped' => started /\ kind.finalizer # "none"
          /\ kind.finalizer # "none" /\ started => stopped'
      BY <2>3, <1>g
    <3>2. UNCHANGED <<kind, started, channel, rx, closed>>
      BY <1>1 DEF ReadChunk
    <3>3. pending' <= read'
      BY <2>0, <2>3
    <3>4. QED
      BY <1>1, <1>k, <1>t, <2>0, <2>3, <3>1, <3>2, <3>3 DEF ReadChunk
  <2>4. CASE /\ kind.buffered /\ pending + n <= MaxPending
             /\ pending' = pending + n /\ batch' = << >> /\ pc' = "convert"
             /\ UNCHANGED <<stopped, failed, made>>
    BY <1>1, <1>k, <1>t, <2>0, <2>4 DEF ReadChunk
  <2>5. QED
    BY <1>1, <2>1, <2>2, <2>3, <2>4 DEF ReadChunk
<1>2. CASE ConvertEvent
  <2>0. /\ pending' <= read /\ pending' <= MaxPending /\ kind.buffered /\ read' = read
        /\ ~probe
    BY <1>2, <1>k, <1>t DEF ConvertEvent
  <2>1. CASE converted(read - pending + 2) /\ UNCHANGED <<failed, pc>>
    BY <1>2, <1>k, <1>t, <2>0, <2>1, <1>c DEF ConvertEvent
  <2>2. CASE kind.fails /\ giveUp("send_last") /\ UNCHANGED <<made, started>>
    <3>1. /\ failed' = TRUE /\ pc' = "send_last" /\ stopped' \in BOOLEAN
          /\ stopped' => started /\ kind.finalizer # "none"
          /\ kind.finalizer # "none" /\ started => stopped'
      BY <2>2, <1>g
    <3>2. QED
      BY <1>2, <1>k, <1>t, <2>0, <2>2, <3>1 DEF ConvertEvent
  <2>3. QED
    BY <1>2, <2>1, <2>2 DEF ConvertEvent
<1>3. CASE ChunkConverted
  BY <1>3, <1>t DEF ChunkConverted
<1>4. CASE Send
  BY <1>4, <1>t DEF Send
<1>5. CASE Sent
  BY <1>5, <1>t DEF Sent
<1>6. CASE ReadEof
  <2>0. pending' = 0 /\ read' = read
    BY <1>6 DEF ReadEof
  <2>1. CASE /\ batch' = << >> /\ pc' = "finalizer"
             /\ UNCHANGED <<made, started, stopped, failed>>
    BY <1>6, <1>k, <1>t, <2>0, <2>1 DEF ReadEof
  <2>2. CASE pending > 0 /\ converted(read) /\ pc' = "send_tail" /\ UNCHANGED failed
    BY <1>6, <1>k, <1>t, <2>0, <2>2, <1>c DEF ReadEof
  <2>3. CASE kind.fails /\ giveUp("send_tail") /\ UNCHANGED <<made, started>>
    <3>1. /\ failed' = TRUE /\ pc' = "send_tail" /\ stopped' \in BOOLEAN
          /\ stopped' => started /\ kind.finalizer # "none"
      BY <2>3, <1>g
    <3>2. QED
      BY <1>6, <1>k, <1>t, <2>0, <2>3, <3>1 DEF ReadEof
  <2>4. QED
    BY <1>6, <2>1, <2>2, <2>3 DEF ReadEof
<1>7. CASE EofFinalizer
  <2>1. stopped' = (stopped \/ (~closed /\ Speaks))
    BY <1>7, FinalizerFacts DEF EofFinalizer
  <2>2. QED
    <3>1. stopped' \in BOOLEAN /\ (stopped' => started /\ kind.finalizer # "none")
      BY <1>t, <1>s, <2>1, Zenon DEF Speaks
    <3>2. ~closed /\ kind.finalizer # "none" /\ started => stopped'
      BY <1>t, <2>1, Zenon DEF Speaks
    <3>3. QED
      BY <1>7, <1>k, <1>t, <3>1, <3>2 DEF EofFinalizer
<1>8. CASE ReadError
  <2>1. /\ failed' = TRUE /\ pc' = "send_last" /\ stopped' \in BOOLEAN
        /\ stopped' => started /\ kind.finalizer # "none"
        /\ kind.finalizer # "none" /\ started => stopped'
    BY <1>8, <1>g DEF ReadError
  <2>2. QED
    BY <1>8, <1>k, <1>t, <2>1 DEF ReadError
<1>9. CASE UpstreamEnds
  BY <1>9, <1>t DEF UpstreamEnds
<1>10. CASE ClientReads
  BY <1>10, <1>t DEF ClientReads
<1>11. CASE ClientCloses
  BY <1>11, <1>t DEF ClientCloses
<1>12. CASE UNCHANGED vars
  BY <1>12, <1>t DEF vars
<1>13. QED
  BY <1>1, <1>2, <1>3, <1>4, <1>5, <1>6, <1>7, <1>8, <1>9, <1>10, <1>11, <1>12
  DEF Next, TaskStep
-----------------------------------------------------------------------------
(* Appending to the second of two concatenated sequences.                  *)
LEMMA ConcatAppend ==
    ASSUME NEW s \in Seq(Item), NEW t \in Seq(Item), NEW x \in Item
    PROVE  s \o Append(t, x) = Append(s \o t, x)
<1>1. Append(t, x) = t \o <<x>> /\ s \o t \in Seq(Item) /\ <<x>> \in Seq(Item)
  BY AppendIsConcat, ConcatProperties, ItemFacts
<1>2. Append(s \o t, x) = (s \o t) \o <<x>>
  BY <1>1, AppendIsConcat
<1>3. s \o (t \o <<x>>) = (s \o t) \o <<x>>
  BY <1>1, ConcatAssociative
<1>4. QED
  BY <1>1, <1>2, <1>3

(* Moving the head of a queue to the end of the one before it changes      *)
(* nothing about the two taken together.                                   *)
LEMMA MoveHead ==
    ASSUME NEW s \in Seq(Item), NEW t \in Seq(Item), t # << >>
    PROVE  Append(s, Head(t)) \o Tail(t) = s \o t
<1> DEFINE h == <<Head(t)>>
           r == Tail(t)
<1>1. /\ Head(t) \in Item /\ r \in Seq(Item) /\ Len(r) = Len(t) - 1
      /\ \A i \in 1..Len(r) : r[i] = t[i + 1]
  BY HeadTailProperties
<1>2. h \in Seq(Item) /\ Len(h) = 1 /\ h[1] = Head(t)
  BY <1>1, ItemFacts
<1>3. Head(t) = t[1] /\ Len(t) \in Nat \ {0}
  BY EmptySeq
<1>4. Append(s, Head(t)) = s \o h
  BY <1>1, AppendIsConcat
<1> HIDE DEF h, r
<1>5. /\ h \o r \in Seq(Item) /\ Len(h \o r) = Len(h) + Len(r)
      /\ \A i \in 1..Len(h) + Len(r) : (h \o r)[i] = IF i <= Len(h) THEN h[i] ELSE r[i - Len(h)]
  <2>1. h \in Seq(Item) /\ r \in Seq(Item)
    BY <1>1, <1>2
  <2>2. QED
    BY <2>1, ConcatProperties, SMTT(30)
<1>6. Len(h \o r) = Len(t)
  BY <1>1, <1>2, <1>3, <1>5
<1>7. ASSUME NEW i \in 1..Len(t) PROVE (h \o r)[i] = t[i]
  <2>1. CASE i = 1
    BY <1>1, <1>2, <1>3, <1>5, <2>1
  <2>2. CASE i # 1
    <3>1. i - 1 \in 1..Len(r) /\ (h \o r)[i] = r[i - 1] /\ (i - 1) + 1 = i
      BY <1>1, <1>2, <1>3, <1>5, <2>2
    <3>2. QED
      BY <1>1, <3>1
  <2>3. QED
    BY <2>1, <2>2
<1>8. h \o r = t
  BY <1>5, <1>6, <1>7, SeqEqual
<1>9. (s \o h) \o r = s \o (h \o r)
  <2>1. h \in Seq(Item) /\ r \in Seq(Item)
    BY <1>1, <1>2
  <2>2. QED
    BY <2>1, ConcatAssociative
<1>10. QED
  BY <1>4, <1>8, <1>9 DEF r
-----------------------------------------------------------------------------
(* The ways a step may change the stream.  It moves along:                 *)
LEMMA SameStream ==
    ASSUME StreamInv, stream' = stream, UNCHANGED <<kind, made, failed, stopped, rx>>
    PROVE  StreamInv'
BY DEF StreamInv, Ordered, Terminated, isPrefix

(* The ordering of a stream does not depend on what is converted later.    *)
LEMMA OrderedLater ==
    ASSUME NEW s, NEW m \in Seq(Item), NEW x \in Item, Ordered(s, m)
    PROVE  Ordered(s, Append(m, x))
<1>1. /\ Len(Append(m, x)) = Len(m) + 1 /\ Len(m) \in Nat
      /\ \A i \in 1..Len(m) : Append(m, x)[i] = m[i]
  BY AppendProperties, LenProperties
<1> DEFINE n == Append(m, x)
<1> HIDE DEF n
<1>2. SUFFICES ASSUME NEW i \in 1..Len(s), s[i].type = "data"
               PROVE  i <= Len(n) /\ \A j \in 1..i : s[j] = n[j]
  BY DEF Ordered, n
<1>3. i <= Len(m) /\ \A j \in 1..i : s[j] = m[j] /\ j \in 1..Len(m)
  BY <1>1, <1>2 DEF Ordered
<1>4. QED
  BY <1>1, <1>3 DEF n

(* the client is gone, and with it all that is not yet received;           *)
LEMMA ClosedStream ==
    ASSUME TypeOK, TypeOK', StreamInv, rx = "closed", rx' = "closed",
           UNCHANGED <<got, kind>>,
           made' = made \/ \E x \in Item : made' = Append(made, x),
           failed => failed', stopped => stopped'
    PROVE  StreamInv'
<1>1. stream = got /\ stream' = got
  BY DEF stream
<1>2. Ordered(got, made)'
  <2>1. Ordered(got, made) /\ made \in Seq(Item)
    BY <1>1 DEF StreamInv, TypeOK
  <2>2. CASE made' = made
    BY <2>1, <2>2 DEF Ordered
  <2>3. CASE \E x \in Item : made' = Append(made, x)
    BY <2>1, <2>3, OrderedLater
  <2>4. QED
    BY <2>2, <2>3
<1>3. QED
  BY <1>1, <1>2 DEF StreamInv, Terminated

(* the client leaves;                                                      *)
LEMMA CutStream ==
    ASSUME TypeOK, StreamInv, ClientCloses
    PROVE  StreamInv'
<1>1. stream = (got \o channel) \o batch /\ stream' = got
  BY DEF ClientCloses, stream
<1>2. UNCHANGED <<kind, made, failed, stopped>> /\ rx' = "closed"
  BY DEF ClientCloses
<1>3. isPrefix(got, stream) /\ got \in Seq(Item) /\ Len(got) \in Nat
  <2>1. got \in Seq(Item) /\ channel \in Seq(Item) /\ batch \in Seq(Item)
    BY DEF TypeOK
  <2>2. channel \o batch \in Seq(Item) /\ stream = got \o (channel \o batch)
    BY <1>1, <2>1, ConcatProperties, ConcatAssociative
  <2>3. QED
    BY <2>1, <2>2, ConcatProperties, LenProperties DEF isPrefix
<1>4. Len(stream) \in Nat
  BY LenProperties DEF StreamInv
<1>5. \A i \in 1..Len(got) : i \in 1..Len(stream) /\ got[i] = stream[i]
  BY <1>3, <1>4 DEF isPrefix
<1>6. Ordered(got, made)
  <2> SUFFICES ASSUME NEW i \in 1..Len(got), got[i].type = "data"
               PROVE  i <= Len(made) /\ \A j \in 1..i : got[j] = made[j]
    BY DEF Ordered
  <2>1. i <= Len(made) /\ \A j \in 1..i : stream[j] = made[j]
    BY <1>5 DEF StreamInv, Ordered
  <2>2. \A j \in 1..i : j \in 1..Len(got)
    BY <1>3
  <2>3. QED
    BY <1>5, <2>1, <2>2
<1>7. kind.finalizer # "always" => Terminated(got)
  BY <1>5 DEF StreamInv, Terminated
<1>8. \A i \in 1..Len(got) : (got[i] = Stop => stopped) /\ (got[i] = Broken => failed)
  BY <1>5 DEF StreamInv
<1>9. QED
  BY <1>1, <1>2, <1>3, <1>6, <1>7, <1>8 DEF StreamInv, Ordered, Terminated

(* data are added, before any terminator;                                  *)
LEMMA DataAdded ==
    ASSUME TypeOK, StreamInv, rx = "open", rx' = "open", ~stopped, ~failed,
           NEW x \in Item, x.type = "data",
           stream' = Append(stream, x), made' = Append(made, x),
           UNCHANGED <<kind, failed, stopped>>
    PROVE  StreamInv'
<1>1. /\ stream \in Seq(Item) /\ made \in Seq(Item)
      /\ Len(stream) \in Nat /\ Len(made) \in Nat
  BY LenProperties DEF StreamInv, TypeOK
<1>2. \A i \in 1..Len(stream) : stream[i].type = "data"
  <2> SUFFICES ASSUME NEW i \in 1..Len(stream) PROVE stream[i].type = "data"
    OBVIOUS
  <2>1. stream[i] \in Item /\ stream[i] # Stop /\ stream[i] # Broken
    BY <1>1, ElementOfSeq DEF StreamInv
  <2>2. QED
    BY <2>1, ItemFacts
<1>3. Len(stream) = Len(made) /\ \A i \in 1..Len(made) : stream[i] = made[i]
  <2>1. Len(made) <= Len(stream) /\ \A i \in 1..Len(made) : made[i] = stream[i]
    BY DEF StreamInv, isPrefix
  <2>2. Len(stream) = 0 \/ Len(stream) <= Len(made)
    BY <1>1, <1>2 DEF StreamInv, Ordered
  <2>3. QED
    BY <1>1, <2>1, <2>2
<1>4. /\ stream' \in Seq(Item) /\ Len(stream') = Len(stream) + 1
      /\ stream'[Len(stream) + 1] = x
      /\ \A i \in 1..Len(stream) : stream'[i] = stream[i]
  BY <1>1, AppendProperties
<1>5. /\ Len(made') = Len(made) + 1 /\ made'[Len(made) + 1] = x
      /\ \A i \in 1..Len(made) : made'[i] = made[i]
  BY <1>1, AppendProperties
<1>6. /\ Len(stream') = Len(made') /\ Len(made') \in Nat
      /\ \A i \in 1..Len(made') : stream'[i] = made'[i]
  BY <1>1, <1>3, <1>4, <1>5
<1>7. \A i \in 1..Len(stream') : stream'[i].type = "data" /\ stream'[i] \notin {Stop, Broken}
  <2>1. \A i \in 1..Len(stream') : stream'[i].type = "data" /\ stream'[i] \in Item
    BY <1>1, <1>2, <1>4, ElementOfSeq
  <2>2. QED
    BY <2>1, ItemFacts
<1>8. Ordered(stream, made)'
  BY <1>6 DEF Ordered
<1>9. isPrefix(made, stream)'
  BY <1>6 DEF isPrefix
<1>10. Terminated(stream)'
  BY <1>7 DEF Terminated
<1>11. QED
  BY <1>4, <1>7, <1>8, <1>9, <1>10 DEF StreamInv

(* or a terminator is, possibly in place of what was about to be sent.     *)
LEMMA TerminatorAdded ==
    ASSUME TypeOK, StreamInv, rx = "open", rx' = "open", UNCHANGED <<kind, made>>,
           NEW p \in Seq(Item), isPrefix(p, stream), NEW x \in {Stop, Broken},
           stream' = Append(p, x),
           failed' \in BOOLEAN, stopped' \in BOOLEAN,
           failed => failed', ~failed' => p = stream,
           x = Stop => stopped' /\ (kind.finalizer # "always" => ~stopped /\ ~failed),
           x = Broken => ~failed /\ failed' /\ stopped' = stopped /\ (stopped => p = stream)
    PROVE  StreamInv'
<1>1. /\ stream \in Seq(Item) /\ made \in Seq(Item) /\ x \in Item /\ x.type # "data"
      /\ Len(stream) \in Nat /\ Len(made) \in Nat /\ Len(p) \in Nat
      /\ stopped \in BOOLEAN /\ failed \in BOOLEAN
  BY LenProperties, ItemFacts DEF StreamInv, TypeOK
<1>2. /\ stream' \in Seq(Item) /\ Len(stream') = Len(p) + 1 /\ stream' # << >>
      /\ stream'[Len(p) + 1] = x
      /\ \A i \in 1..Len(p) : stream'[i] = p[i]
  BY <1>1, AppendProperties
<1>3. \A i \in 1..Len(p) : i \in 1..Len(stream) /\ stream'[i] = stream[i]
  BY <1>1, <1>2 DEF isPrefix
<1>4. \A i \in 1..Len(stream') : i \in 1..Len(p) \/ (i = Len(p) + 1 /\ stream'[i] = x)
  BY <1>1, <1>2
<1>5. Ordered(stream, made)'
  <2> SUFFICES ASSUME NEW i \in 1..Len(stream'), stream'[i].type = "data"
               PROVE  i <= Len(made) /\ \A j \in 1..i : stream'[j] = made[j]
    BY DEF Ordered
  <2>1. i \in 1..Len(p)
    BY <1>1, <1>4
  <2>2. i <= Len(made) /\ \A j \in 1..i : stream[j] = made[j]
    BY <1>3, <2>1 DEF StreamInv, Ordered
  <2>3. \A j \in 1..i : j \in 1..Len(p)
    BY <1>1, <2>1
  <2>4. QED
    BY <1>3, <2>2, <2>3
<1>6. ~failed' => isPrefix(made, stream)'
  <2> SUFFICES ASSUME ~failed' PROVE isPrefix(made, stream')
    BY DEF isPrefix
  <2>1. p = stream /\ ~failed
    BY <1>1
  <2>2. Len(made) <= Len(stream) /\ \A i \in 1..Len(made) : made[i] = stream[i]
    BY <2>1 DEF StreamInv, isPrefix
  <2>3. Len(made) <= Len(stream') /\ \A i \in 1..Len(made) : i \in 1..Len(p)
    BY <1>1, <1>2, <2>1, <2>2
  <2>4. QED
    BY <1>3, <2>2, <2>3 DEF isPrefix
<1>7. \A i \in 1..Len(stream') :
         (stream'[i] = Stop => stopped') /\ (stream'[i] = Broken => failed')
  <2> SUFFICES ASSUME NEW i \in 1..Len(stream')
               PROVE  /\ stream'[i] = Stop => stopped'
                      /\ stream'[i] = Broken => failed'
    OBVIOUS
  <2>1. CASE i \in 1..Len(p)
    <3>1. (stream'[i] = Stop => stopped) /\ (stream'[i] = Broken => failed)
      BY <1>3, <2>1 DEF StreamInv
    <3>2. QED
      BY <1>1, <3>1
  <2>2. CASE stream'[i] = x
    BY <2>2, ItemFacts
  <2>3. QED
    BY <1>4, <2>1, <2>2
<1>8. stream'[Len(stream')] \in {Stop, Broken}
  BY <1>2
<1>9. kind.finalizer # "always" => Terminated(stream)'
  <2> SUFFICES ASSUME kind.finalizer # "always",
                      NEW i \in 1..Len(stream'), NEW j \in 1..Len(stream'), i < j,
                      stream'[i] \in {Stop, Broken}
               PROVE  stream'[i] = Stop /\ stream'[j] = Broken
    BY DEF Terminated
  <2>1. i \in 1..Len(p)
    BY <1>1, <1>2
  <2>2. CASE j \in 1..Len(p)
    BY <1>3, <2>1, <2>2 DEF StreamInv, Terminated
  <2>3. CASE j = Len(p) + 1 /\ stream'[j] = x
    <3>1. (stream'[i] = Stop => stopped) /\ (stream'[i] = Broken => failed)
      BY <1>3, <2>1 DEF StreamInv
    <3>2. QED
      BY <1>1, <2>3, <3>1
  <2>4. QED
    BY <1>4, <2>2, <2>3
<1>10. stopped' => \E i \in 1..Len(stream') : stream'[i] = Stop
  <2>1. CASE x = Stop
    BY <1>1, <1>2, <2>1
  <2>2. CASE x = Broken /\ stopped
    <3>1. PICK i \in 1..Len(stream) : stream[i] = Stop
      BY <2>2 DEF StreamInv
    <3>2. i \in 1..Len(p) /\ i \in 1..Len(stream')
      BY <1>1, <1>2, <2>2
    <3>3. QED
      BY <1>3, <3>1, <3>2
  <2>3. QED
    BY <1>1, <2>1, <2>2
<1>11. QED
  BY <1>2, <1>5, <1>6, <1>7, <1>8, <1>9, <1>10 DEF StreamInv

-----------------------------------------------------------------------------
(* Every step preserves the shape of the stream.                           *)
LEMMA StreamStep ==
    TypeOK /\ ControlInv /\ StreamInv /\ TypeOK' /\ [Next]_vars => StreamInv'
<1> SUFFICES ASSUME TypeOK, ControlInv, StreamInv, TypeOK', [Next]_vars
             PROVE  StreamInv'
  OBVIOUS
<1>t. /\ got \in Seq(Item) /\ channel \in Seq(Item) /\ batch \in Seq(Item) /\ made \in Seq(Item)
      /\ stopped \in BOOLEAN /\ failed \in BOOLEAN /\ rx \in {"open", "closed"}
      /\ stopped' \in BOOLEAN /\ failed' \in BOOLEAN
      /\ kind \in Kinds /\ (kind.finalizer = "once" => ~kind.fails)
  BY DEF TypeOK
<1>d. delivered \in Seq(Item) /\ delivered \o << >> = delivered
  BY <1>t, ConcatProperties, ConcatEmptySeq DEF delivered
<1>s. /\ rx = "open" => stream = delivered \o batch
      /\ (rx = "open" => stream = delivered \o batch)'
  BY DEF stream, delivered
<1>p. rx = "open" => isPrefix(delivered, stream)
  <2>1. Len(delivered) \in Nat /\ Len(batch) \in Nat
    BY <1>t, <1>d, LenProperties
  <2>2. QED
    BY <1>t, <1>d, <1>s, <2>1, ConcatProperties DEF isPrefix
<1>u. StreamInv => stream \in Seq(Item) /\ isPrefix(stream, stream)
  <2>1. ASSUME NEW s \in Seq(Item) PROVE isPrefix(s, s)
    BY LenProperties DEF isPrefix
  <2>2. QED
    BY <2>1 DEF StreamInv
<1>o. (* One item in place of the batch.                                   *)
      ASSUME NEW x \in Item, batch' = <<x>>, UNCHANGED <<got, channel, rx>>, rx = "open"
      PROVE  stream' = Append(delivered, x)
  <2>1. delivered' = delivered
    BY <1>o DEF delivered
  <2>2. Append(delivered, x) = delivered \o <<x>>
    BY <1>d, AppendIsConcat
  <2>3. QED
    BY <1>o, <1>s, <2>1, <2>2
<1>e. batch = << >> /\ rx = "open" => stream = delivered
  BY <1>d, <1>s
<1>g. (* The relay gives up.                                               *)
      ASSUME NEW next, giveUp(next), ~failed,
             UNCHANGED <<kind, made, got, channel, rx>>,
             batch = << >> \/ kind.fails
      PROVE  StreamInv'
  <2>1. \/ Speaks /\ batch' = <<Stop>> /\ stopped' = TRUE
        \/ ~Speaks /\ batch' = <<Broken>> /\ stopped' = stopped
    BY <1>g, GiveUpFacts
  <2>2. failed' = TRUE
    BY <1>g, GiveUpFacts
  <2>3. CASE rx = "closed"
    BY <1>g, <1>t, <2>1, <2>2, <2>3, ClosedStream
  <2>4. CASE rx = "open" /\ Speaks /\ batch' = <<Stop>> /\ stopped' = TRUE
    <3>1. stream' = Append(delivered, Stop)
      BY <1>g, <1>o, <2>4, ItemFacts
    <3>2. kind.finalizer # "always" => ~stopped
      BY <1>t, <2>4 DEF Speaks
    <3>3. QED
      BY <1>g, <1>t, <1>d, <1>p, <2>2, <2>4, <3>1, <3>2, ItemFacts, TerminatorAdded
  <2>5. CASE rx = "open" /\ ~Speaks /\ batch' = <<Broken>> /\ stopped' = stopped
    <3>1. stream' = Append(delivered, Broken)
      BY <1>g, <1>o, <2>5, ItemFacts
    <3>2. stopped => batch = << >>
      <4>1. stopped => started /\ kind.finalizer # "none"
        BY DEF ControlInv
      <4>2. stopped => kind.finalizer = "once"
        BY <2>5, <4>1 DEF Speaks
      <4>3. QED
        BY <1>g, <1>t, <4>2
    <3>3. stopped => delivered = stream
      BY <1>e, <2>5, <3>2
    <3>4. QED
      BY <1>g, <1>t, <1>d, <1>p, <2>2, <2>5, <3>1, <3>3, ItemFacts, TerminatorAdded
  <2>6. QED
    BY <1>t, <2>1, <2>3, <2>4, <2>5
<1>n. (* Nothing about the stream changes.                                 *)
      ASSUME UNCHANGED <<kind, made, failed, stopped, rx, got, channel, batch>>
      PROVE  StreamInv'
  BY <1>n, SameStream DEF stream
<1>x. (* One item is added to the batch.                                   *)
      ASSUME NEW x \in Item, batch' = Append(batch, x), UNCHANGED <<got, channel, rx>>, rx = "open"
      PROVE  stream' = Append(stream, x)
  <2>1. delivered' = delivered
    BY <1>x DEF delivered
  <2>2. delivered \o Append(batch, x) = Append(delivered \o batch, x)
    BY <1>t, <1>d, <1>x, ConcatAppend
  <2>3. QED
    BY <1>x, <1>s, <2>1, <2>2
<1>c. (* An event is converted.                                            *)
      ASSUME NEW n \in 0..MaxPieces, converted(n), ~failed,
             UNCHANGED <<kind, failed, got, channel, rx>>
      PROVE  StreamInv'
  <2>1. CASE /\ ~stopped /\ stopped' = stopped
             /\ batch' = Append(batch, data(n)) /\ made' = Append(made, data(n))
    <3>1. data(n) \in Item /\ data(n).type = "data"
      BY ItemFacts
    <3>2. CASE rx = "closed"
      BY <1>c, <1>t, <2>1, <3>1, <3>2, ClosedStream
    <3>3. CASE rx = "open"
      <4>1. stream' = Append(stream, data(n))
        BY <1>c, <1>x, <2>1, <3>1, <3>3
      <4>2. QED
        BY <1>c, <1>t, <2>1, <3>1, <3>3, <4>1, DataAdded
    <3>4. QED
      BY <1>t, <3>2, <3>3
  <2>2. CASE UNCHANGED <<batch, made, started, stopped>>
    BY <1>c, <1>n, <2>2
  <2>3. CASE /\ Speaks /\ UNCHANGED <<made, started>>
             /\ batch' = batch \o <<Stop>> /\ stopped' = TRUE
    <3>1. batch' = Append(batch, Stop)
      BY <1>t, <2>3, ItemFacts, AppendIsConcat
    <3>2. CASE rx = "closed"
      BY <1>c, <1>t, <2>3, <3>2, ClosedStream
    <3>3. CASE rx = "open"
      <4>1. stream' = Append(stream, Stop)
        BY <1>c, <1>x, <3>1, <3>3, ItemFacts
      <4>2. kind.finalizer # "always" => ~stopped
        BY <1>t, <2>3 DEF Speaks
      <4>3. QED
        BY <1>c, <1>t, <1>u, <2>3, <3>3, <4>1, <4>2, ItemFacts, TerminatorAdded
    <3>4. QED
      BY <1>t, <3>2, <3>3
  <2>4. QED
    BY <1>c, <2>1, <2>2, <2>3, ConvertedFacts
<1>1. ASSUME NEW n \in 1..MaxChunk, ReadChunk(n) PROVE StreamInv'
  <2>0. /\ batch = << >> /\ ~failed /\ UNCHANGED <<kind, got, channel, rx>>
        /\ read' \in 0..MaxPieces
    BY <1>1 DEF ReadChunk, ControlInv, TypeOK
  <2>1. CASE /\ failed' = TRUE /\ batch' = <<Broken>>
             /\ UNCHANGED <<pending, stopped, made>>
    <3>1. CASE rx = "closed"
      BY <1>t, <2>0, <2>1, <3>1, ClosedStream
    <3>2. CASE rx = "open"
      <4>1. stream' = Append(delivered, Broken) /\ stream = delivered
        BY <1>o, <1>e, <2>0, <2>1, <3>2, ItemFacts
      <4>2. QED
        BY <1>t, <1>d, <1>p, <2>0, <2>1, <3>2, <4>1, ItemFacts, TerminatorAdded
    <3>3. QED
      BY <1>t, <3>1, <3>2
  <2>2. CASE /\ ~kind.buffered
             /\ batch' = <<data(read')>> /\ made' = Append(made, data(read'))
             /\ UNCHANGED <<pending, stopped, failed>>
    <3>0. data(read') \in Item /\ data(read').type = "data" /\ ~stopped
      BY <2>0, <2>2, ItemFacts DEF ControlInv
    <3>1. CASE rx = "closed"
      BY <1>t, <2>0, <2>2, <3>0, <3>1, ClosedStream
    <3>2. CASE rx = "open"
      <4>1. stream' = Append(stream, data(read'))
        BY <1>o, <1>e, <2>0, <2>2, <3>0, <3>2
      <4>2. QED
        BY <1>t, <2>0, <2>2, <3>0, <3>2, <4>1, DataAdded
    <3>3. QED
      BY <1>t, <3>1, <3>2
  <2>3. CASE giveUp("send_last") /\ UNCHANGED made
    BY <1>g, <2>0, <2>3
  <2>4. CASE batch' = << >> /\ UNCHANGED <<stopped, failed, made>>
    BY <1>n, <2>0, <2>4
  <2>5. QED
    BY <1>1, <2>1, <2>2, <2>3, <2>4 DEF ReadChunk
<1>2. CASE ConvertEvent
  <2>0. /\ ~failed /\ UNCHANGED <<kind, got, channel, rx>>
        /\ read - pending + 2 \in 0..MaxPieces
    BY <1>2 DEF ConvertEvent, ControlInv, TypeOK
  <2>1. CASE converted(read - pending + 2) /\ UNCHANGED <<failed, pc>>
    BY <1>c, <2>0, <2>1
  <2>2. CASE kind.fails /\ giveUp("send_last") /\ UNCHANGED <<made, started>>
    BY <1>g, <2>0, <2>2
  <2>3. QED
    BY <1>2, <2>1, <2>2 DEF ConvertEvent
<1>3. CASE ChunkConverted \/ Sent \/ UpstreamEnds \/ UNCHANGED vars
  BY <1>3, <1>n DEF ChunkConverted, Sent, UpstreamEnds, vars
<1>4. CASE Send
  <2>0. UNCHANGED <<kind, made, failed, stopped, rx, got>>
    BY <1>4 DEF Send
  <2>1. CASE rx = "closed"
    BY <1>t, <2>0, <2>1, ClosedStream
  <2>2. CASE rx = "open"
    <3>1. channel' = Append(channel, Head(batch)) /\ batch' = Tail(batch) /\ batch # << >>
      BY <1>4, <2>2 DEF Send
    <3>2. Head(batch) \in Item
      BY <1>t, <3>1, HeadTailProperties
    <3>3. got \o Append(channel, Head(batch)) = Append(got \o channel, Head(batch))
      BY <1>t, <3>2, ConcatAppend
    <3>4. Append(delivered, Head(batch)) \o Tail(batch) = delivered \o batch
      BY <1>t, <1>d, <3>1, MoveHead
    <3>5. delivered' = Append(delivered, Head(batch))
      BY <2>0, <3>1, <3>3 DEF delivered
    <3>6. stream' = stream
      BY <1>s, <2>0, <2>2, <3>1, <3>4, <3>5
    <3>7. QED
      BY <2>0, <3>6, SameStream
  <2>3. QED
    BY <1>t, <2>1, <2>2
<1>5. CASE ReadEof
  <2>0. /\ batch = << >> /\ ~failed /\ UNCHANGED <<kind, got, channel, rx>>
        /\ read \in 0..MaxPieces
    BY <1>5 DEF ReadEof, ControlInv, TypeOK
  <2>1. CASE batch' = << >> /\ UNCHANGED <<made, started, stopped, failed>>
    BY <1>n, <2>0, <2>1
  <2>2. CASE converted(read) /\ UNCHANGED failed
    BY <1>c, <2>0, <2>2
  <2>3. CASE giveUp("send_tail") /\ UNCHANGED <<made, started>>
    BY <1>g, <2>0, <2>3
  <2>4. QED
    BY <1>5, <2>1, <2>2, <2>3 DEF ReadEof
<1>6. CASE EofFinalizer
  <2>0. batch = << >> /\ UNCHANGED <<kind, made, failed, got, channel, rx>> /\ (stopped => stopped')
    BY <1>6 DEF EofFinalizer, ControlInv
  <2>1. CASE rx = "closed"
    BY <1>t, <2>0, <2>1, ClosedStream
  <2>2. CASE rx = "open" /\ Speaks
    <3>1. batch' = <<Stop>> /\ stopped'
      BY <1>6, <2>2, FinalizerFacts DEF EofFinalizer, ControlInv
    <3>2. stream' = Append(delivered, Stop) /\ stream = delivered
      BY <1>o, <1>e, <2>0, <2>2, <3>1, ItemFacts
    <3>3. kind.finalizer # "always" => ~stopped /\ ~failed
      BY <1>6, <1>t, <2>2 DEF Speaks, EofFinalizer, ControlInv
    <3>4. QED
      BY <1>t, <1>d, <1>p, <2>0, <2>2, <3>1, <3>2, <3>3, ItemFacts, TerminatorAdded
  <2>3. CASE rx = "open" /\ ~Speaks
    <3>1. batch' = << >> /\ stopped' = stopped
      BY <1>6, <1>t, <2>3, FinalizerFacts DEF EofFinalizer
    <3>2. QED
      BY <1>n, <2>0, <3>1
  <2>4. QED
    BY <1>t, <2>1, <2>2, <2>3
<1>7. CASE ReadError
  BY <1>7, <1>g DEF ReadError, ControlInv
<1>8. CASE ClientReads
  <2>0. /\ UNCHANGED <<kind, made, failed, stopped, rx, batch>> /\ rx = "open"
        /\ channel # << >> /\ got' = Append(got, Head(channel)) /\ channel' = Tail(channel)
    BY <1>8 DEF ClientReads
  <2>1. delivered' = delivered
    BY <1>t, <2>0, MoveHead DEF delivered
  <2>2. stream' = stream
    BY <1>s, <2>0, <2>1
  <2>3. QED
    BY <2>0, <2>2, SameStream
<1>9. CASE ClientCloses
  BY <1>9, CutStream
<1>10. QED
  BY <1>1, <1>2, <1>3, <1>4, <1>5, <1>6, <1>7, <1>8, <1>9 DEF Next, TaskStep

-----------------------------------------------------------------------------
(* The inductive invariant holds throughout, for any converters, buffer    *)
(* bound and channel capacity; its first part is the type invariant, the   *)
(* bounds of sse_pending and of the channel included.                      *)
THEOREM Invariance == Spec => []IndInv
<1>1. Init => IndInv
  <2> SUFFICES ASSUME Init PROVE IndInv
    OBVIOUS
  <2>1. TypeOK
    <3>1. << >> \in Seq(Item) /\ Len(<< >>) <= Cap
      BY ItemFacts
    <3>2. 0 \in 0..MaxPieces /\ 0 \in 0..(MaxPending + MaxChunk)
      OBVIOUS
    <3>3. QED
      BY <3>1, <3>2 DEF Init, TypeOK
  <2>2. ControlInv
    BY DEF Init, ControlInv
  <2>3. stream = << >> /\ made = << >> /\ Len(<< >>) = 0
    BY ConcatEmptySeq, EmptySeq, ItemFacts DEF Init, stream
  <2>4. Ordered(stream, made) /\ isPrefix(made, stream) /\ Terminated(stream)
    BY <2>3 DEF Ordered, isPrefix, Terminated
  <2>5. StreamInv
    BY <2>3, <2>4, ItemFacts DEF StreamInv, Init
  <2>6. QED
    BY <2>1, <2>2, <2>5 DEF IndInv
<1>2. IndInv /\ [Next]_vars => IndInv'
  BY TypeStep, ControlStep, StreamStep DEF IndInv
<1>3. QED
  BY <1>1, <1>2, PTL DEF Spec

(* What the client has and will find in the channel is the beginning of    *)
(* the stream, and all of it once nothing is left to send.                 *)
LEMMA DeliveredFacts ==
    ASSUME IndInv
    PROVE  /\ \A i \in 1..Len(delivered) : i \in 1..Len(stream) /\ delivered[i] = stream[i]
           /\ Len(delivered) \in Nat
           /\ batch = << >> /\ rx = "open" => delivered = stream
<1>1. got \in Seq(Item) /\ channel \in Seq(Item) /\ batch \in Seq(Item) /\ rx \in {"open", "closed"}
  BY DEF IndInv, TypeOK
<1>2. /\ delivered \in Seq(Item) /\ delivered \o << >> = delivered
      /\ Len(delivered) \in Nat /\ Len(batch) \in Nat
  BY <1>1, ConcatProperties, ConcatEmptySeq, LenProperties DEF delivered
<1>3. CASE rx = "open"
  <2>1. stream = delivered \o batch
    BY <1>3 DEF stream, delivered
  <2>2. /\ Len(stream) = Len(delivered) + Len(batch)
        /\ \A i \in 1..Len(delivered) + Len(batch) :
              stream[i] = IF i <= Len(delivered) THEN delivered[i] ELSE batch[i - Len(delivered)]
    BY <1>1, <1>2, <2>1, ConcatProperties
  <2>3. \A i \in 1..Len(delivered) : i \in 1..Len(stream) /\ delivered[i] = stream[i]
    BY <1>2, <2>2
  <2>4. QED
    BY <1>2, <2>1, <2>3
<1>4. CASE rx = "closed"
  <2>1. channel = << >> /\ stream = got
    BY <1>4 DEF IndInv, ControlInv, stream
  <2>2. delivered = stream
    BY <1>1, <2>1, ConcatEmptySeq DEF delivered
  <2>3. QED
    BY <1>2, <2>2
<1>5. QED
  BY <1>1, <1>3, <1>4

(* The client receives the converted data in order, without gap or repeat. *)
THEOREM DataArriveInOrder == Spec => []DataInOrder
<1>1. IndInv => DataInOrder
  <2> SUFFICES ASSUME IndInv, NEW i \in 1..Len(delivered), delivered[i].type = "data"
               PROVE  i <= Len(made) /\ \A j \in 1..i : delivered[j] = made[j]
    BY DEF DataInOrder
  <2>1. i <= Len(made) /\ \A j \in 1..i : stream[j] = made[j]
    BY DeliveredFacts DEF IndInv, StreamInv, Ordered
  <2>2. \A j \in 1..i : j \in 1..Len(delivered)
    BY DeliveredFacts
  <2>3. QED
    BY <2>1, <2>2, DeliveredFacts
<1>2. QED
  BY <1>1, Invariance, PTL

(* A relay that reports success has delivered all it converted.            *)
THEOREM SuccessDeliversAll == Spec => []SuccessIsComplete
<1>1. IndInv => SuccessIsComplete
  <2> SUFFICES ASSUME IndInv, pc = "done", ~failed, rx = "open"
               PROVE  isPrefix(made, delivered)
    BY DEF SuccessIsComplete
  <2>1. delivered = stream
    BY DeliveredFacts DEF IndInv, ControlInv
  <2>2. isPrefix(made, stream)
    BY DEF IndInv, StreamInv
  <2>3. QED
    BY <2>1, <2>2
<1>2. QED
  BY <1>1, Invariance, PTL

(* A client that stayed finds a terminator at the end of a failed relay,   *)
(* and the stop of every message that was started for a Claude client.     *)
THEOREM FailuresAreTerminated == Spec => []FailureIsTerminated
<1>1. IndInv => FailureIsTerminated
  <2> SUFFICES ASSUME IndInv, pc = "done", rx = "open"
               PROVE  /\ failed => /\ delivered # << >>
                                   /\ delivered[Len(delivered)] \in {Stop, Broken}
                      /\ kind.finalizer # "none" /\ started
                            => \E i \in 1..Len(delivered) : delivered[i] = Stop
    BY DEF FailureIsTerminated
  <2>1. delivered = stream
    BY DeliveredFacts DEF IndInv, ControlInv
  <2>2. failed => stream # << >> /\ stream[Len(stream)] \in {Stop, Broken}
    BY DEF IndInv, StreamInv
  <2>3. kind.finalizer # "none" /\ started => stopped
    BY DEF IndInv, ControlInv
  <2>4. stopped => \E i \in 1..Len(stream) : stream[i] = Stop
    BY DEF IndInv, StreamInv
  <2>5. QED
    BY <2>1, <2>2, <2>3, <2>4
<1>2. QED
  BY <1>1, Invariance, PTL

(* Only an error follows the stop of a message, and nothing an error.      *)
THEOREM TerminatorsAreLast == Spec => []TerminatorIsLast
<1>1. IndInv => TerminatorIsLast
  BY DeliveredFacts DEF IndInv, StreamInv, Terminated, TerminatorIsLast
<1>2. QED
  BY <1>1, Invariance, PTL
=============================================================================
