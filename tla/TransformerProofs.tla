-------------------------- MODULE TransformerProofs -------------------------
(***************************************************************************)
(* What a client hears of an upstream, for every number of events, chunks, *)
(* tool calls and output indexes.                                          *)
(*                                                                         *)
(* ClaudeRefinement: a Claude client hears a stream of the Claude          *)
(* protocol, whatever way the upstream identifies its items.               *)
(* StreamsEndCleanly: also of an upstream that sends anything, what was    *)
(* opened is closed at the end. CarriedDeltasRelayed: nothing is lost,     *)
(* repeated or reordered.                                                  *)
(*                                                                         *)
(* Each theorem has its inductive invariant: ToClaudeInv with ItemsInv,    *)
(* which links the maps of ResponsesStreamToClaude to the items the        *)
(* upstream has open; KnowsInv, which links the context to the blocks the  *)
(* client was told of; and CodexInv, which follows the contents of the     *)
(* streams.                                                                *)
(***************************************************************************)
EXTENDS StreamProtocolProofs

-----------------------------------------------------------------------------
(* openai_responses_stream_to_claude: the emissions, and the indexes it    *)
(* keeps of the items the upstream has open.                               *)

\* The maps.
Partial(K) == UNION {[D -> Nat] : D \in SUBSET K}

Inserted(K, f, k, x, g) ==
    /\ g \in Partial(K) /\ g[k] = x
    /\ DOMAIN g = DOMAIN f \cup {k}
    /\ \A y \in DOMAIN f : y # k => g[y] = f[y]

\* Inserting into a map by key.
LEMMA Inserts ==
    ASSUME NEW K, NEW f \in Partial(K), NEW k \in K, NEW x \in Nat, NEW g,
           g = RespToClaude!insert(f, k, x)
    PROVE  Inserted(K, f, k, x, g)
  <1>1. PICK D \in SUBSET K : f \in [D -> Nat]
      BY DEF Partial
  <1>2. D \cup {k} \in SUBSET K
      OBVIOUS
  <1>3. g \in [D \cup {k} -> Nat] /\ g[k] = x /\ \A y \in D : y # k => g[y] = f[y]
      BY <1>1 DEF RespToClaude!insert
  <1> QED BY <1>1, <1>2, <1>3 DEF Partial, Inserted

\* Removing from a map by key.
LEMMA Removes ==
    ASSUME NEW K, NEW f \in Partial(K), NEW k \in K
    PROVE  RespToClaude!remove(f, k) \in Partial(K)
  <1>1. PICK D \in SUBSET K : f \in [D -> Nat]
      BY DEF Partial
  <1>2. D \ {k} \in SUBSET K /\ RespToClaude!remove(f, k) \in [D \ {k} -> Nat]
      BY <1>1 DEF RespToClaude!remove
  <1> QED BY <1>2 DEF Partial

\* The empty map.
LEMMA EmptyMap == \A K : << >> \in Partial(K) /\ DOMAIN << >> = {}
  <1>1. << >> \in [{} -> Nat] /\ DOMAIN << >> = {}
      OBVIOUS
  <1> QED BY <1>1 DEF Partial

KeyNames == {"part", "part:out", "tool", "tool:out"}

Keys == KeyNames \X Nat

RCtx == [message_start_sent : BOOLEAN, finish_reason_sent : BOOLEAN, has_tool_use : BOOLEAN,
         next_content_index : Nat, index_by_key : Partial(Keys), open_indices : SUBSET Nat,
         fallback_open_index : Nat \cup {None}, tool_index_by_item_id : Partial(Nat),
         last_tool_index : Nat \cup {None}]

RResult == [ctx : RCtx, out : Seq(ClaudeEvent)]

Result(c, o) == [ctx |-> c, out |-> o]

\* A result and its parts.
LEMMA ResultIs ==
    ASSUME NEW c \in RCtx, NEW o \in Seq(ClaudeEvent)
    PROVE  Result(c, o) \in RResult /\ Result(c, o).ctx = c /\ Result(c, o).out = o
  BY DEF Result, RResult

\* None is neither an index nor a key.
LEMMA NoneIs == None \notin Nat /\ None \notin Keys /\ \A s \in KeyNames,
    x \in Nat : <<s, x>> \in Keys /\ <<s, x>> # None
  <1>1. None \notin Nat \cup ({"part", "part:out", "tool", "tool:out"} \X Nat)
      BY TransformerAssumption
  <1> QED BY <1>1 DEF Keys, KeyNames

\* A result with another context.
LEMMA WithCtx ==
    ASSUME NEW r \in RResult, NEW b \in RCtx
    PROVE  [r EXCEPT !.ctx = b] = Result(b, r.out)
  BY DEF RResult, Result

\* The primitives on a result.
LEMMA REmit ==
    ASSUME NEW c \in RCtx, NEW o \in Seq(ClaudeEvent), NEW e \in ClaudeEvent
    PROVE  RespToClaude!emit(Result(c, o), e) = Result(c, Append(o, e))
  <1>1. PICK r : r = Result(c, o)
      OBVIOUS
  <1>2. PICK p : p = Append(o, e)
      OBVIOUS
  <1>3. r = [ctx |-> c, out |-> o]
      BY <1>1 DEF Result
  <1>4. [r EXCEPT !.out = p] = [ctx |-> c, out |-> p]
      BY ONLY <1>3
  <1>5. RespToClaude!emit(r, e) = [r EXCEPT !.out = p]
      BY <1>2, <1>3 DEF RespToClaude!emit
  <1> QED BY <1>1, <1>2, <1>4, <1>5 DEF Result

\* The two notations of a Claude event.
LEMMA REvent ==
    ASSUME NEW t, NEW k, NEW i
    PROVE  RespToClaude!claude(t, k, i) = ClaudeEv(t, k, i)
  BY DEF RespToClaude!claude, ClaudeEv

\* emit_message_start_if_needed.
LEMMA RStart ==
    ASSUME NEW c \in RCtx, NEW o \in Seq(ClaudeEvent)
    PROVE  RespToClaude!emit_message_start_if_needed(Result(c, o))
             = IF c.message_start_sent THEN Result(c, o)
               ELSE Result([c EXCEPT !.message_start_sent = TRUE],
                           Append(o, ClaudeEv("message_start", "none", 0)))
  <1>1. ClaudeEv("message_start", "none", 0) \in ClaudeEvent
      BY DEF ClaudeEv, ClaudeEvent, ClaudeTypes, ClaudeKinds
  <1>2. RespToClaude!emit(Result(c, o), RespToClaude!claude("message_start", "none", 0))
          = Result(c, Append(o, ClaudeEv("message_start", "none", 0)))
      BY <1>1, REmit, REvent
  <1>3. Result(c, o).ctx = c
      BY DEF Result
  <1>4. ASSUME NEW q \in Seq(ClaudeEvent)
        PROVE  [Result(c, q) EXCEPT !.ctx.message_start_sent = TRUE]
                 = Result([c EXCEPT !.message_start_sent = TRUE], q)
    <2> DEFINE r == Result(c, q)
               b == [c EXCEPT !.message_start_sent = TRUE]
    <2>1. r \in RResult /\ r.ctx = c /\ r.out = q
      BY <1>4, ResultIs
    <2>2. b \in RCtx
      BY DEF RCtx
    <2> HIDE DEF r
    <2>3. [r EXCEPT !.ctx.message_start_sent = TRUE] = [r EXCEPT !.ctx = b]
      BY <2>1 DEF RResult
    <2>4. [r EXCEPT !.ctx = b] = Result(b, q)
      <3> HIDE DEF b
      <3> QED BY <2>1, <2>2, WithCtx
    <2> QED BY <2>3, <2>4 DEF r
  <1>5. Append(o, ClaudeEv("message_start", "none", 0)) \in Seq(ClaudeEvent)
      BY <1>1
  <1>6. [Result(c, Append(o, ClaudeEv("message_start", "none", 0))) EXCEPT !.ctx.message_start_sent = TRUE] = Result([c EXCEPT !.message_start_sent = TRUE], Append(o, ClaudeEv("message_start", "none", 0)))
      BY <1>4, <1>5
  <1>7. [RespToClaude!emit(Result(c, o),
                           RespToClaude!claude("message_start", "none",
                                               0)) EXCEPT !.ctx.message_start_sent = TRUE]
          = Result([c EXCEPT !.message_start_sent = TRUE],
                   Append(o, ClaudeEv("message_start", "none", 0)))
      BY <1>2, <1>6, Zenon
  <1> QED BY <1>3, <1>7, Zenon DEF RespToClaude!emit_message_start_if_needed

Opened(c, i) == [c EXCEPT !.open_indices = c.open_indices \cup {i}]

Closed(c, i) == [c EXCEPT !.open_indices = c.open_indices \ {i},
                          !.fallback_open_index = IF c.fallback_open_index = i THEN None
                              ELSE c.fallback_open_index]

\* What opening a block changes in the context.
LEMMA OpenedIs ==
    ASSUME NEW c \in RCtx, NEW i \in Nat, NEW b, b = Opened(c, i)
    PROVE  /\ b \in RCtx /\ b.open_indices = c.open_indices \cup {i}
           /\ b.message_start_sent = c.message_start_sent
                /\ b.finish_reason_sent = c.finish_reason_sent
           /\ b.next_content_index = c.next_content_index
                /\ b.fallback_open_index = c.fallback_open_index
           /\ b.index_by_key = c.index_by_key /\ b.last_tool_index = c.last_tool_index
           /\ b.tool_index_by_item_id = c.tool_index_by_item_id
  BY DEF Opened, RCtx

\* What closing a block changes in the context.
LEMMA ClosedIs ==
    ASSUME NEW c \in RCtx, NEW i \in Nat, NEW b, b = Closed(c, i)
    PROVE  /\ b \in RCtx /\ b.open_indices = c.open_indices \ {i}
           /\ b.message_start_sent = c.message_start_sent
                /\ b.finish_reason_sent = c.finish_reason_sent
           /\ b.next_content_index = c.next_content_index
           /\ b.fallback_open_index
                = (IF c.fallback_open_index = i THEN None ELSE c.fallback_open_index)
           /\ b.index_by_key = c.index_by_key /\ b.last_tool_index = c.last_tool_index
           /\ b.tool_index_by_item_id = c.tool_index_by_item_id
  BY DEF Closed, RCtx

\* open_block.
LEMMA ROpens ==
    ASSUME NEW c \in RCtx, NEW o \in Seq(ClaudeEvent), NEW k \in Kinds, NEW i \in Nat
    PROVE  RespToClaude!open_block(Result(c, o), k, i)
             = IF i \in c.open_indices THEN Result(c, o)
               ELSE Result(Opened(c, i), Append(o, ClaudeEv("content_block_start", k, i)))
  <1>1. ClaudeEv("content_block_start", k, i) \in ClaudeEvent
      BY DEF ClaudeEv, ClaudeEvent, ClaudeTypes, ClaudeKinds
  <1>2. RespToClaude!emit(Result(c, o), RespToClaude!claude("content_block_start", k, i))
          = Result(c, Append(o, ClaudeEv("content_block_start", k, i)))
      BY <1>1, REmit, REvent
  <1>3. Result(c, o).ctx = c
      BY DEF Result
  <1>4. ASSUME NEW q \in Seq(ClaudeEvent)
        PROVE  [Result(c, q) EXCEPT !.ctx.open_indices = @ \cup {i}]
                 = Result([c EXCEPT !.open_indices = c.open_indices \cup {i}], q)
    <2> DEFINE r == Result(c, q)
               b == [c EXCEPT !.open_indices = c.open_indices \cup {i}]
    <2>1. r \in RResult /\ r.ctx = c /\ r.out = q
      BY <1>4, ResultIs
    <2>2. b \in RCtx
      BY DEF RCtx
    <2> HIDE DEF r
    <2>3. [r EXCEPT !.ctx.open_indices = @ \cup {i}] = [r EXCEPT !.ctx = b]
      BY <2>1 DEF RResult
    <2>4. [r EXCEPT !.ctx = b] = Result(b, q)
      <3> HIDE DEF b
      <3> QED BY <2>1, <2>2, WithCtx
    <2> QED BY <2>3, <2>4 DEF r
  <1>5. Append(o, ClaudeEv("content_block_start", k, i)) \in Seq(ClaudeEvent)
      BY <1>1
  <1>6. [Result(c, Append(o, ClaudeEv("content_block_start", k, i))) EXCEPT !.ctx.open_indices
          = @ \cup {i}]
          = Result([c EXCEPT !.open_indices = c.open_indices \cup {i}],
                   Append(o, ClaudeEv("content_block_start", k, i)))
      BY <1>4, <1>5
  <1>7. [RespToClaude!emit(Result(c, o),
                           RespToClaude!claude("content_block_start", k,
                                               i)) EXCEPT !.ctx.open_indices = @ \cup {i}]
          = Result([c EXCEPT !.open_indices = c.open_indices \cup {i}],
                   Append(o, ClaudeEv("content_block_start", k, i)))
      BY <1>2, <1>6, Zenon
  <1> QED BY <1>3, <1>7, Zenon DEF RespToClaude!open_block, Opened

\* close_open_index.
LEMMA RCloses ==
    ASSUME NEW c \in RCtx, NEW o \in Seq(ClaudeEvent), NEW i \in Nat
    PROVE  RespToClaude!close_open_index(Result(c, o), i)
             = IF i \notin c.open_indices THEN Result(c, o)
               ELSE Result(Closed(c, i), Append(o, ClaudeEv("content_block_stop", "none", i)))
  <1>1. ClaudeEv("content_block_stop", "none", i) \in ClaudeEvent
      BY DEF ClaudeEv, ClaudeEvent, ClaudeTypes, ClaudeKinds
  <1>2. RespToClaude!emit(Result(c, o), RespToClaude!claude("content_block_stop", "none", i))
          = Result(c, Append(o, ClaudeEv("content_block_stop", "none", i)))
      BY <1>1, REmit, REvent
  <1>3. Result(c, o).ctx = c
      BY DEF Result
  <1>4. ASSUME NEW q \in Seq(ClaudeEvent)
        PROVE  [Result(c, q) EXCEPT !.ctx.open_indices = @ \ {i},
                 !.ctx.fallback_open_index = IF @ = i THEN None ELSE @]
                 = Result([c EXCEPT !.open_indices = c.open_indices \ {i},
                           !.fallback_open_index = IF c.fallback_open_index = i THEN None
                 ELSE c.fallback_open_index], q)
    <2> DEFINE r == Result(c, q)
               b == [c EXCEPT !.open_indices = c.open_indices \ {i},
                     !.fallback_open_index = IF c.fallback_open_index = i THEN None
                   ELSE c.fallback_open_index]
    <2>1. r \in RResult /\ r.ctx = c /\ r.out = q
      BY <1>4, ResultIs
    <2>2. b \in RCtx
      BY DEF RCtx
    <2> HIDE DEF r
    <2>3. [r EXCEPT !.ctx.open_indices = @ \ {i}, !.ctx.fallback_open_index = IF @ = i
            THEN None ELSE @] = [r EXCEPT !.ctx = b]
      BY <2>1 DEF RResult
    <2>4. [r EXCEPT !.ctx = b] = Result(b, q)
      <3> HIDE DEF b
      <3> QED BY <2>1, <2>2, WithCtx
    <2> QED BY <2>3, <2>4 DEF r
  <1>5. Append(o, ClaudeEv("content_block_stop", "none", i)) \in Seq(ClaudeEvent)
      BY <1>1
  <1>6. [Result(c, Append(o, ClaudeEv("content_block_stop", "none", i))) EXCEPT !.ctx.open_indices = @ \ {i}, !.ctx.fallback_open_index = IF @ = i THEN None ELSE @] = Result([c EXCEPT !.open_indices = c.open_indices \ {i}, !.fallback_open_index = IF c.fallback_open_index = i THEN None ELSE c.fallback_open_index], Append(o, ClaudeEv("content_block_stop", "none", i)))
      BY <1>4, <1>5, Zenon
  <1>7. [RespToClaude!emit(Result(c, o),
                           RespToClaude!claude("content_block_stop", "none",
                                               i)) EXCEPT !.ctx.open_indices = @ \ {i},
          !.ctx.fallback_open_index = IF @ = i THEN None ELSE @]
          = Result([c EXCEPT !.open_indices = c.open_indices \ {i},
                    !.fallback_open_index = IF c.fallback_open_index = i THEN None
          ELSE c.fallback_open_index], Append(o, ClaudeEv("content_block_stop", "none", i)))
      BY <1>2, <1>6, Zenon
  <1> QED BY <1>3, <1>7, Zenon DEF RespToClaude!close_open_index, Closed

\* What the client sees of a log and the events being sent.
Sees(d, o, v) == d \in Seq(ClaudeEvent) /\ o \in Seq(ClaudeEvent) /\ CValid(d \o o)
    /\ CView(d \o o) = v

\* The view of what a client is sent has its type.
LEMMA SeesType ==
    ASSUME NEW d, NEW o, NEW v, Sees(d, o, v)
    PROVE  v \in ViewType /\ (v.kind # "none" => v.blocks > 0) /\ o \in Seq(ClaudeEvent)
  BY ViewOfValid DEF Sees

\* A client is sent one event more.
LEMMA SeesMore ==
    ASSUME NEW d, NEW o, NEW v, Sees(d, o, v), NEW e, VMay(v, e)
    PROVE  Sees(d, Append(o, e), VAfter(v, e)) /\ e \in ClaudeEvent
  <1>1. d \in Seq(ClaudeEvent) /\ o \in Seq(ClaudeEvent) /\ CValid(d \o o)
          /\ CView(d \o o) = v
      BY DEF Sees
  <1>2. e \in ClaudeEvent
      BY <1>1, ViewOfValid, CMayTyped
  <1>3. d \o Append(o, e) = Append(d \o o, e) /\ Append(o, e) \in Seq(ClaudeEvent)
      BY <1>1, <1>2
  <1>4. CValid(Append(d \o o, e)) /\ CView(Append(d \o o, e)) = VAfter(v, e)
      BY <1>1, CExtend
  <1> QED BY <1>1, <1>2, <1>3, <1>4 DEF Sees

\* The block a Responses item is shown as, and the bound of the indexes that have a key.
BlockKind(u) ==
    IF u.part /\ ~u.parted THEN "text"
    ELSE IF u.thinking /\ ~u.thought THEN "thinking"
    ELSE IF u.kind = "function_call" /\ ~u.called THEN "tool_use" ELSE "none"

Used(u) == IF u.kind \in {"message", "reasoning"} /\ ~u.part /\ ~u.thinking THEN u.next - 1
    ELSE u.next

PartKey(id, x) == IF id = "item" THEN <<"part", x>> ELSE <<"part:out", x>>

\* What the context of a Responses upstream says of the blocks the client sees.
RLinked(c, id, v, u) ==
    /\ c.message_start_sent = v.started /\ v.started = u.created
    /\ c.finish_reason_sent = v.stopped /\ (v.stopped => u.ended)
    /\ c.next_content_index = v.blocks
    /\ v.kind = BlockKind(u) /\ v.calls = u.calls
    /\ c.open_indices = IF v.kind = "none" THEN {} ELSE {v.blocks - 1}
    /\ c.fallback_open_index = IF id = "none" /\ v.kind \in {"text", "thinking"}
         THEN v.blocks - 1 ELSE None
    /\ \A s \in KeyNames, x \in Nat : <<s, x>> \in DOMAIN c.index_by_key
         => x < Used(u) /\ ~(id = "mixed" /\ s = "tool:out")
    /\ id # "none" /\ v.kind \in {"text", "thinking"} =>
          PartKey(id, u.next - 1) \in DOMAIN c.index_by_key
              /\ c.index_by_key[PartKey(id, u.next - 1)] = v.blocks - 1
    /\ v.kind = "tool_use" => c.last_tool_index = v.blocks - 1
    /\ v.kind = "tool_use" /\ id = "item" =>
          u.next - 1 \in DOMAIN c.tool_index_by_item_id
              /\ c.tool_index_by_item_id[u.next - 1] = v.blocks - 1
    /\ v.kind = "tool_use" /\ id = "output" =>
          <<"tool:out", u.next - 1>> \in DOMAIN c.index_by_key
              /\ c.index_by_key[<<"tool:out", u.next - 1>>] = v.blocks - 1

RPiece(u, e) ==
    IF e.type = "text_delta" THEN << <<"text", 0>> >>
    ELSE IF e.type = "reasoning_delta" THEN << <<"thinking", 0>> >>
    ELSE IF e.type = "args_delta" THEN << <<"tool_use", u.calls>> >> ELSE << >>

RConverted(d, s, id, v, u, e) ==
    /\ s \in RResult
    /\ \E w : Sees(d, s.out, w) /\ RLinked(s.ctx, id, w, VRAfter(u, e))
         /\ w.said = v.said \o RPiece(u, e)

\* The fields of the views.
LEMMA VFields ==
    ASSUME NEW v, NEW e, NEW w, w = VAfter(v, e)
    PROVE  /\ w.started = (v.started \/ e.type = "message_start")
                /\ w.stopped = (v.stopped \/ e.type = "message_stop")
           /\ w.reason = (v.reason \/ e.kind = "stop")
           /\ w.blocks = (IF e.type = "content_block_start" THEN v.blocks + 1 ELSE v.blocks)
           /\ w.kind = (IF e.type = "content_block_start" THEN e.kind
                        ELSE IF e.type = "content_block_stop" THEN "none" ELSE v.kind)
           /\ w.calls = (IF e.type = "content_block_start" /\ e.kind = "tool_use"
                         THEN v.calls + 1 ELSE v.calls)
           /\ w.said = IF e.type = "content_block_delta"
                THEN Append(v.said, <<e.kind, IF e.kind = "tool_use" THEN v.calls ELSE 0>>)
                    ELSE v.said
  BY DEF VAfter

USeen(u, e, b, t) == e.type # "item_done" /\ e.type # "item_added"
    /\ (b \/ (u.kind # "none" /\ e.type = t))

\* What one more event changes in the view of a Responses stream.
LEMMA UFields ==
    ASSUME NEW u, NEW e, NEW w, w = VRAfter(u, e)
    PROVE  /\ w.created = (u.created \/ e.type = "created")
           /\ w.ended = (u.ended \/ e.type \in {"completed", "failed"})
           /\ w.next = (IF e.type = "item_added" THEN e.index + 1 ELSE u.next)
           /\ w.calls = (IF e.type = "item_added" /\ e.kind = "function_call" THEN u.calls + 1
                         ELSE u.calls)
           /\ w.kind = (IF e.type = "item_added" THEN e.kind ELSE IF e.type = "item_done"
                        THEN "none" ELSE u.kind)
           /\ w.part = USeen(u, e, u.part, "part_added")
                /\ w.parted = USeen(u, e, u.parted, "part_done")
           /\ w.called = USeen(u, e, u.called, "args_done")
           /\ w.thinking = USeen(u, e, u.thinking, "reasoning_delta")
                /\ w.thought = USeen(u, e, u.thought, "reasoning_done")
  BY DEF VRAfter, USeen

\* Events that are skipped.
LEMMA RSkips ==
    ASSUME NEW d, NEW v, Sees(d, << >>, v), NEW u, VRType(u), NEW e, VRMay(UpIndexes, u, e),
           NEW c \in RCtx, NEW id, RLinked(c, id, v, u),
           e.type \in {"text_done", "item_done", "failed", "item_added"},
           e.type = "item_done" => v.kind = "none",
           e.type = "item_added" => e.kind # "function_call"
    PROVE  RConverted(d, Result(c, << >>), id, v, u, e)
  <1> DEFINE t == VRAfter(u, e)
  <1>1. v \in ViewType /\ << >> \in Seq(ClaudeEvent)
      BY SeesType
  <1>2. Result(c, << >>) \in RResult /\ Result(c, << >>).ctx = c
          /\ Result(c, << >>).out = << >>
      BY <1>1, ResultIs
  <1>3. v.said \o RPiece(u, e) = v.said
      BY <1>1 DEF RPiece, ViewType
  <1>4. /\ t.created = (u.created \/ e.type = "created")
        /\ t.ended = (u.ended \/ e.type \in {"completed", "failed"})
        /\ t.next = (IF e.type = "item_added" THEN e.index + 1 ELSE u.next)
        /\ t.calls = (IF e.type = "item_added" /\ e.kind = "function_call" THEN u.calls + 1
                      ELSE u.calls)
        /\ t.kind = (IF e.type = "item_added" THEN e.kind ELSE IF e.type = "item_done"
                     THEN "none" ELSE u.kind)
        /\ t.part = USeen(u, e, u.part, "part_added")
             /\ t.parted = USeen(u, e, u.parted, "part_done")
        /\ t.called = USeen(u, e, u.called, "args_done")
        /\ t.thinking = USeen(u, e, u.thinking, "reasoning_delta")
             /\ t.thought = USeen(u, e, u.thought, "reasoning_done")
      BY UFields
  <1>5. /\ e.type = "item_added"
             => u.kind = "none" /\ e.index \in Nat /\ u.next <= e.index
             /\ e.kind \in ItemKinds /\ u.created
        /\ e.type = "failed" => u.kind = "none"
      BY DEF VRMay, RespEv, UpIndexes
  <1> HIDE DEF t
  <1>6. BlockKind(t) = BlockKind(u) /\ t.created = u.created /\ t.calls = u.calls
          /\ (u.ended => t.ended)
        /\ Used(u) <= Used(t) /\ Used(u) \in Int /\ Used(t) \in Int
             /\ (BlockKind(t) # "none" => t.next = u.next)
    <2>1. BlockKind(u) = v.kind
      BY DEF RLinked
    <2>2. CASE e.type = "text_done" \/ e.type = "failed"
      BY <1>4, <1>5, <2>2 DEF BlockKind, Used, USeen, VRType
    <2>3. CASE e.type = "item_done"
      BY <1>4, <1>5, <2>1, <2>3 DEF BlockKind, Used, USeen, VRType
    <2>4. CASE e.type = "item_added"
      BY <1>4, <1>5, <2>1, <2>4 DEF BlockKind, Used, USeen, VRType
    <2> QED BY <2>2, <2>3, <2>4
  <1>7. RLinked(c, id, v, t)
      BY <1>6 DEF RLinked
  <1> QED BY <1>2, <1>3, <1>7 DEF RConverted, t

\* response.created.
LEMMA RCreates ==
    ASSUME NEW d, NEW v, Sees(d, << >>, v), NEW u, VRType(u), NEW e, VRMay(UpIndexes, u, e),
           NEW c \in RCtx, NEW id, RLinked(c, id, v, u), e.type = "created"
    PROVE  RConverted(d, RespToClaude!emit_message_start_if_needed(Result(c, << >>)), id, v,
                      u, e)
  <1> DEFINE t == VRAfter(u, e)
             m == ClaudeEv("message_start", "none", 0)
             w == VAfter(v, m)
             b == [c EXCEPT !.message_start_sent = TRUE]
             o == Append(<< >>, m)
  <1>1. v \in ViewType /\ << >> \in Seq(ClaudeEvent)
      BY SeesType
  <1>2. ~u.created /\ u.kind = "none"
    <2>1. ~u.created
      BY DEF VRMay, RespEv
    <2> QED BY <2>1 DEF VRType
  <1>3. ~v.started /\ ~c.message_start_sent
      BY <1>2 DEF RLinked
  <1>4. RespToClaude!emit_message_start_if_needed(Result(c, << >>)) = Result(b, o)
      BY <1>1, <1>3, RStart
  <1>5. VMay(v, m)
      BY <1>3 DEF VMay
  <1>6. Sees(d, o, w) /\ o \in Seq(ClaudeEvent)
    <2>1. Sees(d, o, w)
      BY <1>5, SeesMore
    <2> QED BY <2>1, SeesType
  <1>7. b \in RCtx
      BY DEF RCtx
  <1>8. Result(b, o) \in RResult /\ Result(b, o).ctx = b /\ Result(b, o).out = o
      BY <1>6, <1>7, ResultIs
  <1>9. /\ b.message_start_sent = TRUE /\ b.finish_reason_sent = c.finish_reason_sent
        /\ b.next_content_index = c.next_content_index /\ b.open_indices = c.open_indices
        /\ b.fallback_open_index = c.fallback_open_index /\ b.index_by_key = c.index_by_key
        /\ b.last_tool_index = c.last_tool_index
             /\ b.tool_index_by_item_id = c.tool_index_by_item_id
      BY DEF RCtx
  <1>10. m.type = "message_start" /\ m.kind = "none"
      BY DEF ClaudeEv
  <1>11. w.started = TRUE /\ w.stopped = v.stopped /\ w.blocks = v.blocks /\ w.kind = v.kind
           /\ w.calls = v.calls /\ w.said = v.said
    <2>1. /\ w.started = (v.started \/ m.type = "message_start")
               /\ w.stopped = (v.stopped \/ m.type = "message_stop")
          /\ w.reason = (v.reason \/ m.kind = "stop")
          /\ w.blocks = (IF m.type = "content_block_start" THEN v.blocks + 1 ELSE v.blocks)
          /\ w.kind = (IF m.type = "content_block_start" THEN m.kind
                       ELSE IF m.type = "content_block_stop" THEN "none" ELSE v.kind)
          /\ w.calls = (IF m.type = "content_block_start" /\ m.kind = "tool_use"
                        THEN v.calls + 1 ELSE v.calls)
          /\ w.said = IF m.type = "content_block_delta"
                THEN Append(v.said, <<m.kind, IF m.kind = "tool_use" THEN v.calls ELSE 0>>)
                    ELSE v.said
      BY VFields
    <2> HIDE DEF w, m
    <2> QED BY <1>1, <1>10, <2>1 DEF ViewType
  <1>12. v.said \o RPiece(u, e) = v.said
      BY <1>1 DEF RPiece, ViewType
  <1>13. /\ t.created /\ t.created \in BOOLEAN /\ t.next = u.next /\ t.calls = u.calls
              /\ t.kind = u.kind /\ (u.ended => t.ended)
         /\ BlockKind(t) = BlockKind(u) /\ Used(t) = Used(u)
    <2>1. /\ t.created = (u.created \/ e.type = "created")
          /\ t.ended = (u.ended \/ e.type \in {"completed", "failed"})
          /\ t.next = (IF e.type = "item_added" THEN e.index + 1 ELSE u.next)
          /\ t.calls = (IF e.type = "item_added" /\ e.kind = "function_call" THEN u.calls + 1
                        ELSE u.calls)
          /\ t.kind = (IF e.type = "item_added" THEN e.kind ELSE IF e.type = "item_done"
                       THEN "none" ELSE u.kind)
          /\ t.part = USeen(u, e, u.part, "part_added")
               /\ t.parted = USeen(u, e, u.parted, "part_done")
          /\ t.called = USeen(u, e, u.called, "args_done")
          /\ t.thinking = USeen(u, e, u.thinking, "reasoning_delta")
               /\ t.thought = USeen(u, e, u.thought, "reasoning_done")
      BY UFields
    <2> HIDE DEF t
    <2> QED BY <1>2, <2>1 DEF BlockKind, Used, USeen, VRType
  <1> HIDE DEF t, w, b, o, m
  <1>14. RLinked(b, id, w, t)
      BY <1>9, <1>11, <1>13, Zenon DEF RLinked
  <1>15. RConverted(d, Result(b, o), id, v, u, e)
      BY <1>6, <1>8, <1>11, <1>12, <1>14 DEF RConverted, t
  <1> QED BY <1>4, <1>15

\* The index of the open content part.
LEMMA ResolvesOpen ==
    ASSUME NEW v \in ViewType, v.blocks > 0, NEW u, VRType(u), u.kind # "none", NEW e,
           e.index = u.next - 1, NEW c \in RCtx,
           NEW id \in RespToClaude!IdStyle, RLinked(c, id, v, u),
               v.kind \in {"text", "thinking"}
    PROVE  /\ RespToClaude!resolve_content_index(c, id, e)
                = [index |-> v.blocks - 1, ctx |-> c]
           /\ id # "none"
                => RespToClaude!known(RespToClaude!content_part_key(id, e), c)
                /\ c.index_by_key[RespToClaude!content_part_key(id, e)] = v.blocks - 1
           /\ id = "none"
                => RespToClaude!content_part_key(id, e) = None
                /\ c.fallback_open_index = v.blocks - 1 /\ c.fallback_open_index # None
  <1> DEFINE k == RespToClaude!content_part_key(id, e)
  <1>1. u.next \in Nat /\ u.next - 1 \in Nat /\ v.blocks \in Nat /\ v.blocks - 1 \in Nat
      BY DEF VRType, ViewType
  <1>2. CASE id = "none"
    <2>1. k = None /\ c.fallback_open_index = v.blocks - 1 /\ v.blocks - 1 # None
      BY <1>1, <1>2, NoneIs DEF RespToClaude!content_part_key, RLinked
    <2>2. ~RespToClaude!known(k, c)
      BY <2>1 DEF RespToClaude!known
    <2> HIDE DEF k
    <2>3. RespToClaude!resolve_content_index(c, id, e) = [index |-> v.blocks - 1, ctx |-> c]
      BY <2>1, <2>2 DEF RespToClaude!resolve_content_index, k
    <2> QED BY <1>2, <2>1, <2>3 DEF k
  <1>3. CASE id # "none"
    <2>1. k = PartKey(id, u.next - 1)
      BY <1>3 DEF RespToClaude!content_part_key, PartKey, RespToClaude!IdStyle
    <2>2. k # None
      BY <1>1, <2>1, NoneIs DEF PartKey, KeyNames
    <2>3. k \in DOMAIN c.index_by_key /\ c.index_by_key[k] = v.blocks - 1
      BY <1>3, <2>1 DEF RLinked
    <2>4. RespToClaude!known(k, c)
      BY <2>2, <2>3 DEF RespToClaude!known
    <2> HIDE DEF k
    <2>5. RespToClaude!resolve_content_index(c, id, e) = [index |-> v.blocks - 1, ctx |-> c]
      <3>1. RespToClaude!resolve_content_index(c, id, e)
              = [index |-> c.index_by_key[k], ctx |-> c]
        BY <2>2, <2>4 DEF RespToClaude!resolve_content_index, k
      <3> QED BY <2>3, <3>1
    <2> QED BY <1>3, <2>3, <2>4, <2>5 DEF k
  <1> QED BY <1>2, <1>3

Assigned(i, b) == [index |-> i, ctx |-> b]

Numbered(c) == [c EXCEPT !.next_content_index = c.next_content_index + 1]

Keyed(c, k) == [c EXCEPT !.next_content_index = c.next_content_index + 1,
                         !.index_by_key
                             = RespToClaude!insert(c.index_by_key, k, c.next_content_index)]

Unkeyed(c) == [c EXCEPT !.next_content_index = c.next_content_index + 1,
               !.fallback_open_index = c.next_content_index]

\* The contexts that assign an index have their type.
LEMMA NumberedTyped ==
    ASSUME NEW c \in RCtx
    PROVE  Numbered(c) \in RCtx /\ Unkeyed(c) \in RCtx /\ \A k \in Keys : Keyed(c, k) \in RCtx
  <1>1. c.next_content_index \in Nat /\ c.next_content_index + 1 \in Nat
          /\ c.index_by_key \in Partial(Keys)
      BY DEF RCtx
  <1>2. ASSUME NEW b \in RCtx, NEW f \in Partial(Keys)
        PROVE [b EXCEPT !.index_by_key = f] \in RCtx
      BY DEF RCtx
  <1>3. ASSUME NEW b \in RCtx, NEW n \in Nat
        PROVE [b EXCEPT !.fallback_open_index = n] \in RCtx
      BY DEF RCtx
  <1>4. Numbered(c) \in RCtx
      BY <1>1 DEF Numbered, RCtx
  <1>5. ASSUME NEW k \in Keys PROVE Keyed(c, k) \in RCtx
    <2>1. RespToClaude!insert(c.index_by_key, k, c.next_content_index) \in Partial(Keys)
      BY <1>1, Inserts, Zenon DEF Inserted
    <2>2. Keyed(c, k)
            = [Numbered(c) EXCEPT !.index_by_key
            = RespToClaude!insert(c.index_by_key, k, c.next_content_index)]
      BY DEF Numbered, Keyed, RCtx
    <2> QED BY <1>2, <1>4, <2>1, <2>2
  <1>6. Unkeyed(c) = [Numbered(c) EXCEPT !.fallback_open_index = c.next_content_index]
      BY DEF Numbered, Unkeyed, RCtx
  <1> QED BY <1>1, <1>3, <1>4, <1>5, <1>6

\* next_index, alone and for an item without a key.
LEMMA NextIs ==
    ASSUME NEW c \in RCtx
    PROVE  /\ RespToClaude!next_index(c) = Assigned(c.next_content_index, Numbered(c))
           /\ [RespToClaude!next_index(c) EXCEPT !.ctx.fallback_open_index
                = RespToClaude!next_index(c).index]
                = Assigned(c.next_content_index, Unkeyed(c))
  <1> DEFINE n == RespToClaude!next_index(c)
  <1>1. n = Assigned(c.next_content_index, Numbered(c))
      BY DEF RespToClaude!next_index, Assigned, Numbered
  <1>2. n \in [index : Nat, ctx : RCtx] /\ n.index = c.next_content_index
          /\ n.ctx = Numbered(c)
      BY <1>1, NumberedTyped DEF Assigned, RCtx
  <1>3. [n.ctx EXCEPT !.fallback_open_index = n.index] = Unkeyed(c)
      BY <1>2, NumberedTyped, Zenon DEF Numbered, Unkeyed, RCtx
  <1> HIDE DEF n
  <1>4. [n EXCEPT !.ctx.fallback_open_index = n.index]
          = [n EXCEPT !.ctx = [n.ctx EXCEPT !.fallback_open_index = n.index]]
      BY <1>2
  <1>5. [n EXCEPT !.ctx = Unkeyed(c)] = Assigned(c.next_content_index, Unkeyed(c))
      BY <1>2, NumberedTyped DEF Assigned
  <1>6. [n EXCEPT !.ctx.fallback_open_index = n.index]
          = Assigned(c.next_content_index, Unkeyed(c))
      BY <1>3, <1>4, <1>5, Zenon
  <1> QED BY <1>1, <1>6 DEF n

\* assign_index.
LEMMA AssignIs ==
    ASSUME NEW c \in RCtx, NEW k \in Keys
    PROVE  RespToClaude!assign_index(c, k) = Assigned(c.next_content_index, Keyed(c, k))
  <1> DEFINE n == RespToClaude!next_index(c)
             f == RespToClaude!insert(n.ctx.index_by_key, k, n.index)
  <1>1. n = Assigned(c.next_content_index, Numbered(c))
      BY NextIs
  <1>2. n \in [index : Nat, ctx : RCtx] /\ n.index = c.next_content_index
          /\ n.ctx = Numbered(c)
      BY <1>1, NumberedTyped DEF Assigned, RCtx
  <1>3. n.ctx.index_by_key = c.index_by_key
      BY <1>2 DEF Numbered, RCtx
  <1>4. f = RespToClaude!insert(c.index_by_key, k, c.next_content_index)
      BY <1>2, <1>3
  <1>5. [n.ctx EXCEPT !.index_by_key = f] = Keyed(c, k)
    <2> HIDE DEF f
    <2> QED BY <1>2, <1>4 DEF Numbered, Keyed, RCtx
  <1>6. [n EXCEPT !.ctx.index_by_key = f]
          = [n EXCEPT !.ctx = [n.ctx EXCEPT !.index_by_key = f]]
    <2> HIDE DEF n, f
    <2> QED BY <1>2
  <1>7. [n EXCEPT !.ctx = Keyed(c, k)] = Assigned(c.next_content_index, Keyed(c, k))
    <2> HIDE DEF n
    <2> QED BY <1>2, NumberedTyped DEF Assigned
  <1>8. RespToClaude!assign_index(c, k) = [n EXCEPT !.ctx.index_by_key = f]
      BY Zenon DEF RespToClaude!assign_index
  <1> HIDE DEF n, f
  <1> QED BY <1>5, <1>6, <1>7, <1>8, Zenon

\* The context in which the next block is the one of a content part.
Placed(c, id, x) == IF id = "none" THEN Unkeyed(c) ELSE Keyed(c, PartKey(id, x))

\* resolve_content_index assigns the next index to a part seen for the first
\* time.
LEMMA ResolvesFresh ==
    ASSUME NEW v \in ViewType, NEW u, VRType(u), NEW e, e.index = u.next - 1, NEW c \in RCtx,
           NEW id \in RespToClaude!IdStyle, RLinked(c, id, v, u), v.kind = "none",
           u.kind \in {"message", "reasoning"}, ~u.part, ~u.thinking
    PROVE  /\ RespToClaude!resolve_content_index(c, id, e)
                = Assigned(c.next_content_index, Placed(c, id, u.next - 1))
           /\ ~RespToClaude!known(RespToClaude!content_part_key(id, e), c)
           /\ id = "none" <=> RespToClaude!content_part_key(id, e) = None
           /\ c.fallback_open_index = None
  <1> DEFINE k == RespToClaude!content_part_key(id, e)
  <1>1. u.next \in Nat /\ u.next - 1 \in Nat /\ v.blocks \in Nat
      BY DEF VRType, ViewType
  <1>2. c.fallback_open_index = None
      BY DEF RLinked
  <1>3. CASE id = "none"
    <2>1. k = None
      BY <1>3 DEF RespToClaude!content_part_key
    <2>2. ~RespToClaude!known(k, c)
      BY <2>1 DEF RespToClaude!known
    <2>3. RespToClaude!resolve_content_index(c, id, e)
            = [RespToClaude!next_index(c) EXCEPT !.ctx.fallback_open_index
                = RespToClaude!next_index(c).index]
      <3> HIDE DEF k
      <3> QED BY <1>2, <2>1, <2>2, Zenon DEF RespToClaude!resolve_content_index, k
    <2> QED BY <1>2, <1>3, <2>1, <2>2, <2>3, NextIs DEF Placed
  <1>4. CASE id # "none"
    <2>1. k = PartKey(id, u.next - 1)
      BY <1>4 DEF RespToClaude!content_part_key, PartKey, RespToClaude!IdStyle
    <2>2. k # None /\ k \in Keys
      BY <1>1, <2>1, NoneIs DEF PartKey, KeyNames
    <2>3. k \notin DOMAIN c.index_by_key
      <3>1. Used(u) = u.next - 1
        BY DEF Used
      <3>2. \A s \in KeyNames : <<s, u.next - 1>> \notin DOMAIN c.index_by_key
        BY <1>1, <3>1 DEF RLinked
      <3> QED BY <2>1, <3>2 DEF PartKey, KeyNames
    <2>4. ~RespToClaude!known(k, c)
      BY <2>3 DEF RespToClaude!known
    <2>5. RespToClaude!resolve_content_index(c, id, e) = RespToClaude!assign_index(c, k)
      <3> HIDE DEF k
      <3> QED BY <2>2, <2>4, Zenon DEF RespToClaude!resolve_content_index, k
    <2>6. RespToClaude!assign_index(c, k) = Assigned(c.next_content_index, Keyed(c, k))
      BY <2>2, AssignIs
    <2> HIDE DEF k
    <2>7. Placed(c, id, u.next - 1) = Keyed(c, k)
      BY <1>4, <2>1 DEF Placed
    <2>8. RespToClaude!resolve_content_index(c, id, e)
            = Assigned(c.next_content_index, Placed(c, id, u.next - 1))
      BY <2>5, <2>6, <2>7
    <2> QED BY <1>2, <1>4, <2>2, <2>4, <2>8 DEF k
  <1> QED BY <1>3, <1>4

\* A step of the upstream that leaves the open block as it is.
Continues(u, t) ==
    /\ t.created = u.created /\ (u.ended => t.ended) /\ t.calls = u.calls /\ t.next = u.next
    /\ BlockKind(t) = BlockKind(u) /\ Used(u) \in Int /\ Used(t) \in Int /\ Used(u) <= Used(t)

\* The context stays linked to both streams while the item goes on.
LEMMA StaysLinked ==
    ASSUME NEW c, NEW id, NEW v, NEW u, RLinked(c, id, v, u), NEW t, Continues(u, t),
           NEW w, w.started = v.started, w.stopped = v.stopped, w.blocks = v.blocks,
               w.kind = v.kind, w.calls = v.calls
    PROVE  RLinked(c, id, w, t)
  BY DEF RLinked, Continues

\* A delta goes on with the open item.
LEMMA UContinues ==
    ASSUME NEW u, VRType(u), NEW e, VRMay(UpIndexes, u, e),
           e.type \in {"text_delta", "args_delta"}
               \/ (e.type = "reasoning_delta" /\ u.thinking)
    PROVE  Continues(u, VRAfter(u, e))
  <1> DEFINE t == VRAfter(u, e)
  <1>1. /\ t.created = (u.created \/ e.type = "created")
        /\ t.ended = (u.ended \/ e.type \in {"completed", "failed"})
        /\ t.next = (IF e.type = "item_added" THEN e.index + 1 ELSE u.next)
        /\ t.calls = (IF e.type = "item_added" /\ e.kind = "function_call" THEN u.calls + 1
                      ELSE u.calls)
        /\ t.kind = (IF e.type = "item_added" THEN e.kind ELSE IF e.type = "item_done"
                     THEN "none" ELSE u.kind)
        /\ t.part = USeen(u, e, u.part, "part_added")
             /\ t.parted = USeen(u, e, u.parted, "part_done")
        /\ t.called = USeen(u, e, u.called, "args_done")
        /\ t.thinking = USeen(u, e, u.thinking, "reasoning_delta")
             /\ t.thought = USeen(u, e, u.thought, "reasoning_done")
      BY UFields
  <1> HIDE DEF t
  <1>2. e.type \in {"text_delta", "args_delta", "reasoning_delta"}
      OBVIOUS
  <1>3. /\ t.created = u.created /\ t.next = u.next /\ t.calls = u.calls /\ t.kind = u.kind
             /\ (u.ended => t.ended)
        /\ t.part = u.part /\ t.parted = u.parted /\ t.called = u.called
             /\ t.thinking = u.thinking /\ t.thought = u.thought
      BY <1>1, <1>2 DEF USeen, VRType
  <1>4. Continues(u, t)
      BY <1>3 DEF Continues, BlockKind, Used, VRType
  <1> QED BY <1>4 DEF t

\* A delta of the open block.
MoreSaid(d, o, v, k, c, id, t, m) ==
    /\ RespToClaude!emit(Result(c, o),
                         RespToClaude!claude("content_block_delta", k, v.blocks - 1))
         = Result(c, Append(o, m))
    /\ Result(c, Append(o, m)) \in RResult /\ Result(c, Append(o, m)).ctx = c
         /\ Result(c, Append(o, m)).out = Append(o, m)
    /\ Sees(d, Append(o, m), VAfter(v, m))
    /\ RLinked(c, id, VAfter(v, m), t)
    /\ VAfter(v, m).said = Append(v.said, <<k, IF k = "tool_use" THEN v.calls ELSE 0>>)

\* A delta to the open block of the open item.
LEMMA RSaysMore ==
    ASSUME NEW d, NEW o, NEW v, Sees(d, o, v), NEW k, k \in Kinds, v.kind = k, NEW c \in RCtx,
           NEW id, NEW u, RLinked(c, id, v, u),
           NEW t, Continues(u, t), NEW m, m = ClaudeEv("content_block_delta", k, v.blocks - 1)
    PROVE  MoreSaid(d, o, v, k, c, id, t, m)
  <1> DEFINE w == VAfter(v, m)
  <1>1. v \in ViewType /\ v.blocks > 0 /\ o \in Seq(ClaudeEvent)
      BY SeesType DEF Kinds
  <1>2. VMay(v, m)
      BY DEF VMay, Kinds
  <1>3. Sees(d, Append(o, m), w) /\ m \in ClaudeEvent
      BY <1>2, SeesMore
  <1>4. Append(o, m) \in Seq(ClaudeEvent)
      BY <1>1, <1>3
  <1>5. /\ w.started = (v.started \/ m.type = "message_start")
             /\ w.stopped = (v.stopped \/ m.type = "message_stop")
        /\ w.reason = (v.reason \/ m.kind = "stop")
        /\ w.blocks = (IF m.type = "content_block_start" THEN v.blocks + 1 ELSE v.blocks)
        /\ w.kind = (IF m.type = "content_block_start" THEN m.kind
                     ELSE IF m.type = "content_block_stop" THEN "none" ELSE v.kind)
        /\ w.calls = (IF m.type = "content_block_start" /\ m.kind = "tool_use"
                      THEN v.calls + 1 ELSE v.calls)
        /\ w.said = IF m.type = "content_block_delta"
                THEN Append(v.said, <<m.kind, IF m.kind = "tool_use" THEN v.calls ELSE 0>>)
                    ELSE v.said
      BY VFields
  <1>6. m.type = "content_block_delta" /\ m.kind = k
      BY DEF ClaudeEv
  <1> HIDE DEF w
  <1>7. w.started = v.started /\ w.stopped = v.stopped /\ w.blocks = v.blocks
          /\ w.kind = v.kind /\ w.calls = v.calls
        /\ w.said = Append(v.said, <<k, IF k = "tool_use" THEN v.calls ELSE 0>>)
      BY <1>1, <1>5, <1>6 DEF ViewType
  <1>8. RLinked(c, id, w, t)
      BY <1>7, StaysLinked
  <1>9. RespToClaude!emit(Result(c, o), m) = Result(c, Append(o, m))
      BY <1>1, <1>3, REmit
  <1>10. RespToClaude!claude("content_block_delta", k, v.blocks - 1) = m
      BY REvent
  <1>11. Result(c, Append(o, m)) \in RResult /\ Result(c, Append(o, m)).ctx = c
           /\ Result(c, Append(o, m)).out = Append(o, m)
      BY <1>4, ResultIs
  <1> QED BY <1>3, <1>7, <1>8, <1>9, <1>10, <1>11 DEF w, MoreSaid

\* The context after a content part is given the next index.
LEMMA PlacedIs ==
    ASSUME NEW c \in RCtx, NEW id, NEW x \in Nat, NEW p, p = Placed(c, id, x), NEW q,
           q = PartKey(id, x)
    PROVE  /\ p \in RCtx /\ q \in Keys
           /\ p.message_start_sent = c.message_start_sent
                /\ p.finish_reason_sent = c.finish_reason_sent
           /\ p.next_content_index = c.next_content_index + 1
                /\ p.open_indices = c.open_indices
           /\ p.fallback_open_index
                = (IF id = "none" THEN c.next_content_index ELSE c.fallback_open_index)
           /\ id = "none" => p.index_by_key = c.index_by_key
           /\ id # "none"
                => DOMAIN p.index_by_key = DOMAIN c.index_by_key \cup {q}
                /\ p.index_by_key[q] = c.next_content_index
  <1>1. q \in Keys
      BY NoneIs DEF PartKey, KeyNames
  <1>2. p \in RCtx
      BY <1>1, NumberedTyped DEF Placed
  <1>3. /\ p.message_start_sent = c.message_start_sent
             /\ p.finish_reason_sent = c.finish_reason_sent
        /\ p.next_content_index = c.next_content_index + 1 /\ p.open_indices = c.open_indices
        /\ p.fallback_open_index
             = (IF id = "none" THEN c.next_content_index ELSE c.fallback_open_index)
        /\ p.index_by_key = IF id = "none" THEN c.index_by_key
             ELSE RespToClaude!insert(c.index_by_key, q, c.next_content_index)
    <2>1. CASE id = "none"
      BY <2>1 DEF Placed, Unkeyed, RCtx
    <2>2. CASE id # "none"
      BY <2>2 DEF Placed, Keyed, RCtx
    <2> QED BY <2>1, <2>2
  <1>4. ASSUME id # "none"
        PROVE DOMAIN p.index_by_key = DOMAIN c.index_by_key \cup {q}
                 /\ p.index_by_key[q] = c.next_content_index
    <2> DEFINE g == p.index_by_key
               f == c.index_by_key
               n == c.next_content_index
    <2>1. g = RespToClaude!insert(f, q, n) /\ f \in Partial(Keys) /\ n \in Nat
      BY <1>3, <1>4 DEF RCtx
    <2> HIDE DEF f, g, n
    <2>2. Inserted(Keys, f, q, n, g)
      BY ONLY <1>1, <2>1, Inserts
    <2> QED BY <2>2 DEF f, g, n, Inserted
  <1> QED BY <1>1, <1>2, <1>3, <1>4

\* A block is opened.
LEMMA OpensNew ==
    ASSUME NEW p \in RCtx, NEW n \in Nat, n \notin p.open_indices, NEW k \in Kinds, NEW b,
           b = Opened(p, n),
           NEW m, m = ClaudeEv("content_block_start", k, n)
    PROVE  RespToClaude!open_block(Result(p, << >>), k, n) = Result(b, <<m>>)
             /\ m \in ClaudeEvent
  <1>1. << >> \in Seq(ClaudeEvent)
      OBVIOUS
  <1>2. RespToClaude!open_block(Result(p, << >>), k, n)
             = IF n \in p.open_indices THEN Result(p, << >>)
               ELSE Result(Opened(p, n), Append(<< >>, ClaudeEv("content_block_start", k, n)))
      BY <1>1, ROpens
  <1>3. Append(<< >>, m) = <<m>>
      OBVIOUS
  <1>4. m \in ClaudeEvent
      BY DEF ClaudeEv, ClaudeEvent, ClaudeTypes, ClaudeKinds
  <1> QED BY <1>2, <1>3, <1>4

\* The first event of a content part.
OpensPart(u, t, k) ==
    /\ t.created = u.created /\ (u.ended => t.ended) /\ t.calls = u.calls /\ t.next = u.next
    /\ BlockKind(t) = k /\ Used(t) = u.next

FreshPart(c, v, u) ==
    /\ v.kind = "none" /\ u.kind \in {"message", "reasoning"} /\ ~u.part /\ ~u.thinking
         /\ v.started /\ ~v.stopped

PartOpened(d, v, id, t, k, n, p, b, m) ==
    /\ b \in RCtx
    /\ RespToClaude!open_block(Result(p, << >>), k, n) = Result(b, <<m>>)
    /\ Sees(d, <<m>>, VAfter(v, m))
    /\ RLinked(b, id, VAfter(v, m), t)
    /\ VAfter(v, m).said = v.said /\ VAfter(v, m).kind = k /\ VAfter(v, m).blocks = n + 1

\* The first event of a part opens its block.
LEMMA RPartOpens ==
    ASSUME NEW d, NEW v, Sees(d, << >>, v), NEW u, VRType(u), NEW c \in RCtx,
           NEW id \in RespToClaude!IdStyle,
           RLinked(c, id, v, u), FreshPart(c, v, u), NEW k, k \in {"text", "thinking"}, NEW t,
               OpensPart(u, t, k),
           NEW x, x = u.next - 1, NEW n, n = v.blocks,
           NEW m, m = ClaudeEv("content_block_start", k, n),
           NEW p, p = Placed(c, id, x), NEW b, b = Opened(p, n)
    PROVE  PartOpened(d, v, id, t, k, n, p, b, m)
  <1>0. v.kind = "none" /\ u.kind \in {"message", "reasoning"} /\ ~u.part /\ ~u.thinking
          /\ v.started /\ ~v.stopped
      BY DEF FreshPart
  <1>0a. t.created = u.created /\ (u.ended => t.ended) /\ t.calls = u.calls /\ t.next = u.next
           /\ BlockKind(t) = k /\ Used(t) = u.next
      BY DEF OpensPart
  <1> DEFINE w == VAfter(v, m)
             q == PartKey(id, x)
  <1>1. v \in ViewType /\ n \in Nat /\ x \in Nat /\ k \in Kinds /\ u.next \in Nat
      BY <1>0, SeesType DEF ViewType, VRType, Kinds
  <1>2. VMay(v, m)
      BY <1>0, <1>1 DEF VMay
  <1>3. Sees(d, Append(<< >>, m), w)
      BY <1>2, SeesMore
  <1>4. Append(<< >>, m) = <<m>>
      OBVIOUS
  <1>7. c.next_content_index = n /\ c.open_indices = {} /\ c.message_start_sent = v.started
          /\ c.finish_reason_sent = v.stopped
        /\ c.fallback_open_index = None
      BY <1>0 DEF RLinked
  <1>8. /\ p \in RCtx /\ q \in Keys
        /\ p.message_start_sent = c.message_start_sent
             /\ p.finish_reason_sent = c.finish_reason_sent
        /\ p.next_content_index = c.next_content_index + 1 /\ p.open_indices = c.open_indices
        /\ p.fallback_open_index
             = (IF id = "none" THEN c.next_content_index ELSE c.fallback_open_index)
        /\ id = "none" => p.index_by_key = c.index_by_key
        /\ id # "none"
             => DOMAIN p.index_by_key = DOMAIN c.index_by_key \cup {q}
             /\ p.index_by_key[q] = c.next_content_index
    <2> DEFINE Q == q
    <2>1. Q = PartKey(id, x)
      OBVIOUS
    <2> HIDE DEF Q
    <2>2. /\ p \in RCtx /\ Q \in Keys
          /\ p.message_start_sent = c.message_start_sent
               /\ p.finish_reason_sent = c.finish_reason_sent
          /\ p.next_content_index = c.next_content_index + 1
               /\ p.open_indices = c.open_indices
          /\ p.fallback_open_index
               = (IF id = "none" THEN c.next_content_index ELSE c.fallback_open_index)
          /\ id = "none" => p.index_by_key = c.index_by_key
          /\ id # "none"
               => DOMAIN p.index_by_key = DOMAIN c.index_by_key \cup {Q}
               /\ p.index_by_key[Q] = c.next_content_index
      BY <1>1, <2>1, PlacedIs
    <2> QED BY <2>2, Zenon DEF Q
  <1>9. /\ b \in RCtx /\ b.open_indices = p.open_indices \cup {n}
        /\ b.message_start_sent = p.message_start_sent
             /\ b.finish_reason_sent = p.finish_reason_sent
        /\ b.next_content_index = p.next_content_index
             /\ b.fallback_open_index = p.fallback_open_index
        /\ b.index_by_key = p.index_by_key /\ b.last_tool_index = p.last_tool_index
        /\ b.tool_index_by_item_id = p.tool_index_by_item_id
    <2>1. p \in RCtx /\ n \in Nat /\ b = Opened(p, n)
      BY <1>1, <1>8, Zenon
    <2> QED BY ONLY <2>1, OpenedIs
  <1>10. RespToClaude!open_block(Result(p, << >>), k, n) = Result(b, <<m>>)
    <2>1. n \notin p.open_indices
      BY <1>7, <1>8
    <2> QED BY <1>1, <1>8, <2>1, OpensNew
  <1>11. /\ w.started = (v.started \/ m.type = "message_start")
              /\ w.stopped = (v.stopped \/ m.type = "message_stop")
        /\ w.reason = (v.reason \/ m.kind = "stop")
        /\ w.blocks = (IF m.type = "content_block_start" THEN v.blocks + 1 ELSE v.blocks)
        /\ w.kind = (IF m.type = "content_block_start" THEN m.kind
                     ELSE IF m.type = "content_block_stop" THEN "none" ELSE v.kind)
        /\ w.calls = (IF m.type = "content_block_start" /\ m.kind = "tool_use"
                      THEN v.calls + 1 ELSE v.calls)
        /\ w.said = IF m.type = "content_block_delta"
                THEN Append(v.said, <<m.kind, IF m.kind = "tool_use" THEN v.calls ELSE 0>>)
                    ELSE v.said
      BY VFields
  <1>12. m.type = "content_block_start" /\ m.kind = k
      BY DEF ClaudeEv
  <1> HIDE DEF w
  <1>13. w.started = v.started /\ w.stopped = v.stopped /\ w.blocks = n + 1 /\ w.kind = k
           /\ w.calls = v.calls /\ w.said = v.said
      BY <1>1, <1>11, <1>12 DEF ViewType
  <1>14. \A s \in KeyNames, y \in Nat : <<s, y>> \in DOMAIN b.index_by_key
           => y < u.next /\ ~(id = "mixed" /\ s = "tool:out")
    <2>1. \A s \in KeyNames, y \in Nat : <<s, y>> \in DOMAIN c.index_by_key
            => y < u.next - 1 /\ ~(id = "mixed" /\ s = "tool:out")
      <3>1. Used(u) = u.next - 1
        BY <1>0 DEF Used
      <3> QED BY <3>1 DEF RLinked
    <2>3. CASE id = "none"
      BY <1>1, <1>8, <1>9, <2>1, <2>3
    <2>4. CASE id # "none"
      <3>3. \A s, y : <<s, y>> = q => y = u.next - 1 /\ s \in {"part", "part:out"}
        BY DEF PartKey
      <3> HIDE DEF q
      <3>4. DOMAIN b.index_by_key = DOMAIN c.index_by_key \cup {q}
        BY <1>8, <1>9, <2>4
      <3> QED BY <1>1, <2>1, <3>3, <3>4
    <2> QED BY <2>3, <2>4
  <1>15. id # "none" => q \in DOMAIN b.index_by_key /\ b.index_by_key[q] = n
    <2> HIDE DEF q
    <2> QED BY <1>7, <1>8, <1>9
  <1>16. RLinked(b, id, w, t)
    <2>1. (n + 1) - 1 = n
      BY <1>1
    <2>2. c.message_start_sent = v.started /\ v.started = u.created /\ v.calls = u.calls
            /\ (v.stopped => u.ended)
      BY DEF RLinked
    <2>4. PartKey(id, t.next - 1) = q
      BY <1>0a
    <2>5. id # "none" => None = b.fallback_open_index
      BY <1>7, <1>8, <1>9
    <2>6. id = "none" => n = b.fallback_open_index
      BY <1>7, <1>8, <1>9
    <2> HIDE DEF q
    <2>3. w.kind # "none" /\ w.kind # "tool_use" /\ w.blocks - 1 = n
      BY <1>13, <2>1
    <2>3a. b.open_indices = {n}
      BY <1>7, <1>8, <1>9
    <2>7. /\ b.message_start_sent = w.started /\ w.started = t.created
          /\ b.finish_reason_sent = w.stopped /\ (w.stopped => t.ended)
          /\ b.next_content_index = w.blocks
          /\ w.kind = BlockKind(t) /\ w.calls = t.calls
          /\ b.open_indices = (IF w.kind = "none" THEN {} ELSE {w.blocks - 1})
      <3>1. b.next_content_index = w.blocks
        BY <1>7, <1>8, <1>9, <1>13, Zenon
      <3>2. /\ b.message_start_sent = w.started /\ w.started = t.created
            /\ b.finish_reason_sent = w.stopped
        <4>1. b.message_start_sent = w.started
          BY ONLY <1>7, <1>8, <1>9, <1>13
        <4>2. w.started = t.created
          BY ONLY <1>13, <2>2, <1>0a
        <4>3. b.finish_reason_sent = w.stopped
          BY ONLY <1>7, <1>8, <1>9, <1>13
        <4> QED BY <4>1, <4>2, <4>3
      <3>3. w.stopped => t.ended
        BY <1>0, <1>13
      <3>4. w.kind = BlockKind(t) /\ w.calls = t.calls
        BY <1>0a, <1>13, <2>2, Zenon
      <3>5. b.open_indices = (IF w.kind = "none" THEN {} ELSE {w.blocks - 1})
        BY <2>3, <2>3a, Zenon
      <3> QED BY <3>1, <3>2, <3>3, <3>4, <3>5
    <2>8. /\ b.fallback_open_index
               = (IF id = "none" /\ w.kind \in {"text", "thinking"} THEN w.blocks - 1
                  ELSE None)
          /\ w.kind # "tool_use"
      BY <1>13, <2>1, <2>5, <2>6
    <2>9. \A s \in KeyNames, y \in Nat : <<s, y>> \in DOMAIN b.index_by_key
            => y < Used(t) /\ ~(id = "mixed" /\ s = "tool:out")
      BY <1>0a, <1>14
    <2>10. id # "none" /\ w.kind \in {"text", "thinking"} =>
          PartKey(id, t.next - 1) \in DOMAIN b.index_by_key
              /\ b.index_by_key[PartKey(id, t.next - 1)] = w.blocks - 1
      BY <1>13, <1>15, <2>1, <2>4
    <2> QED BY <2>7, <2>8, <2>9, <2>10 DEF RLinked
  <1> QED BY <1>3, <1>4, <1>9, <1>10, <1>13, <1>16 DEF w, PartOpened

\* The events of a content part, once its index is known.
LEMMA PartIs ==
    ASSUME NEW c \in RCtx, c.message_start_sent, NEW id, NEW e, NEW n, NEW p \in RCtx, NEW k,
           RespToClaude!resolve_content_index(c, id, e) = Assigned(n, p)
    PROVE  /\ RespToClaude!part_added(Result(c, << >>), id, e)
                = RespToClaude!open_block(Result(p, << >>), "text", n)
           /\ RespToClaude!content_delta(Result(c, << >>), id, e, k)
                = RespToClaude!emit(RespToClaude!open_block(Result(p, << >>), k, n),
                                    RespToClaude!claude("content_block_delta", k, n))
  <1> DEFINE r == Result(c, << >>)
             s == RespToClaude!emit_message_start_if_needed(r)
             i == RespToClaude!resolve_content_index(s.ctx, id, e)
  <1>1. << >> \in Seq(ClaudeEvent)
      OBVIOUS
  <1>2. r \in RResult /\ r.ctx = c /\ r.out = << >>
      BY <1>1, ResultIs
  <1>3. s = r
      BY <1>1, RStart
  <1>4. i = Assigned(n, p)
      BY <1>2, <1>3
  <1>5. i.ctx = p /\ i.index = n
      BY <1>4 DEF Assigned
  <1>6. [s EXCEPT !.ctx = i.ctx] = Result(p, << >>)
    <2>1. [r EXCEPT !.ctx = p] = Result(p, r.out)
      BY <1>2, WithCtx
    <2> QED BY <1>2, <1>3, <1>5, <2>1
  <1>7. RespToClaude!part_added(r, id, e)
          = RespToClaude!open_block([s EXCEPT !.ctx = i.ctx], "text", i.index)
      BY Zenon DEF RespToClaude!part_added
  <1>8. RespToClaude!content_delta(r, id, e, k)
          = RespToClaude!emit(RespToClaude!open_block([s EXCEPT !.ctx = i.ctx], k, i.index),
                              RespToClaude!claude("content_block_delta", k, i.index))
      BY Zenon DEF RespToClaude!content_delta
  <1> HIDE DEF s, i
  <1> QED BY <1>5, <1>6, <1>7, <1>8, Zenon

\* Where the upstream stands when it sends an event of an open item.
LEMMA OpenItem ==
    ASSUME NEW u, VRType(u), NEW e, VRMay(UpIndexes, u, e),
           e.type \in {"part_added", "text_delta", "args_delta", "reasoning_delta",
                       "part_done", "args_done", "reasoning_done"}
    PROVE  /\ u.kind # "none" /\ u.created /\ ~u.ended /\ e.index = u.next - 1
           /\ e.type = "part_added" => u.kind = "message" /\ ~u.part /\ ~u.thinking
           /\ e.type = "text_delta" => u.part /\ ~u.parted /\ ~u.texted
           /\ e.type = "part_done" => u.part /\ ~u.parted
           /\ e.type \in {"args_delta", "args_done"}
                => u.kind = "function_call" /\ ~u.called /\ ~u.part /\ ~u.thinking
           /\ e.type \in {"reasoning_delta", "reasoning_done"}
                => u.kind = "reasoning" /\ ~u.thought /\ ~u.part
  <1>1. /\ e.index = u.next - 1
        /\ e.type = "part_added" => u.kind = "message" /\ ~u.part
        /\ e.type = "text_delta" => u.part /\ ~u.texted
        /\ e.type = "part_done" => u.texted /\ ~u.parted
        /\ e.type \in {"args_delta", "args_done"} => u.kind = "function_call" /\ ~u.called
        /\ e.type \in {"reasoning_delta", "reasoning_done"}
             => u.kind = "reasoning" /\ ~u.thought
      BY DEF VRMay, RespEv
  <1> QED BY <1>1 DEF VRType

\* What such an event changes.
ItemAfter(u, t, e) ==
    /\ t.created = u.created /\ (u.ended => t.ended) /\ t.calls = u.calls /\ t.next = u.next
         /\ t.kind = u.kind
    /\ t.part <=> (u.part \/ e.type = "part_added")
    /\ t.parted <=> (u.parted \/ e.type = "part_done")
    /\ t.called <=> (u.called \/ e.type = "args_done")
    /\ t.thinking <=> (u.thinking \/ e.type = "reasoning_delta")
    /\ t.thought <=> (u.thought \/ e.type = "reasoning_done")

\* What an event inside an item changes in the view.
LEMMA AfterOpen ==
    ASSUME NEW u, VRType(u), u.kind # "none", NEW e,
           e.type \notin {"item_added", "item_done", "created", "completed", "failed"},
           NEW t, t = VRAfter(u, e)
    PROVE  ItemAfter(u, t, e)
  <1>1. /\ t.created = (u.created \/ e.type = "created")
        /\ t.ended = (u.ended \/ e.type \in {"completed", "failed"})
        /\ t.next = (IF e.type = "item_added" THEN e.index + 1 ELSE u.next)
        /\ t.calls = (IF e.type = "item_added" /\ e.kind = "function_call" THEN u.calls + 1
                      ELSE u.calls)
        /\ t.kind = (IF e.type = "item_added" THEN e.kind ELSE IF e.type = "item_done"
                     THEN "none" ELSE u.kind)
        /\ t.part = USeen(u, e, u.part, "part_added")
             /\ t.parted = USeen(u, e, u.parted, "part_done")
        /\ t.called = USeen(u, e, u.called, "args_done")
        /\ t.thinking = USeen(u, e, u.thinking, "reasoning_delta")
             /\ t.thought = USeen(u, e, u.thought, "reasoning_done")
      BY UFields
  <1> QED BY <1>1 DEF USeen, VRType, ItemAfter

\* response.content_part.added.
LEMMA RPartAdds ==
    ASSUME NEW d, NEW v, Sees(d, << >>, v), NEW u, VRType(u), NEW e, VRMay(UpIndexes, u, e),
           NEW c \in RCtx, NEW id \in RespToClaude!IdStyle, RLinked(c, id, v, u),
               e.type = "part_added"
    PROVE  RConverted(d, RespToClaude!part_added(Result(c, << >>), id, e), id, v, u, e)
  <1>1. u.kind # "none" /\ u.created /\ ~u.ended /\ e.index = u.next - 1 /\ u.kind = "message"
          /\ ~u.part /\ ~u.thinking
      BY OpenItem
  <1>2. v.kind = "none" /\ v.started /\ ~v.stopped /\ c.message_start_sent
          /\ c.next_content_index = v.blocks
    <2>1. BlockKind(u) = "none"
      BY <1>1 DEF BlockKind
    <2> QED BY <1>1, <2>1 DEF RLinked
  <1>3. v \in ViewType
      BY SeesType
  <1>4. PICK t : t = VRAfter(u, e)
      OBVIOUS
  <1>5. OpensPart(u, t, "text")
    <2>0. e.type \notin {"item_added", "item_done", "created", "completed", "failed"}
      OBVIOUS
    <2>1. ItemAfter(u, t, e)
      BY <1>1, <1>4, <2>0, AfterOpen
    <2>2. ~u.parted
      BY <1>1 DEF VRType
    <2> QED BY <1>1, <2>1, <2>2 DEF BlockKind, Used, ItemAfter, OpensPart
  <1>6. PICK x : x = u.next - 1
      OBVIOUS
  <1>7. PICK n : n = v.blocks
      OBVIOUS
  <1>8. PICK p : p = Placed(c, id, x)
      OBVIOUS
  <1>9. PICK b : b = Opened(p, n)
      OBVIOUS
  <1>10. PICK m : m = ClaudeEv("content_block_start", "text", n)
      OBVIOUS
  <1>11. x \in Nat
      BY <1>1, <1>6 DEF VRType
  <1>12. p \in RCtx
      BY <1>8, <1>11, PlacedIs
  <1>13. RespToClaude!resolve_content_index(c, id, e) = Assigned(n, p)
    <2>1. RespToClaude!resolve_content_index(c, id, e)
            = Assigned(c.next_content_index, Placed(c, id, u.next - 1))
      BY <1>1, <1>2, <1>3, ResolvesFresh
    <2> QED BY <1>2, <1>6, <1>7, <1>8, <2>1
  <1>14. RespToClaude!part_added(Result(c, << >>), id, e)
           = RespToClaude!open_block(Result(p, << >>), "text", n)
      BY <1>2, <1>12, <1>13, PartIs
  <1>15. PartOpened(d, v, id, t, "text", n, p, b, m)
    <2>1. FreshPart(c, v, u)
      BY <1>1, <1>2 DEF FreshPart
    <2>2. "text" \in {"text", "thinking"}
      OBVIOUS
    <2> QED BY <1>5, <1>6, <1>7, <1>8, <1>9, <1>10, <2>1, <2>2, RPartOpens
  <1>15a. /\ b \in RCtx
         /\ RespToClaude!open_block(Result(p, << >>), "text", n) = Result(b, <<m>>)
         /\ Sees(d, <<m>>, VAfter(v, m))
         /\ RLinked(b, id, VAfter(v, m), t)
         /\ VAfter(v, m).said = v.said
      BY <1>15 DEF PartOpened
  <1>16. <<m>> \in Seq(ClaudeEvent)
      BY <1>15a, SeesType
  <1>17. Result(b, <<m>>) \in RResult /\ Result(b, <<m>>).ctx = b
           /\ Result(b, <<m>>).out = <<m>>
      BY <1>15a, <1>16, ResultIs
  <1>18. v.said \o RPiece(u, e) = v.said
      BY <1>3 DEF RPiece, ViewType
  <1>19. RConverted(d, Result(b, <<m>>), id, v, u, e)
      BY <1>4, <1>15a, <1>17, <1>18 DEF RConverted
  <1> QED BY <1>14, <1>15a, <1>19

\* A delta of a content part that is open.
LEMMA RPartSays ==
    ASSUME NEW d, NEW v, Sees(d, << >>, v), NEW u, VRType(u), NEW e, VRMay(UpIndexes, u, e),
           NEW c \in RCtx, NEW id \in RespToClaude!IdStyle, RLinked(c, id, v, u),
           NEW k, (k = "text" /\ e.type = "text_delta")
               \/ (k = "thinking" /\ e.type = "reasoning_delta" /\ u.thinking)
    PROVE  RConverted(d, RespToClaude!content_delta(Result(c, << >>), id, e, k), id, v, u, e)
  <1>0. e.type \in {"part_added", "text_delta", "args_delta", "reasoning_delta", "part_done",
                    "args_done", "reasoning_done"}
      OBVIOUS
  <1>1. u.kind # "none" /\ u.created /\ ~u.ended /\ e.index = u.next - 1
        /\ (e.type = "text_delta" => u.part /\ ~u.parted)
             /\ (e.type = "reasoning_delta" => u.kind = "reasoning" /\ ~u.thought /\ ~u.part)
      BY <1>0, OpenItem
  <1>2. BlockKind(u) = k
      BY <1>1 DEF BlockKind, VRType
  <1>3. v.kind = k /\ k \in Kinds /\ v.kind \in {"text", "thinking"} /\ c.message_start_sent
          /\ c.open_indices = {v.blocks - 1}
      BY <1>1, <1>2 DEF RLinked, Kinds
  <1>4. v \in ViewType /\ v.blocks > 0
      BY <1>3, SeesType
  <1>5. PICK t : t = VRAfter(u, e)
      OBVIOUS
  <1>6. Continues(u, t)
      BY <1>5, UContinues
  <1>7. PICK n : n = v.blocks - 1
      OBVIOUS
  <1>8. RespToClaude!resolve_content_index(c, id, e) = Assigned(n, c)
    <2>1. RespToClaude!resolve_content_index(c, id, e) = [index |-> v.blocks - 1, ctx |-> c]
      BY <1>1, <1>3, <1>4, ResolvesOpen
    <2> QED BY <1>7, <2>1 DEF Assigned
  <1>9. RespToClaude!content_delta(Result(c, << >>), id, e, k)
          = RespToClaude!emit(RespToClaude!open_block(Result(c, << >>), k, n),
                              RespToClaude!claude("content_block_delta", k, n))
      BY <1>3, <1>8, PartIs
  <1>10. RespToClaude!open_block(Result(c, << >>), k, n) = Result(c, << >>)
    <2>1. n \in c.open_indices
      BY <1>3, <1>7
    <2>2. Result(c, << >>).ctx = c
      BY DEF Result
    <2> QED BY <2>1, <2>2, Zenon DEF RespToClaude!open_block
  <1>11. PICK m : m = ClaudeEv("content_block_delta", k, v.blocks - 1)
      OBVIOUS
  <1>11a. MoreSaid(d, << >>, v, k, c, id, t, m)
      BY <1>3, <1>6, <1>11, RSaysMore
  <1>12. /\ RespToClaude!emit(Result(c, << >>),
                              RespToClaude!claude("content_block_delta", k, v.blocks - 1))
              = Result(c, Append(<< >>, m))
         /\ Result(c, Append(<< >>, m)) \in RResult /\ Result(c, Append(<< >>, m)).ctx = c
              /\ Result(c, Append(<< >>, m)).out = Append(<< >>, m)
         /\ Sees(d, Append(<< >>, m), VAfter(v, m))
         /\ RLinked(c, id, VAfter(v, m), t)
         /\ VAfter(v, m).said = Append(v.said, <<k, IF k = "tool_use" THEN v.calls ELSE 0>>)
      BY <1>11a, Zenon DEF MoreSaid
  <1>13. RespToClaude!content_delta(Result(c, << >>), id, e, k) = Result(c, Append(<< >>, m))
      BY <1>7, <1>9, <1>10, <1>12, Zenon
  <1>14. VAfter(v, m).said = v.said \o RPiece(u, e)
    <2>1. RPiece(u, e) = << <<k, 0>> >>
      BY DEF RPiece
    <2>2. v.said \in Seq(Pieces) /\ <<k, 0>> \in Pieces
      BY <1>3, <1>4 DEF ViewType, Pieces
    <2>3. \A x \in Pieces : v.said \o <<x>> = Append(v.said, x)
      BY <2>2
    <2>4. (IF k = "tool_use" THEN v.calls ELSE 0) = 0
      OBVIOUS
    <2> QED BY <1>12, <2>1, <2>2, <2>3, <2>4
  <1>15. RConverted(d, Result(c, Append(<< >>, m)), id, v, u, e)
      BY <1>5, <1>12, <1>14 DEF RConverted
  <1> QED BY <1>13, <1>15

\* The first delta of a reasoning item.
LEMMA RThinks ==
    ASSUME NEW d, NEW v, Sees(d, << >>, v), NEW u, VRType(u), NEW e, VRMay(UpIndexes, u, e),
           NEW c \in RCtx, NEW id \in RespToClaude!IdStyle, RLinked(c, id, v, u),
               e.type = "reasoning_delta", ~u.thinking
    PROVE  RConverted(d, RespToClaude!content_delta(Result(c, << >>), id, e, "thinking"), id,
                      v, u, e)
  <1>1. u.kind # "none" /\ u.created /\ ~u.ended /\ e.index = u.next - 1
          /\ u.kind = "reasoning" /\ ~u.part /\ ~u.thought
      BY OpenItem
  <1>2. v.kind = "none" /\ v.started /\ ~v.stopped /\ c.message_start_sent
          /\ c.next_content_index = v.blocks
    <2>1. BlockKind(u) = "none"
      BY <1>1 DEF BlockKind
    <2> QED BY <1>1, <2>1 DEF RLinked
  <1>3. v \in ViewType
      BY SeesType
  <1>4. PICK t : t = VRAfter(u, e)
      OBVIOUS
  <1>5. OpensPart(u, t, "thinking") /\ Continues(t, t)
    <2>0. e.type \notin {"item_added", "item_done", "created", "completed", "failed"}
      OBVIOUS
    <2>1. ItemAfter(u, t, e)
      BY <1>1, <1>4, <2>0, AfterOpen
    <2>2. OpensPart(u, t, "thinking")
      BY <1>1, <2>1 DEF BlockKind, Used, ItemAfter, OpensPart
    <2>3. Used(t) \in Int /\ Used(t) <= Used(t)
      BY <2>2 DEF OpensPart, VRType
    <2> QED BY <2>2, <2>3 DEF Continues
  <1>6. PICK x : x = u.next - 1
      OBVIOUS
  <1>7. PICK n : n = v.blocks
      OBVIOUS
  <1>8. PICK p : p = Placed(c, id, x)
      OBVIOUS
  <1>9. PICK b : b = Opened(p, n)
      OBVIOUS
  <1>10. PICK m : m = ClaudeEv("content_block_start", "thinking", n)
      OBVIOUS
  <1>11. x \in Nat
      BY <1>1, <1>6 DEF VRType
  <1>12. p \in RCtx
      BY <1>8, <1>11, PlacedIs
  <1>13. RespToClaude!resolve_content_index(c, id, e) = Assigned(n, p)
    <2>1. RespToClaude!resolve_content_index(c, id, e)
            = Assigned(c.next_content_index, Placed(c, id, u.next - 1))
      BY <1>1, <1>2, <1>3, ResolvesFresh
    <2> QED BY <1>2, <1>6, <1>7, <1>8, <2>1
  <1>14. RespToClaude!content_delta(Result(c, << >>), id, e, "thinking")
           = RespToClaude!emit(RespToClaude!open_block(Result(p, << >>), "thinking", n),
                               RespToClaude!claude("content_block_delta", "thinking", n))
      BY <1>2, <1>12, <1>13, PartIs
  <1>15. PartOpened(d, v, id, t, "thinking", n, p, b, m)
    <2>1. FreshPart(c, v, u)
      BY <1>1, <1>2 DEF FreshPart
    <2>2. "thinking" \in {"text", "thinking"}
      OBVIOUS
    <2> QED BY <1>5, <1>6, <1>7, <1>8, <1>9, <1>10, <2>1, <2>2, RPartOpens
  <1>16. PICK w : w = VAfter(v, m)
      OBVIOUS
  <1>17. /\ b \in RCtx
         /\ RespToClaude!open_block(Result(p, << >>), "thinking", n) = Result(b, <<m>>)
         /\ Sees(d, <<m>>, w)
         /\ RLinked(b, id, w, t)
         /\ w.said = v.said /\ w.kind = "thinking" /\ w.blocks = n + 1
      BY <1>15, <1>16 DEF PartOpened
  <1>18. w.blocks - 1 = n
      BY <1>3, <1>7, <1>17 DEF ViewType
  <1>19. PICK m2 : m2 = ClaudeEv("content_block_delta", "thinking", w.blocks - 1)
      OBVIOUS
  <1>19a. MoreSaid(d, <<m>>, w, "thinking", b, id, t, m2)
    <2>1. "thinking" \in Kinds
      BY DEF Kinds
    <2> QED BY <1>5, <1>17, <1>19, <2>1, RSaysMore
  <1>20. /\ RespToClaude!emit(Result(b, <<m>>),
                              RespToClaude!claude("content_block_delta", "thinking",
                                                  w.blocks - 1))
              = Result(b, Append(<<m>>, m2))
         /\ Result(b, Append(<<m>>, m2)) \in RResult /\ Result(b, Append(<<m>>, m2)).ctx = b
              /\ Result(b, Append(<<m>>, m2)).out = Append(<<m>>, m2)
         /\ Sees(d, Append(<<m>>, m2), VAfter(w, m2))
         /\ RLinked(b, id, VAfter(w, m2), t)
         /\ VAfter(w, m2).said
              = Append(w.said, <<"thinking", IF "thinking" = "tool_use" THEN w.calls ELSE 0>>)
      BY <1>19a, Zenon DEF MoreSaid
  <1>21. RespToClaude!content_delta(Result(c, << >>), id, e, "thinking")
           = Result(b, Append(<<m>>, m2))
      BY <1>14, <1>17, <1>18, <1>20, Zenon
  <1>22. VAfter(w, m2).said = v.said \o RPiece(u, e)
    <2>1. RPiece(u, e) = << <<"thinking", 0>> >>
      BY DEF RPiece
    <2>2. v.said \in Seq(Pieces) /\ <<"thinking", 0>> \in Pieces
      BY <1>3 DEF ViewType, Pieces, Kinds
    <2>3. \A y \in Pieces : v.said \o <<y>> = Append(v.said, y)
      BY <2>2
    <2> QED BY <1>17, <1>20, <2>1, <2>2, <2>3
  <1>23. RConverted(d, Result(b, Append(<<m>>, m2)), id, v, u, e)
      BY <1>4, <1>20, <1>22 DEF RConverted
  <1> QED BY <1>21, <1>23

\* The open block is closed.
ClosesItem(u, t) ==
    /\ t.created = u.created /\ (u.ended => t.ended) /\ t.calls = u.calls
    /\ BlockKind(t) = "none" /\ Used(u) \in Int /\ Used(t) \in Int /\ Used(u) <= Used(t)

Shut(d, v, c, id, t, n, m, b) ==
    /\ RespToClaude!close_open_index(Result(c, << >>), n) = Result(b, <<m>>)
    /\ b \in RCtx /\ b.tool_index_by_item_id = c.tool_index_by_item_id
    /\ Result(b, <<m>>) \in RResult /\ Result(b, <<m>>).ctx = b
         /\ Result(b, <<m>>).out = <<m>>
    /\ Sees(d, <<m>>, VAfter(v, m))
    /\ RLinked(b, id, VAfter(v, m), t)
    /\ VAfter(v, m).said = v.said /\ VAfter(v, m).kind = "none"

\* The end of an item closes its block.
LEMMA RShuts ==
    ASSUME NEW d, NEW v, Sees(d, << >>, v), v.kind # "none", NEW c \in RCtx, NEW id, NEW u,
           RLinked(c, id, v, u),
           NEW t, ClosesItem(u, t), NEW n, n = v.blocks - 1,
           NEW m, m = ClaudeEv("content_block_stop", "none", n), NEW b, b = Closed(c, n)
    PROVE  Shut(d, v, c, id, t, n, m, b)
  <1>1. v \in ViewType /\ v.blocks > 0 /\ << >> \in Seq(ClaudeEvent)
      BY SeesType
  <1>2. n \in Nat
      BY <1>1 DEF ViewType
  <1>3. VMay(v, m)
      BY DEF VMay
  <1>4. PICK w : w = VAfter(v, m)
      OBVIOUS
  <1>5. Sees(d, Append(<< >>, m), VAfter(v, m)) /\ m \in ClaudeEvent
      BY <1>3, SeesMore
  <1>6. Append(<< >>, m) = <<m>>
      OBVIOUS
  <1>7. Sees(d, <<m>>, w) /\ <<m>> \in Seq(ClaudeEvent)
      BY <1>4, <1>5, <1>6, SeesType
  <1>8. c.open_indices = {n}
      BY DEF RLinked
  <1>9. RespToClaude!close_open_index(Result(c, << >>), n) = Result(b, <<m>>)
    <2>1. RespToClaude!close_open_index(Result(c, << >>), n)
             = IF n \notin c.open_indices THEN Result(c, << >>)
               ELSE Result(Closed(c, n),
                           Append(<< >>, ClaudeEv("content_block_stop", "none", n)))
      BY <1>1, <1>2, RCloses
    <2>2. n \in c.open_indices
      BY <1>8
    <2> QED BY <1>6, <2>1, <2>2
  <1>10. /\ b \in RCtx /\ b.open_indices = c.open_indices \ {n}
           /\ b.message_start_sent = c.message_start_sent
                /\ b.finish_reason_sent = c.finish_reason_sent
           /\ b.next_content_index = c.next_content_index
           /\ b.fallback_open_index
                = (IF c.fallback_open_index = n THEN None ELSE c.fallback_open_index)
           /\ b.index_by_key = c.index_by_key /\ b.last_tool_index = c.last_tool_index
           /\ b.tool_index_by_item_id = c.tool_index_by_item_id
    <2> QED BY ONLY c \in RCtx, <1>2, b = Closed(c, n), ClosedIs
  <1>11. Result(b, <<m>>) \in RResult /\ Result(b, <<m>>).ctx = b
           /\ Result(b, <<m>>).out = <<m>>
      BY <1>7, <1>10, ResultIs
  <1>12. /\ w.started = (v.started \/ m.type = "message_start")
              /\ w.stopped = (v.stopped \/ m.type = "message_stop")
        /\ w.reason = (v.reason \/ m.kind = "stop")
        /\ w.blocks = (IF m.type = "content_block_start" THEN v.blocks + 1 ELSE v.blocks)
        /\ w.kind = (IF m.type = "content_block_start" THEN m.kind
                     ELSE IF m.type = "content_block_stop" THEN "none" ELSE v.kind)
        /\ w.calls = (IF m.type = "content_block_start" /\ m.kind = "tool_use"
                      THEN v.calls + 1 ELSE v.calls)
        /\ w.said = IF m.type = "content_block_delta"
                THEN Append(v.said, <<m.kind, IF m.kind = "tool_use" THEN v.calls ELSE 0>>)
                    ELSE v.said
      BY <1>4, VFields
  <1>13. m.type = "content_block_stop" /\ m.kind = "none"
      BY DEF ClaudeEv
  <1>14. w.started = v.started /\ w.stopped = v.stopped /\ w.blocks = v.blocks
           /\ w.kind = "none" /\ w.calls = v.calls /\ w.said = v.said
      BY <1>1, <1>12, <1>13 DEF ViewType
  <1>15. b.open_indices = {}
      BY <1>8, <1>10
  <1>16. b.fallback_open_index = None
    <2>1. c.fallback_open_index = n \/ c.fallback_open_index = None
      BY DEF RLinked
    <2> QED BY <1>10, <2>1
  <1>17. RLinked(b, id, w, t)
    <2>1. /\ c.message_start_sent = v.started /\ v.started = u.created
          /\ c.finish_reason_sent = v.stopped /\ (v.stopped => u.ended)
          /\ c.next_content_index = v.blocks /\ v.calls = u.calls
          /\ \A s \in KeyNames, x \in Nat : <<s, x>> \in DOMAIN c.index_by_key
               => x < Used(u) /\ ~(id = "mixed" /\ s = "tool:out")
      BY DEF RLinked
    <2>2. /\ t.created = u.created /\ (u.ended => t.ended) /\ t.calls = u.calls
          /\ BlockKind(t) = "none" /\ Used(u) \in Int /\ Used(t) \in Int /\ Used(u) <= Used(t)
      BY DEF ClosesItem
    <2>3. \A s \in KeyNames, x \in Nat : <<s, x>> \in DOMAIN b.index_by_key
            => x < Used(t) /\ ~(id = "mixed" /\ s = "tool:out")
      BY <1>10, <2>1, <2>2
    <2>4. b.message_start_sent = w.started /\ w.started = t.created
            /\ b.finish_reason_sent = w.stopped
      BY ONLY <1>10, <1>14, <2>1, <2>2
    <2>5. (w.stopped => t.ended) /\ b.next_content_index = w.blocks /\ w.calls = t.calls
      BY ONLY <1>10, <1>14, <2>1, <2>2
    <2> QED BY <1>14, <1>15, <1>16, <2>2, <2>3, <2>4, <2>5 DEF RLinked
  <1> QED BY <1>4, <1>7, <1>9, <1>10, <1>11, <1>14, <1>17 DEF Shut

\* response.content_part.done and response.reasoning_text.done.
LEMMA RPartEnds ==
    ASSUME NEW d, NEW v, Sees(d, << >>, v), NEW u, VRType(u), NEW e, VRMay(UpIndexes, u, e),
           NEW c \in RCtx, NEW id \in RespToClaude!IdStyle, RLinked(c, id, v, u),
           e.type \in {"part_done", "reasoning_done"}
    PROVE  RConverted(d, RespToClaude!part_done(Result(c, << >>), id, e), id, v, u, e)
  <1>0. e.type \in {"part_added", "text_delta", "args_delta", "reasoning_delta", "part_done",
                    "args_done", "reasoning_done"}
        /\ e.type \notin {"item_added", "item_done", "created", "completed", "failed"}
      OBVIOUS
  <1>1. u.kind # "none" /\ u.created /\ ~u.ended /\ e.index = u.next - 1
        /\ (e.type = "part_done" => u.part /\ ~u.parted)
             /\ (e.type = "reasoning_done" => u.kind = "reasoning" /\ ~u.thought /\ ~u.part)
      BY <1>0, OpenItem
  <1>2. PICK t : t = VRAfter(u, e)
      OBVIOUS
  <1>3. ItemAfter(u, t, e)
      BY <1>0, <1>1, <1>2, AfterOpen
  <1>4. ClosesItem(u, t)
      BY <1>1, <1>3 DEF ItemAfter, ClosesItem, BlockKind, Used, VRType
  <1>5. v \in ViewType /\ (v.kind # "none" => v.blocks > 0)
      BY SeesType
  <1>6. v.kind = BlockKind(u)
      BY DEF RLinked
  <1>7. v.said \o RPiece(u, e) = v.said
      BY <1>5 DEF RPiece, ViewType
  <1>8. PICK r : r = Result(c, << >>)
      OBVIOUS
  <1>9. r.ctx = c /\ r \in RResult /\ r.out = << >>
    <2>1. << >> \in Seq(ClaudeEvent)
      OBVIOUS
    <2> QED BY <1>8, <2>1, ResultIs
  <1>10. PICK q : q = RespToClaude!content_part_key(id, e)
      OBVIOUS
  <1>11. CASE v.kind \in {"text", "thinking"}
    <2>1. PICK n : n = v.blocks - 1
      OBVIOUS
    <2>2. /\ id # "none"
               => RespToClaude!known(RespToClaude!content_part_key(id, e), c)
               /\ c.index_by_key[RespToClaude!content_part_key(id, e)] = v.blocks - 1
          /\ id = "none"
               => RespToClaude!content_part_key(id, e) = None
               /\ c.fallback_open_index = v.blocks - 1 /\ c.fallback_open_index # None
      BY <1>1, <1>5, <1>11, ResolvesOpen
    <2>3. (id # "none" => RespToClaude!known(q, c) /\ c.index_by_key[q] = n)
          /\ (id = "none"
               => q = None /\ c.fallback_open_index = n /\ c.fallback_open_index # None)
      BY <1>10, <2>1, <2>2
    <2>4. RespToClaude!part_done(r, id, e) = RespToClaude!close_open_index(r, n)
      <3>1. CASE id # "none"
        <4>1. RespToClaude!known(q, r.ctx) /\ q # None
          BY <1>9, <2>3, <3>1 DEF RespToClaude!known
        <4>2. RespToClaude!part_done(r, id, e)
                = RespToClaude!close_open_index(r, r.ctx.index_by_key[q])
          BY <1>10, <4>1, Zenon DEF RespToClaude!part_done
        <4> QED BY <1>9, <2>3, <3>1, <4>2
      <3>2. CASE id = "none"
        <4>1. ~RespToClaude!known(q, r.ctx) /\ q = None /\ r.ctx.fallback_open_index # None
          BY <1>9, <2>3, <3>2 DEF RespToClaude!known
        <4>2. RespToClaude!part_done(r, id, e)
                = RespToClaude!close_open_index(r, r.ctx.fallback_open_index)
          BY <1>10, <4>1, Zenon DEF RespToClaude!part_done
        <4> QED BY <1>9, <2>3, <3>2, <4>2
      <3> QED BY <3>1, <3>2
    <2>5. PICK m : m = ClaudeEv("content_block_stop", "none", n)
      OBVIOUS
    <2>6. PICK b : b = Closed(c, n)
      OBVIOUS
    <2>7. v.kind # "none"
      BY <1>11
    <2>8. Shut(d, v, c, id, t, n, m, b)
      BY <1>4, <2>1, <2>5, <2>6, <2>7, RShuts
    <2>9. /\ RespToClaude!close_open_index(Result(c, << >>), n) = Result(b, <<m>>)
          /\ Result(b, <<m>>) \in RResult /\ Result(b, <<m>>).ctx = b
               /\ Result(b, <<m>>).out = <<m>>
          /\ Sees(d, <<m>>, VAfter(v, m))
          /\ RLinked(b, id, VAfter(v, m), t)
          /\ VAfter(v, m).said = v.said
      BY <2>8, Zenon DEF Shut
    <2>10. RConverted(d, Result(b, <<m>>), id, v, u, e)
      BY <1>2, <1>7, <2>9 DEF RConverted
    <2> QED BY <1>8, <2>4, <2>9, <2>10
  <1>12. CASE v.kind \notin {"text", "thinking"}
    <2>1. u.kind = "reasoning" /\ ~u.thinking /\ ~u.part /\ v.kind = "none"
            /\ u.kind \in {"message", "reasoning"}
      BY <1>1, <1>6, <1>12 DEF BlockKind, VRType
    <2>2. /\ ~RespToClaude!known(RespToClaude!content_part_key(id, e), c)
          /\ id = "none" <=> RespToClaude!content_part_key(id, e) = None
          /\ c.fallback_open_index = None
      BY <1>1, <1>5, <2>1, ResolvesFresh
    <2>3. ~RespToClaude!known(q, r.ctx) /\ r.ctx.fallback_open_index = None
      BY <1>9, <1>10, <2>2
    <2>4. RespToClaude!part_done(r, id, e) = r
      BY <1>10, <2>3, Zenon DEF RespToClaude!part_done
    <2>5. RLinked(c, id, v, t)
      <3>1. Continues(u, t)
        BY <1>1, <1>3, <2>1 DEF Continues, ItemAfter, BlockKind, Used, VRType
      <3> QED BY <3>1, StaysLinked
    <2>6. RConverted(d, r, id, v, u, e)
      BY <1>2, <1>7, <1>9, <2>5 DEF RConverted
    <2> QED BY <1>8, <2>4, <2>6
  <1> QED BY <1>11, <1>12

\* The block of the open call.
LEMMA ToolIndexIs ==
    ASSUME NEW v \in ViewType, v.blocks > 0, NEW u, VRType(u), u.kind # "none", NEW e,
           e.index = u.next - 1, NEW c \in RCtx,
           NEW id \in RespToClaude!IdStyle, RLinked(c, id, v, u), v.kind = "tool_use"
    PROVE  RespToClaude!tool_index(c, id, e) = v.blocks - 1
             /\ c.last_tool_index = v.blocks - 1 /\ v.blocks - 1 # None
  <1>1. u.next \in Nat /\ u.next - 1 \in Nat /\ v.blocks \in Nat /\ v.blocks - 1 \in Nat
      BY DEF VRType, ViewType
  <1>2. c.last_tool_index = v.blocks - 1 /\ v.blocks - 1 # None
      BY <1>1, NoneIs DEF RLinked
  <1> DEFINE k == RespToClaude!tool_item_key_from_event(id, e)
  <1>3. CASE id = "item"
    <2>1. e.index \in DOMAIN c.tool_index_by_item_id
            /\ c.tool_index_by_item_id[e.index] = v.blocks - 1
      BY <1>3 DEF RLinked
    <2>2. RespToClaude!tool_index(c, id, e) = c.tool_index_by_item_id[e.index]
      BY <1>3, <2>1, Zenon DEF RespToClaude!tool_index
    <2> QED BY <1>2, <2>1, <2>2
  <1>4. CASE id = "output"
    <2>1. k = <<"tool:out", u.next - 1>>
      BY <1>4 DEF RespToClaude!tool_item_key_from_event
    <2>2. k # None
      BY <1>1, <2>1, NoneIs DEF KeyNames
    <2>3. k \in DOMAIN c.index_by_key /\ c.index_by_key[k] = v.blocks - 1
      BY <1>4, <2>1 DEF RLinked
    <2>4. RespToClaude!known(k, c)
      BY <2>2, <2>3 DEF RespToClaude!known
    <2>5. id # "item"
      BY <1>4
    <2> HIDE DEF k
    <2>6. RespToClaude!tool_index(c, id, e) = c.index_by_key[k]
      BY <2>4, <2>5, Zenon DEF RespToClaude!tool_index, k
    <2> QED BY <1>2, <2>3, <2>6
  <1>5. CASE id \in {"mixed", "none"}
    <2>1. ~RespToClaude!known(k, c)
      <3>1. CASE id = "none"
        <4>1. k = None
          BY <3>1 DEF RespToClaude!tool_item_key_from_event
        <4> QED BY <4>1 DEF RespToClaude!known
      <3>2. CASE id = "mixed"
        <4>1. k = <<"tool:out", u.next - 1>>
          BY <3>2 DEF RespToClaude!tool_item_key_from_event
        <4>2. <<"tool:out", u.next - 1>> \notin DOMAIN c.index_by_key
          BY <1>1, <3>2 DEF RLinked, KeyNames
        <4> QED BY <4>1, <4>2 DEF RespToClaude!known
      <3> QED BY <1>5, <3>1, <3>2
    <2>2. id # "item"
      BY <1>5
    <2> HIDE DEF k
    <2>3. RespToClaude!tool_index(c, id, e) = c.last_tool_index
      BY <2>1, <2>2, Zenon DEF RespToClaude!tool_index, k
    <2> QED BY <1>2, <2>3
  <1> QED BY <1>3, <1>4, <1>5 DEF RespToClaude!IdStyle

\* response.function_call_arguments.delta.
LEMMA RCallSays ==
    ASSUME NEW d, NEW v, Sees(d, << >>, v), NEW u, VRType(u), NEW e, VRMay(UpIndexes, u, e),
           NEW c \in RCtx, NEW id \in RespToClaude!IdStyle, RLinked(c, id, v, u),
               e.type = "args_delta"
    PROVE  RConverted(d, RespToClaude!arguments_delta(Result(c, << >>), id, e), id, v, u, e)
  <1>1. u.kind # "none" /\ u.created /\ ~u.ended /\ e.index = u.next - 1
          /\ u.kind = "function_call" /\ ~u.called /\ ~u.part /\ ~u.thinking
      BY OpenItem
  <1>2. BlockKind(u) = "tool_use"
      BY <1>1 DEF BlockKind
  <1>3. v.kind = "tool_use" /\ v.kind # "none" /\ "tool_use" \in Kinds /\ c.message_start_sent
          /\ c.open_indices = {v.blocks - 1} /\ v.calls = u.calls
      BY <1>1, <1>2 DEF RLinked, Kinds
  <1>4. v \in ViewType /\ v.blocks > 0
      BY <1>3, SeesType
  <1>5. PICK t : t = VRAfter(u, e)
      OBVIOUS
  <1>6. Continues(u, t)
      BY <1>5, UContinues
  <1>7. PICK n : n = v.blocks - 1
      OBVIOUS
  <1>8. RespToClaude!tool_index(c, id, e) = n /\ c.last_tool_index = n /\ n # None
    <2>1. RespToClaude!tool_index(c, id, e) = v.blocks - 1 /\ c.last_tool_index = v.blocks - 1
            /\ v.blocks - 1 # None
      BY <1>1, <1>3, <1>4, ToolIndexIs
    <2> QED BY <1>7, <2>1
  <1> DEFINE r == Result(c, << >>)
             s == RespToClaude!emit_message_start_if_needed(r)
             found == RespToClaude!tool_index(s.ctx, id, e)
             i == IF found # None THEN [index |-> found, ctx |-> s.ctx]
                 ELSE RespToClaude!next_index(s.ctx)
             b == [i.ctx EXCEPT !.last_tool_index = i.index]
  <1>9. r \in RResult /\ r.ctx = c /\ r.out = << >> /\ s = r
    <2>1. << >> \in Seq(ClaudeEvent)
      OBVIOUS
    <2> QED BY <1>3, <2>1, ResultIs, RStart, Zenon
  <1>10. found = n
      BY <1>8, <1>9
  <1>11. i = [index |-> n, ctx |-> c]
    <2> HIDE DEF found, r, s
    <2> QED BY <1>8, <1>9, <1>10
  <1>12. b = c
    <2> HIDE DEF i
    <2>1. i.ctx = c /\ i.index = n
      BY <1>11
    <2>2. [c EXCEPT !.last_tool_index = n] = c
      BY <1>8 DEF RCtx
    <2> QED BY <2>1, <2>2
  <1>13. [s EXCEPT !.ctx = b] = Result(c, << >>)
    <2>1. [r EXCEPT !.ctx = c] = Result(c, r.out)
      BY <1>9, WithCtx
    <2> HIDE DEF b, s
    <2> QED BY <1>9, <1>12, <2>1
  <1>14. RespToClaude!arguments_delta(r, id, e)
          = RespToClaude!emit(RespToClaude!open_block([s EXCEPT !.ctx = b], "tool_use",
                                                      i.index), RespToClaude!claude("content_block_delta", "tool_use", i.index))
      BY Zenon DEF RespToClaude!arguments_delta
  <1>15. i.index = n
    <2> HIDE DEF i
    <2> QED BY <1>11
  <1> HIDE DEF s, found, i, b
  <1>16. RespToClaude!arguments_delta(r, id, e)
          = RespToClaude!emit(RespToClaude!open_block(Result(c, << >>), "tool_use", n),
                              RespToClaude!claude("content_block_delta", "tool_use", n))
      BY <1>13, <1>14, <1>15, Zenon
  <1>17. RespToClaude!open_block(Result(c, << >>), "tool_use", n) = Result(c, << >>)
    <2>1. n \in c.open_indices
      BY <1>3, <1>7
    <2> QED BY <1>9, <2>1, Zenon DEF RespToClaude!open_block
  <1>18. PICK m : m = ClaudeEv("content_block_delta", "tool_use", v.blocks - 1)
      OBVIOUS
  <1>19. MoreSaid(d, << >>, v, "tool_use", c, id, t, m)
      BY <1>3, <1>6, <1>18, RSaysMore
  <1>20. /\ RespToClaude!emit(Result(c, << >>),
                              RespToClaude!claude("content_block_delta", "tool_use",
                                                  v.blocks - 1)) = Result(c, Append(<< >>, m))
         /\ Result(c, Append(<< >>, m)) \in RResult /\ Result(c, Append(<< >>, m)).ctx = c
              /\ Result(c, Append(<< >>, m)).out = Append(<< >>, m)
         /\ Sees(d, Append(<< >>, m), VAfter(v, m))
         /\ RLinked(c, id, VAfter(v, m), t)
         /\ VAfter(v, m).said
              = Append(v.said, <<"tool_use", IF "tool_use" = "tool_use" THEN v.calls ELSE 0>>)
      BY <1>19, Zenon DEF MoreSaid
  <1>21. RespToClaude!arguments_delta(r, id, e) = Result(c, Append(<< >>, m))
      BY <1>7, <1>16, <1>17, <1>20, Zenon
  <1>22. VAfter(v, m).said = v.said \o RPiece(u, e)
    <2>1. RPiece(u, e) = << <<"tool_use", u.calls>> >>
      BY DEF RPiece
    <2>2. v.said \in Seq(Pieces) /\ <<"tool_use", v.calls>> \in Pieces
      BY <1>3, <1>4 DEF ViewType, Pieces
    <2>3. \A x \in Pieces : v.said \o <<x>> = Append(v.said, x)
      BY <2>2
    <2> QED BY <1>3, <1>20, <2>1, <2>2, <2>3
  <1>23. RConverted(d, Result(c, Append(<< >>, m)), id, v, u, e)
      BY <1>5, <1>20, <1>22 DEF RConverted
  <1> QED BY <1>21, <1>23

\* A closed call may be forgotten.
LEMMA Forgets ==
    ASSUME NEW b \in RCtx, NEW id, NEW w, w.kind = "none", NEW t, RLinked(b, id, w, t),
           NEW f \in Partial(Nat),
           NEW g, g = [b EXCEPT !.tool_index_by_item_id = f]
    PROVE  g \in RCtx /\ RLinked(g, id, w, t)
  <1>1. g \in RCtx
      BY DEF RCtx
  <1>2. /\ g.message_start_sent = b.message_start_sent
             /\ g.finish_reason_sent = b.finish_reason_sent
        /\ g.next_content_index = b.next_content_index
             /\ g.fallback_open_index = b.fallback_open_index
        /\ g.index_by_key = b.index_by_key /\ g.last_tool_index = b.last_tool_index
             /\ g.open_indices = b.open_indices
      BY DEF RCtx
  <1> QED BY <1>1, <1>2 DEF RLinked

\* response.function_call_arguments.done.
LEMMA RCallEnds ==
    ASSUME NEW d, NEW v, Sees(d, << >>, v), NEW u, VRType(u), NEW e, VRMay(UpIndexes, u, e),
           NEW c \in RCtx, NEW id \in RespToClaude!IdStyle, RLinked(c, id, v, u),
               e.type = "args_done"
    PROVE  RConverted(d, RespToClaude!arguments_done(Result(c, << >>), id, e), id, v, u, e)
  <1>0. e.type \notin {"item_added", "item_done", "created", "completed", "failed"}
      OBVIOUS
  <1>1. u.kind # "none" /\ u.created /\ ~u.ended /\ e.index = u.next - 1
          /\ u.kind = "function_call" /\ ~u.called /\ ~u.part /\ ~u.thinking
      BY OpenItem
  <1>2. BlockKind(u) = "tool_use"
      BY <1>1 DEF BlockKind
  <1>3. v.kind = "tool_use" /\ v.kind # "none"
      BY <1>2 DEF RLinked
  <1>4. v \in ViewType /\ v.blocks > 0
      BY <1>3, SeesType
  <1>5. PICK t : t = VRAfter(u, e)
      OBVIOUS
  <1>6. ItemAfter(u, t, e)
      BY <1>0, <1>1, <1>5, AfterOpen
  <1>7. ClosesItem(u, t)
      BY <1>1, <1>6 DEF ItemAfter, ClosesItem, BlockKind, Used, VRType
  <1>8. PICK n : n = v.blocks - 1
      OBVIOUS
  <1>9. RespToClaude!tool_index(c, id, e) = n /\ n # None
    <2>1. RespToClaude!tool_index(c, id, e) = v.blocks - 1 /\ c.last_tool_index = v.blocks - 1
            /\ v.blocks - 1 # None
      BY <1>1, <1>3, <1>4, ToolIndexIs
    <2> QED BY <1>8, <2>1
  <1>10. PICK m : m = ClaudeEv("content_block_stop", "none", n)
      OBVIOUS
  <1>11. PICK b : b = Closed(c, n)
      OBVIOUS
  <1>12. Shut(d, v, c, id, t, n, m, b)
      BY <1>3, <1>7, <1>8, <1>10, <1>11, RShuts
  <1>13. PICK w : w = VAfter(v, m)
      OBVIOUS
  <1>14. /\ RespToClaude!close_open_index(Result(c, << >>), n) = Result(b, <<m>>)
         /\ b \in RCtx
         /\ Result(b, <<m>>) \in RResult /\ Result(b, <<m>>).ctx = b
              /\ Result(b, <<m>>).out = <<m>>
         /\ Sees(d, <<m>>, w)
         /\ RLinked(b, id, w, t)
         /\ w.said = v.said /\ w.kind = "none"
      BY <1>12, <1>13, Zenon DEF Shut
  <1>15. v.said \o RPiece(u, e) = v.said
      BY <1>4 DEF RPiece, ViewType
  <1> DEFINE r == Result(c, << >>)
             s == RespToClaude!close_open_index(r, n)
  <1>16. r.ctx = c
      BY DEF Result
  <1>17. CASE id # "item"
    <2>1. RespToClaude!arguments_done(r, id, e) = s
      BY <1>9, <1>16, <1>17, Zenon DEF RespToClaude!arguments_done
    <2>2. RConverted(d, Result(b, <<m>>), id, v, u, e)
      BY <1>5, <1>14, <1>15 DEF RConverted
    <2> QED BY <1>14, <2>1, <2>2
  <1>18. CASE id = "item"
    <2>1. RespToClaude!arguments_done(r, id, e)
            = [s EXCEPT !.ctx.tool_index_by_item_id = RespToClaude!remove(@, e.index)]
      BY <1>9, <1>16, <1>18, Zenon DEF RespToClaude!arguments_done
    <2>2. PICK q : q = Result(b, <<m>>)
      OBVIOUS
    <2>3. s = q /\ q \in RResult /\ q.ctx = b /\ q.out = <<m>>
      BY <1>14, <2>2
    <2>4. PICK f : f = RespToClaude!remove(b.tool_index_by_item_id, e.index)
      OBVIOUS
    <2>5. f \in Partial(Nat)
      <3>1. b.tool_index_by_item_id \in Partial(Nat) /\ e.index \in Nat
        BY <1>1, <1>14 DEF RCtx, VRType
      <3> QED BY <2>4, <3>1, Removes
    <2>6. PICK g : g = [b EXCEPT !.tool_index_by_item_id = f]
      OBVIOUS
    <2>7. g \in RCtx /\ RLinked(g, id, w, t)
      BY <1>14, <2>5, <2>6, Forgets
    <2>8. [q EXCEPT !.ctx.tool_index_by_item_id = RespToClaude!remove(@, e.index)]
            = [q EXCEPT !.ctx = g]
      BY <2>3, <2>4, <2>6 DEF RResult
    <2>9. [q EXCEPT !.ctx = g] = Result(g, <<m>>)
      BY <2>3, <2>7, WithCtx
    <2>10. RespToClaude!arguments_done(r, id, e) = Result(g, <<m>>)
      BY <2>1, <2>3, <2>8, <2>9, Zenon
    <2>11. <<m>> \in Seq(ClaudeEvent)
      BY <1>14, SeesType
    <2>12. Result(g, <<m>>) \in RResult /\ Result(g, <<m>>).ctx = g
             /\ Result(g, <<m>>).out = <<m>>
      BY <2>7, <2>11, ResultIs
    <2>13. RConverted(d, Result(g, <<m>>), id, v, u, e)
      BY <1>5, <1>14, <1>15, <2>7, <2>12 DEF RConverted
    <2> QED BY <2>10, <2>13
  <1> QED BY <1>17, <1>18

\* The context after a call is given the next index.
ToolKey(id, x) == IF id \in {"item", "mixed"} THEN <<"tool", x>> ELSE <<"tool:out", x>>

ToolPlaced(c, id, x) == IF id = "none" THEN Numbered(c) ELSE Keyed(c, ToolKey(id, x))

CallOpened(p, n, f) == [p EXCEPT !.has_tool_use = TRUE, !.last_tool_index = n,
                        !.tool_index_by_item_id = f]

ToolAt(c, id, p, q) ==
    /\ p \in RCtx /\ q \in Keys
    /\ p.message_start_sent = c.message_start_sent
         /\ p.finish_reason_sent = c.finish_reason_sent
    /\ p.next_content_index = c.next_content_index + 1 /\ p.open_indices = c.open_indices
    /\ p.fallback_open_index = c.fallback_open_index
         /\ p.tool_index_by_item_id = c.tool_index_by_item_id
    /\ id = "none" => p.index_by_key = c.index_by_key
    /\ id # "none"
         => DOMAIN p.index_by_key = DOMAIN c.index_by_key \cup {q}
         /\ p.index_by_key[q] = c.next_content_index

\* The maps after a tool item has been given its index.
LEMMA ToolPlacedIs ==
    ASSUME NEW c \in RCtx, NEW id, NEW x \in Nat, NEW p, p = ToolPlaced(c, id, x), NEW q,
           q = ToolKey(id, x)
    PROVE  ToolAt(c, id, p, q)
  <1>1. q \in Keys
      BY NoneIs DEF ToolKey, KeyNames
  <1>2. p \in RCtx
      BY <1>1, NumberedTyped DEF ToolPlaced
  <1>3. /\ p.message_start_sent = c.message_start_sent
             /\ p.finish_reason_sent = c.finish_reason_sent
        /\ p.next_content_index = c.next_content_index + 1 /\ p.open_indices = c.open_indices
        /\ p.fallback_open_index = c.fallback_open_index
             /\ p.tool_index_by_item_id = c.tool_index_by_item_id
        /\ p.index_by_key = IF id = "none" THEN c.index_by_key
             ELSE RespToClaude!insert(c.index_by_key, q, c.next_content_index)
    <2>1. CASE id = "none"
      BY <2>1 DEF ToolPlaced, Numbered, RCtx
    <2>2. CASE id # "none"
      BY <2>2 DEF ToolPlaced, Keyed, RCtx
    <2> QED BY <2>1, <2>2
  <1>4. ASSUME id # "none"
        PROVE DOMAIN p.index_by_key = DOMAIN c.index_by_key \cup {q}
                 /\ p.index_by_key[q] = c.next_content_index
    <2> DEFINE g == p.index_by_key
               f == c.index_by_key
               n == c.next_content_index
    <2>1. g = RespToClaude!insert(f, q, n) /\ f \in Partial(Keys) /\ n \in Nat
      BY <1>3, <1>4 DEF RCtx
    <2> HIDE DEF f, g, n
    <2>2. Inserted(Keys, f, q, n, g)
      BY ONLY <1>1, <2>1, Inserts
    <2> QED BY <2>2 DEF f, g, n, Inserted
  <1> QED BY <1>1, <1>2, <1>3, <1>4 DEF ToolAt

CalledAt(p, n, f, b) ==
    /\ b \in RCtx
    /\ b.message_start_sent = p.message_start_sent
         /\ b.finish_reason_sent = p.finish_reason_sent
    /\ b.next_content_index = p.next_content_index /\ b.open_indices = p.open_indices
    /\ b.fallback_open_index = p.fallback_open_index /\ b.index_by_key = p.index_by_key
    /\ b.last_tool_index = n /\ b.tool_index_by_item_id = f

\* The context after the block of a tool item has been opened.
LEMMA CalledIs ==
    ASSUME NEW p \in RCtx, NEW n \in Nat, NEW f \in Partial(Nat), NEW b,
           b = CallOpened(p, n, f)
    PROVE  CalledAt(p, n, f, b)
  <1> DEFINE p1 == [p EXCEPT !.has_tool_use = TRUE]
             p2 == [p1 EXCEPT !.last_tool_index = n]
             p3 == [p2 EXCEPT !.tool_index_by_item_id = f]
  <1>1. p1 \in RCtx
      BY DEF RCtx
  <1>2. p2 \in RCtx
    <2> HIDE DEF p1
    <2> QED BY <1>1 DEF RCtx
  <1>3. p3 \in RCtx
    <2> HIDE DEF p2
    <2> QED BY <1>2 DEF RCtx
  <1>4. b = p3
      BY DEF CallOpened, RCtx
  <1>5. /\ b.message_start_sent = p.message_start_sent
             /\ b.finish_reason_sent = p.finish_reason_sent
        /\ b.next_content_index = p.next_content_index /\ b.open_indices = p.open_indices
        /\ b.fallback_open_index = p.fallback_open_index /\ b.index_by_key = p.index_by_key
        /\ b.last_tool_index = n /\ b.tool_index_by_item_id = f
      BY DEF CallOpened, RCtx
  <1> QED BY <1>3, <1>4, <1>5 DEF CalledAt

\* The index of a new call.
LEMMA ToolFresh ==
    ASSUME NEW v \in ViewType, NEW u, VRType(u), u.kind = "none", NEW e, e.index \in Nat,
           u.next <= e.index, NEW c \in RCtx,
           NEW id \in RespToClaude!IdStyle, RLinked(c, id, v, u), NEW key,
               key = RespToClaude!tool_item_key_from_added(id, e),
           NEW p, p = ToolPlaced(c, id, e.index)
    PROVE  (CASE RespToClaude!known(key, c) -> [index |-> c.index_by_key[key], ctx |-> c]
              [] key # None
                  /\ ~RespToClaude!known(key, c) -> RespToClaude!assign_index(c, key)
              [] OTHER -> RespToClaude!next_index(c)) = Assigned(c.next_content_index, p)
  <1>1. u.next \in Nat
      BY DEF VRType
  <1>2. CASE id = "none"
    <2>1. key = None
      BY <1>2 DEF RespToClaude!tool_item_key_from_added
    <2>2. ~RespToClaude!known(key, c)
      BY <2>1 DEF RespToClaude!known
    <2>3. RespToClaude!next_index(c) = Assigned(c.next_content_index, p)
      BY <1>2, NextIs DEF ToolPlaced
    <2> QED BY <2>1, <2>2, <2>3, Zenon
  <1>3. CASE id # "none"
    <2>1. key = ToolKey(id, e.index)
      BY <1>3 DEF RespToClaude!tool_item_key_from_added, ToolKey, RespToClaude!IdStyle
    <2>2. key # None /\ key \in Keys
      BY <2>1, NoneIs DEF ToolKey, KeyNames
    <2>3. key \notin DOMAIN c.index_by_key
      <3>1. Used(u) = u.next
        BY DEF Used
      <3>2. \A s \in KeyNames : <<s, e.index>> \notin DOMAIN c.index_by_key
        BY <1>1, <3>1 DEF RLinked
      <3> QED BY <2>1, <3>2 DEF ToolKey, KeyNames
    <2>4. ~RespToClaude!known(key, c)
      BY <2>3 DEF RespToClaude!known
    <2>5. RespToClaude!assign_index(c, key) = Assigned(c.next_content_index, Keyed(c, key))
      BY <2>2, AssignIs
    <2>6. p = Keyed(c, key)
      BY <1>3, <2>1 DEF ToolPlaced
    <2> QED BY <2>2, <2>4, <2>5, <2>6, Zenon
  <1> QED BY <1>2, <1>3

\* response.output_item.added of a call.
LEMMA RCallAdds ==
    ASSUME NEW d, NEW v, Sees(d, << >>, v), NEW u, VRType(u), NEW e, VRMay(UpIndexes, u, e),
           NEW c \in RCtx, NEW id \in RespToClaude!IdStyle, RLinked(c, id, v, u),
               e.type = "item_added", e.kind = "function_call"
    PROVE  RConverted(d, RespToClaude!function_call_added(Result(c, << >>), id, e), id, v, u,
                      e)
  <1>1. u.created /\ ~u.ended /\ u.kind = "none" /\ u.next <= e.index /\ e.index \in Nat
          /\ u.next \in Nat
    <2>1. u.created /\ ~u.ended /\ u.kind = "none" /\ u.next <= e.index /\ e.index \in Nat
      BY DEF VRMay, RespEv, UpIndexes
    <2> QED BY <2>1 DEF VRType
  <1>2. BlockKind(u) = "none" /\ Used(u) = u.next
      BY <1>1 DEF BlockKind, Used, VRType
  <1>3. /\ v.kind = "none" /\ v.started /\ ~v.stopped /\ c.message_start_sent
             /\ c.next_content_index = v.blocks
        /\ c.open_indices = {} /\ c.fallback_open_index = None /\ v.calls = u.calls
      BY <1>1, <1>2 DEF RLinked
  <1>4. v \in ViewType
      BY SeesType
  <1>5. PICK t : t = VRAfter(u, e)
      OBVIOUS
  <1>6. t.created = u.created /\ (u.ended => t.ended) /\ t.calls = u.calls + 1
          /\ t.next = e.index + 1 /\ BlockKind(t) = "tool_use" /\ Used(t) = e.index + 1
    <2>1. /\ t.created = (u.created \/ e.type = "created")
          /\ t.ended = (u.ended \/ e.type \in {"completed", "failed"})
          /\ t.next = (IF e.type = "item_added" THEN e.index + 1 ELSE u.next)
          /\ t.calls = (IF e.type = "item_added" /\ e.kind = "function_call" THEN u.calls + 1
                        ELSE u.calls)
          /\ t.kind = (IF e.type = "item_added" THEN e.kind ELSE IF e.type = "item_done"
                       THEN "none" ELSE u.kind)
          /\ t.part = USeen(u, e, u.part, "part_added")
               /\ t.parted = USeen(u, e, u.parted, "part_done")
          /\ t.called = USeen(u, e, u.called, "args_done")
          /\ t.thinking = USeen(u, e, u.thinking, "reasoning_delta")
               /\ t.thought = USeen(u, e, u.thought, "reasoning_done")
      BY <1>5, UFields
    <2> QED BY <2>1 DEF BlockKind, Used, USeen, VRType
  <1>7. PICK n : n = v.blocks
      OBVIOUS
  <1>8. PICK p : p = ToolPlaced(c, id, e.index)
      OBVIOUS
  <1>9. PICK q : q = ToolKey(id, e.index)
      OBVIOUS
  <1>10. ToolAt(c, id, p, q)
      BY <1>1, <1>8, <1>9, ToolPlacedIs
  <1>11. /\ p \in RCtx /\ q \in Keys
         /\ p.message_start_sent = c.message_start_sent
              /\ p.finish_reason_sent = c.finish_reason_sent
         /\ p.next_content_index = n + 1 /\ p.open_indices = {} /\ n \in Nat
              /\ n = c.next_content_index
         /\ p.fallback_open_index = None /\ p.tool_index_by_item_id = c.tool_index_by_item_id
         /\ id = "none" => p.index_by_key = c.index_by_key
         /\ id # "none"
              => DOMAIN p.index_by_key = DOMAIN c.index_by_key \cup {q}
              /\ p.index_by_key[q] = n
      BY <1>3, <1>4, <1>7, <1>10 DEF ToolAt, ViewType
  <1>12. PICK f : f = IF id \in {"item", "mixed"}
           THEN RespToClaude!insert(p.tool_index_by_item_id, e.index, n)
           ELSE p.tool_index_by_item_id
      OBVIOUS
  <1>13. f \in Partial(Nat) /\ (id = "item" => e.index \in DOMAIN f /\ f[e.index] = n)
    <2>1. PICK g : g = p.tool_index_by_item_id
      OBVIOUS
    <2>2. g \in Partial(Nat)
      BY <1>11, <2>1 DEF RCtx
    <2>3. PICK h : h = RespToClaude!insert(g, e.index, n)
      OBVIOUS
    <2>4. PICK x : x = e.index
      OBVIOUS
    <2>5. x \in Nat /\ n \in Nat /\ h = RespToClaude!insert(g, x, n)
      BY <1>1, <1>11, <2>3, <2>4
    <2>6. Inserted(Nat, g, x, n, h)
      BY ONLY <2>2, <2>5, Inserts
    <2>7. f = IF id \in {"item", "mixed"} THEN h ELSE g
      BY <1>12, <2>1, <2>3, Zenon
    <2> QED BY ONLY <2>2, <2>4, <2>6, <2>7 DEF Inserted
  <1>14. PICK b : b = CallOpened(p, n, f)
      OBVIOUS
  <1>15. CalledAt(p, n, f, b)
      BY ONLY <1>11, <1>13, <1>14, CalledIs
  <1>16. PICK m : m = ClaudeEv("content_block_start", "tool_use", n)
      OBVIOUS
  <1>17. PICK z : z = Opened(b, n)
      OBVIOUS
  <1>18. b \in RCtx /\ n \notin b.open_indices /\ "tool_use" \in Kinds /\ n \in Nat
      BY <1>11, <1>15 DEF CalledAt, Kinds
  <1>19. RespToClaude!open_block(Result(b, << >>), "tool_use", n) = Result(z, <<m>>)
           /\ m \in ClaudeEvent
      BY ONLY <1>16, <1>17, <1>18, OpensNew
  <1>20. RespToClaude!function_call_added(Result(c, << >>), id, e) = Result(z, <<m>>)
    <2> DEFINE r == Result(c, << >>)
               s == RespToClaude!emit_message_start_if_needed(r)
               key == RespToClaude!tool_item_key_from_added(id, e)
               i == CASE RespToClaude!known(key, s.ctx) -> [index |-> s.ctx.index_by_key[key],
                   ctx |-> s.ctx]
                      [] key # None
                          /\ ~RespToClaude!known(key, s.ctx) -> RespToClaude!assign_index(s.ctx, key)
                      [] OTHER -> RespToClaude!next_index(s.ctx)
               a == [i.ctx EXCEPT
                       !.has_tool_use = TRUE,
                       !.last_tool_index = i.index,
                       !.tool_index_by_item_id =
                           IF id \in {"item", "mixed"}
                               THEN RespToClaude!insert(@, e.index, i.index) ELSE @]
    <2>1. RespToClaude!function_call_added(r, id, e)
            = RespToClaude!open_block([s EXCEPT !.ctx = a], "tool_use", i.index)
      BY Zenon DEF RespToClaude!function_call_added
    <2>2. r \in RResult /\ r.ctx = c /\ r.out = << >> /\ s = r
      <3>1. << >> \in Seq(ClaudeEvent)
        OBVIOUS
      <3> QED BY <1>3, <3>1, ResultIs, RStart
    <2>3. s.ctx = c
      BY <2>2
    <2>4. (CASE RespToClaude!known(key, c) -> [index |-> c.index_by_key[key], ctx |-> c]
              [] key # None
                  /\ ~RespToClaude!known(key, c) -> RespToClaude!assign_index(c, key)
              [] OTHER -> RespToClaude!next_index(c)) = Assigned(c.next_content_index, p)
      <3> DEFINE K == key
      <3>1. K = RespToClaude!tool_item_key_from_added(id, e)
        OBVIOUS
      <3> HIDE DEF K
      <3>2. (CASE RespToClaude!known(K, c) -> [index |-> c.index_by_key[K], ctx |-> c]
              [] K # None /\ ~RespToClaude!known(K, c) -> RespToClaude!assign_index(c, K)
              [] OTHER -> RespToClaude!next_index(c)) = Assigned(c.next_content_index, p)
        BY <1>1, <1>4, <1>8, <3>1, ToolFresh
      <3> QED BY <3>2, Zenon DEF K
    <2>5. i = Assigned(n, p)
      <3> HIDE DEF s, r, key
      <3> QED BY <1>11, <2>3, <2>4, Zenon
    <2>6. i.ctx = p /\ i.index = n
      <3> HIDE DEF i
      <3> QED BY <2>5 DEF Assigned
    <2>7. a = b
      <3> HIDE DEF i
      <3>1. a = [p EXCEPT !.has_tool_use = TRUE, !.last_tool_index = n,
                          !.tool_index_by_item_id = IF id \in {"item", "mixed"}
                              THEN RespToClaude!insert(@, e.index, n) ELSE @]
        BY <2>6
      <3>2. [p EXCEPT !.has_tool_use = TRUE, !.last_tool_index = n,
                      !.tool_index_by_item_id = IF id \in {"item", "mixed"}
                          THEN RespToClaude!insert(@, e.index, n) ELSE @]
              = [p EXCEPT !.has_tool_use = TRUE, !.last_tool_index = n,
                  !.tool_index_by_item_id = f]
        BY <1>11, <1>12 DEF RCtx
      <3> QED BY <1>14, <3>1, <3>2 DEF CallOpened
    <2>8. [s EXCEPT !.ctx = a] = Result(b, << >>)
      <3>1. [r EXCEPT !.ctx = b] = Result(b, r.out)
        BY <1>18, <2>2, WithCtx
      <3> HIDE DEF a, s
      <3> QED BY <2>2, <2>7, <3>1
    <2> HIDE DEF s, i, a
    <2> QED BY <1>19, <2>1, <2>6, <2>8, Zenon
  <1>21. PICK w : w = VAfter(v, m)
      OBVIOUS
  <1>22. VMay(v, m)
      BY <1>3, <1>7, <1>16, <1>18 DEF VMay
  <1>23. Sees(d, <<m>>, w) /\ <<m>> \in Seq(ClaudeEvent)
    <2>1. Sees(d, Append(<< >>, m), VAfter(v, m))
      BY <1>22, SeesMore
    <2>2. Append(<< >>, m) = <<m>>
      OBVIOUS
    <2> QED BY <1>21, <2>1, <2>2, SeesType
  <1>24. /\ w.started = (v.started \/ m.type = "message_start")
              /\ w.stopped = (v.stopped \/ m.type = "message_stop")
        /\ w.reason = (v.reason \/ m.kind = "stop")
        /\ w.blocks = (IF m.type = "content_block_start" THEN v.blocks + 1 ELSE v.blocks)
        /\ w.kind = (IF m.type = "content_block_start" THEN m.kind
                     ELSE IF m.type = "content_block_stop" THEN "none" ELSE v.kind)
        /\ w.calls = (IF m.type = "content_block_start" /\ m.kind = "tool_use"
                      THEN v.calls + 1 ELSE v.calls)
        /\ w.said = IF m.type = "content_block_delta"
                THEN Append(v.said, <<m.kind, IF m.kind = "tool_use" THEN v.calls ELSE 0>>)
                    ELSE v.said
      BY <1>21, VFields
  <1>25. m.type = "content_block_start" /\ m.kind = "tool_use"
      BY <1>16 DEF ClaudeEv
  <1>26. w.started = v.started /\ w.stopped = v.stopped /\ w.blocks = n + 1
           /\ w.kind = "tool_use" /\ w.calls = v.calls + 1 /\ w.said = v.said
      BY <1>4, <1>7, <1>24, <1>25 DEF ViewType
  <1>27. /\ z \in RCtx /\ z.open_indices = {n}
         /\ z.message_start_sent = c.message_start_sent
              /\ z.finish_reason_sent = c.finish_reason_sent
         /\ z.next_content_index = n + 1 /\ z.fallback_open_index = None
         /\ z.index_by_key = p.index_by_key /\ z.last_tool_index = n
         /\ z.tool_index_by_item_id = f
    <2>1. /\ z \in RCtx /\ z.open_indices = b.open_indices \cup {n}
           /\ z.message_start_sent = b.message_start_sent
                /\ z.finish_reason_sent = b.finish_reason_sent
           /\ z.next_content_index = b.next_content_index
                /\ z.fallback_open_index = b.fallback_open_index
           /\ z.index_by_key = b.index_by_key /\ z.last_tool_index = b.last_tool_index
           /\ z.tool_index_by_item_id = b.tool_index_by_item_id
      BY ONLY <1>17, <1>18, OpenedIs
    <2>2. /\ b.message_start_sent = p.message_start_sent
               /\ b.finish_reason_sent = p.finish_reason_sent
          /\ b.next_content_index = p.next_content_index /\ b.open_indices = p.open_indices
          /\ b.fallback_open_index = p.fallback_open_index /\ b.index_by_key = p.index_by_key
          /\ b.last_tool_index = n /\ b.tool_index_by_item_id = f
      BY <1>15, Zenon DEF CalledAt
    <2> QED BY ONLY <1>11, <2>1, <2>2
  <1>28. \A s \in KeyNames, y \in Nat : <<s, y>> \in DOMAIN z.index_by_key
           => y < e.index + 1 /\ ~(id = "mixed" /\ s = "tool:out")
    <2>1. \A s \in KeyNames, y \in Nat : <<s, y>> \in DOMAIN c.index_by_key
            => y < u.next /\ ~(id = "mixed" /\ s = "tool:out")
      BY <1>2 DEF RLinked
    <2>2. CASE id = "none"
      BY ONLY <1>1, <1>11, <1>27, <2>1, <2>2
    <2>3. CASE id # "none"
      <3>1. \A s, y : <<s, y>> = q => y = e.index /\ ~(id = "mixed" /\ s = "tool:out")
        BY <1>9 DEF ToolKey
      <3>2. DOMAIN z.index_by_key = DOMAIN c.index_by_key \cup {q}
        BY <1>11, <1>27, <2>3
      <3> QED BY ONLY <1>1, <2>1, <3>1, <3>2
    <2> QED BY <2>2, <2>3
  <1>29. id = "output"
           => <<"tool:out", e.index>> \in DOMAIN z.index_by_key
           /\ z.index_by_key[<<"tool:out", e.index>>] = n
    <2>1. id = "output" => q = <<"tool:out", e.index>>
      BY <1>9 DEF ToolKey
    <2>2. id # "none" => q \in DOMAIN z.index_by_key /\ z.index_by_key[q] = n
      BY ONLY <1>11, <1>27
    <2> QED BY ONLY <2>1, <2>2
  <1>30. RLinked(z, id, w, t)
    <2>1. (n + 1) - 1 = n /\ (e.index + 1) - 1 = e.index
      BY <1>1, <1>18
    <2>2. v.started = u.created /\ c.message_start_sent = v.started
            /\ c.finish_reason_sent = v.stopped /\ (v.stopped => u.ended)
      BY DEF RLinked
    <2>3. z.message_start_sent = w.started /\ w.started = t.created
            /\ z.finish_reason_sent = w.stopped /\ (w.stopped => t.ended)
      BY ONLY <1>6, <1>26, <1>27, <2>2
    <2>4. z.next_content_index = w.blocks /\ w.kind = BlockKind(t) /\ w.calls = t.calls
            /\ z.open_indices = {w.blocks - 1} /\ w.blocks - 1 = n /\ t.next - 1 = e.index
      BY ONLY <1>3, <1>6, <1>26, <1>27, <2>1
    <2>5. \A s \in KeyNames, y \in Nat : <<s, y>> \in DOMAIN z.index_by_key
            => y < Used(t) /\ ~(id = "mixed" /\ s = "tool:out")
      BY ONLY <1>6, <1>28
    <2>6. id = "item"
            => t.next - 1 \in DOMAIN z.tool_index_by_item_id
            /\ z.tool_index_by_item_id[t.next - 1] = w.blocks - 1
      BY ONLY <1>13, <1>27, <2>4
    <2>7. id = "output"
            => <<"tool:out", t.next - 1>> \in DOMAIN z.index_by_key
            /\ z.index_by_key[<<"tool:out", t.next - 1>>] = w.blocks - 1
      BY ONLY <1>29, <2>4
    <2> QED BY <1>26, <1>27, <2>3, <2>4, <2>5, <2>6, <2>7 DEF RLinked
  <1>31. v.said \o RPiece(u, e) = v.said
      BY <1>4 DEF RPiece, ViewType
  <1>32. Result(z, <<m>>) \in RResult /\ Result(z, <<m>>).ctx = z
           /\ Result(z, <<m>>).out = <<m>>
      BY <1>23, <1>27, ResultIs
  <1>33. RConverted(d, Result(z, <<m>>), id, v, u, e)
      BY <1>5, <1>23, <1>26, <1>30, <1>31, <1>32 DEF RConverted
  <1> QED BY <1>20, <1>33

\* The end of a response.
EndsAt(u, t) ==
    t.created = u.created /\ t.calls = u.calls /\ BlockKind(t) = "none" /\ Used(t) = Used(u)
        /\ t.ended

Kept(c, b) ==
    /\ b \in RCtx /\ b.message_start_sent = c.message_start_sent
         /\ b.next_content_index = c.next_content_index
    /\ b.open_indices = c.open_indices /\ b.index_by_key = c.index_by_key
         /\ b.fallback_open_index = None

Quiet(v, w) ==
    /\ w.started = v.started /\ w.blocks = v.blocks /\ w.kind = "none" /\ w.calls = v.calls
         /\ w.said = v.said

\* A response completes with no item open.
LEMMA ResponseEnds ==
    ASSUME NEW u, VRType(u), NEW e, VRMay(UpIndexes, u, e), e.type \in {"completed", "done"}
    PROVE  EndsAt(u, VRAfter(u, e)) /\ u.kind = "none" /\ u.created /\ BlockKind(u) = "none"
             /\ (e.type = "completed" => ~u.ended)
  <1>1. (e.type = "completed" => u.created /\ ~u.ended /\ u.kind = "none")
          /\ (e.type = "done" => u.ended)
      BY DEF VRMay, RespEv
  <1>2. u.kind = "none" /\ u.created
      BY <1>1 DEF VRType
  <1>3. PICK t : t = VRAfter(u, e)
      OBVIOUS
  <1>4. /\ t.created = (u.created \/ e.type = "created")
        /\ t.ended = (u.ended \/ e.type \in {"completed", "failed"})
        /\ t.next = (IF e.type = "item_added" THEN e.index + 1 ELSE u.next)
        /\ t.calls = (IF e.type = "item_added" /\ e.kind = "function_call" THEN u.calls + 1
                      ELSE u.calls)
        /\ t.kind = (IF e.type = "item_added" THEN e.kind ELSE IF e.type = "item_done"
                     THEN "none" ELSE u.kind)
        /\ t.part = USeen(u, e, u.part, "part_added")
             /\ t.parted = USeen(u, e, u.parted, "part_done")
        /\ t.called = USeen(u, e, u.called, "args_done")
        /\ t.thinking = USeen(u, e, u.thinking, "reasoning_delta")
             /\ t.thought = USeen(u, e, u.thought, "reasoning_done")
      BY <1>3, UFields
  <1>5. EndsAt(u, t)
      BY <1>1, <1>2, <1>4 DEF BlockKind, Used, USeen, VRType, EndsAt
  <1>6. BlockKind(u) = "none"
      BY <1>2 DEF BlockKind, VRType
  <1> QED BY <1>1, <1>2, <1>3, <1>5, <1>6

\* The context stays linked to both streams at the end of a response.
LEMMA EndsLinked ==
    ASSUME NEW c, NEW id, NEW v, NEW u, RLinked(c, id, v, u), v.kind = "none", NEW b,
           Kept(c, b), NEW w, Quiet(v, w),
           b.finish_reason_sent = w.stopped, NEW t, EndsAt(u, t)
    PROVE  RLinked(b, id, w, t)
  <1>1. /\ c.message_start_sent = v.started /\ v.started = u.created
        /\ c.next_content_index = v.blocks /\ v.calls = u.calls /\ c.open_indices = {}
        /\ \A s \in KeyNames, x \in Nat : <<s, x>> \in DOMAIN c.index_by_key
             => x < Used(u) /\ ~(id = "mixed" /\ s = "tool:out")
      BY DEF RLinked
  <1>2. b.message_start_sent = w.started /\ w.started = t.created
      BY <1>1 DEF Kept, Quiet, EndsAt
  <1>3. b.next_content_index = w.blocks /\ w.calls = t.calls /\ w.kind = "none"
          /\ BlockKind(t) = "none" /\ b.open_indices = {}
        /\ b.fallback_open_index = None /\ t.ended
      BY <1>1 DEF Kept, Quiet, EndsAt
  <1>4. \A s \in KeyNames, x \in Nat : <<s, x>> \in DOMAIN b.index_by_key
          => x < Used(t) /\ ~(id = "mixed" /\ s = "tool:out")
    <2>1. b.index_by_key = c.index_by_key /\ Used(t) = Used(u)
      BY DEF Kept, EndsAt
    <2> QED BY <1>1, <2>1
  <1> QED BY <1>2, <1>3, <1>4 DEF RLinked

\* The stop of a message.
LEMMA RStops ==
    ASSUME NEW d, NEW o, NEW v, Sees(d, o, v), v.started, v.kind = "none", NEW m,
           m = ClaudeEv("message_stop", "none", 0)
    PROVE  Sees(d, Append(o, m), VAfter(v, m)) /\ Quiet(v, VAfter(v, m))
             /\ VAfter(v, m).stopped = TRUE /\ m \in ClaudeEvent
  <1>1. VMay(v, m)
      BY DEF VMay
  <1>2. Sees(d, Append(o, m), VAfter(v, m)) /\ m \in ClaudeEvent
      BY <1>1, SeesMore
  <1>3. PICK w : w = VAfter(v, m)
      OBVIOUS
  <1>4. /\ w.started = (v.started \/ m.type = "message_start")
             /\ w.stopped = (v.stopped \/ m.type = "message_stop")
        /\ w.reason = (v.reason \/ m.kind = "stop")
        /\ w.blocks = (IF m.type = "content_block_start" THEN v.blocks + 1 ELSE v.blocks)
        /\ w.kind = (IF m.type = "content_block_start" THEN m.kind
                     ELSE IF m.type = "content_block_stop" THEN "none" ELSE v.kind)
        /\ w.calls = (IF m.type = "content_block_start" /\ m.kind = "tool_use"
                      THEN v.calls + 1 ELSE v.calls)
        /\ w.said = IF m.type = "content_block_delta"
                THEN Append(v.said, <<m.kind, IF m.kind = "tool_use" THEN v.calls ELSE 0>>)
                    ELSE v.said
      BY <1>3, VFields
  <1>5. m.type = "message_stop" /\ m.kind = "none"
      BY DEF ClaudeEv
  <1>6. v \in ViewType
      BY SeesType
  <1>7. Quiet(v, w) /\ w.stopped = TRUE
      BY <1>4, <1>5, <1>6 DEF Quiet, ViewType
  <1> QED BY <1>2, <1>3, <1>7

\* response.completed.
Completed(c) == [c EXCEPT !.fallback_open_index = None, !.finish_reason_sent = TRUE]

\* The context after the response has been completed.
LEMMA FinishedIs ==
    ASSUME NEW c \in RCtx
    PROVE  Kept(c, Completed(c)) /\ Completed(c).finish_reason_sent = TRUE
             /\ Completed(c) \in RCtx
  <1> DEFINE a == [c EXCEPT !.fallback_open_index = None]
             b == [a EXCEPT !.finish_reason_sent = TRUE]
  <1>1. a \in RCtx
      BY DEF RCtx
  <1>2. b \in RCtx
    <2> HIDE DEF a
    <2> QED BY <1>1 DEF RCtx
  <1>3. Completed(c) = b
      BY DEF Completed, RCtx
  <1> QED BY <1>2, <1>3 DEF Kept, RCtx, Completed

\* The completed event keeps the link between the context and both streams.
LEMMA RCompletes ==
    ASSUME NEW d, NEW v, Sees(d, << >>, v), NEW u, VRType(u), NEW e, VRMay(UpIndexes, u, e),
           NEW c \in RCtx, NEW id \in RespToClaude!IdStyle, RLinked(c, id, v, u),
               e.type = "completed"
    PROVE  RConverted(d, RespToClaude!completed(Result(c, << >>)), id, v, u, e)
  <1>1. PICK t : t = VRAfter(u, e)
      OBVIOUS
  <1>2. EndsAt(u, t) /\ u.kind = "none" /\ u.created /\ BlockKind(u) = "none" /\ ~u.ended
      BY <1>1, ResponseEnds
  <1>3. v.kind = "none" /\ v.started /\ ~v.stopped /\ c.message_start_sent
          /\ ~c.finish_reason_sent /\ c.open_indices = {}
      BY <1>2 DEF RLinked
  <1>4. v \in ViewType /\ << >> \in Seq(ClaudeEvent)
      BY SeesType
  <1>5. PICK m1 : m1 = ClaudeEv("message_delta", "stop", 0)
      OBVIOUS
  <1>6. PICK m2 : m2 = ClaudeEv("message_stop", "none", 0)
      OBVIOUS
  <1>7. PICK w1 : w1 = VAfter(v, m1)
      OBVIOUS
  <1>8. PICK w : w = VAfter(w1, m2)
      OBVIOUS
  <1>9. PICK o1 : o1 = Append(<< >>, m1)
      OBVIOUS
  <1>10. PICK o2 : o2 = Append(o1, m2)
      OBVIOUS
  <1>11. Sees(d, o1, w1) /\ m1 \in ClaudeEvent /\ o1 \in Seq(ClaudeEvent)
    <2>1. VMay(v, m1)
      BY <1>3, <1>5 DEF VMay
    <2>2. Sees(d, Append(<< >>, m1), VAfter(v, m1)) /\ m1 \in ClaudeEvent
      BY <2>1, SeesMore
    <2> QED BY <1>7, <1>9, <2>2, SeesType
  <1>12. Quiet(v, w1)
    <2>1. /\ w1.started = (v.started \/ m1.type = "message_start")
               /\ w1.stopped = (v.stopped \/ m1.type = "message_stop")
          /\ w1.reason = (v.reason \/ m1.kind = "stop")
          /\ w1.blocks = (IF m1.type = "content_block_start" THEN v.blocks + 1 ELSE v.blocks)
          /\ w1.kind = (IF m1.type = "content_block_start" THEN m1.kind
                        ELSE IF m1.type = "content_block_stop" THEN "none" ELSE v.kind)
          /\ w1.calls = (IF m1.type = "content_block_start" /\ m1.kind = "tool_use"
                         THEN v.calls + 1 ELSE v.calls)
          /\ w1.said = IF m1.type = "content_block_delta"
                THEN Append(v.said, <<m1.kind, IF m1.kind = "tool_use" THEN v.calls ELSE 0>>)
                    ELSE v.said
      BY <1>7, VFields
    <2>2. m1.type = "message_delta"
      BY <1>5 DEF ClaudeEv
    <2> QED BY <1>3, <1>4, <2>1, <2>2 DEF Quiet, ViewType
  <1>13. w1.started /\ w1.kind = "none"
      BY <1>3, <1>12 DEF Quiet
  <1>14. Sees(d, o2, w) /\ Quiet(w1, w) /\ w.stopped = TRUE /\ m2 \in ClaudeEvent
           /\ o2 \in Seq(ClaudeEvent)
    <2>1. Sees(d, Append(o1, m2), VAfter(w1, m2)) /\ Quiet(w1, VAfter(w1, m2))
            /\ VAfter(w1, m2).stopped = TRUE /\ m2 \in ClaudeEvent
      BY <1>6, <1>11, <1>13, RStops, Zenon
    <2> QED BY <1>8, <1>10, <2>1, SeesType
  <1>15. Quiet(v, w)
      BY <1>12, <1>14 DEF Quiet
  <1>16. PICK b : b = Completed(c)
      OBVIOUS
  <1>17. Kept(c, b) /\ b.finish_reason_sent = TRUE /\ b \in RCtx
      BY <1>16, FinishedIs
  <1>18. RespToClaude!completed(Result(c, << >>)) = Result(b, o2)
    <2> DEFINE r == Result(c, << >>)
               s == RespToClaude!close_all_open_indices(RespToClaude!emit_message_start_if_needed(r))
               z == RespToClaude!emit(RespToClaude!emit(s, RespToClaude!claude("message_delta", "stop", 0)), RespToClaude!claude("message_stop", "none", 0))
    <2>1. r \in RResult /\ r.ctx = c /\ r.out = << >>
            /\ RespToClaude!emit_message_start_if_needed(r) = r
      BY <1>3, <1>4, ResultIs, RStart
    <2>2. s = r
      <3>1. 0 \in Nat /\ r.ctx.open_indices = {}
        BY <1>3, <2>1
      <3>2. RespToClaude!close_all_open_indices(r) = IF r.ctx.open_indices = {} THEN r
              ELSE RespToClaude!close_open_index(r, 0)
        BY <3>1, CloseAllOpen
      <3> QED BY <2>1, <3>1, <3>2
    <2>3. RespToClaude!emit(r, RespToClaude!claude("message_delta", "stop", 0))
            = Result(c, o1)
      BY <1>4, <1>5, <1>9, <1>11, REmit, REvent
    <2>4. RespToClaude!emit(Result(c, o1), RespToClaude!claude("message_stop", "none", 0))
            = Result(c, o2)
      BY <1>6, <1>10, <1>11, <1>14, REmit, REvent
    <2>5. z = Result(c, o2)
      BY <2>2, <2>3, <2>4, Zenon
    <2>6. RespToClaude!completed(r)
            = [z EXCEPT !.ctx.fallback_open_index = None, !.ctx.finish_reason_sent = TRUE]
      BY <1>3, <2>1, Zenon DEF RespToClaude!completed
    <2> HIDE DEF z, s
    <2>7. z \in RResult /\ z.ctx = c /\ z.out = o2
      BY <1>14, <2>5, ResultIs
    <2>8. [z EXCEPT !.ctx.fallback_open_index = None, !.ctx.finish_reason_sent = TRUE]
            = [z EXCEPT !.ctx = b]
      BY <1>16, <2>7 DEF RResult, Completed
    <2>9. [z EXCEPT !.ctx = b] = Result(b, z.out)
      BY <1>17, <2>7, WithCtx
    <2> QED BY <2>6, <2>7, <2>8, <2>9
  <1>19. RLinked(b, id, w, t)
    <2>1. b.finish_reason_sent = w.stopped
      BY <1>14, <1>17
    <2> QED BY <1>2, <1>3, <1>15, <1>17, <2>1, EndsLinked
  <1>20. w.said = v.said \o RPiece(u, e)
    <2>1. v.said \o RPiece(u, e) = v.said
      BY <1>4 DEF RPiece, ViewType
    <2> QED BY <1>15, <2>1 DEF Quiet
  <1>21. Result(b, o2) \in RResult /\ Result(b, o2).ctx = b /\ Result(b, o2).out = o2
      BY <1>14, <1>17, ResultIs
  <1>22. RConverted(d, Result(b, o2), id, v, u, e)
      BY <1>1, <1>14, <1>19, <1>20, <1>21 DEF RConverted
  <1> QED BY <1>18, <1>22

\* finalize_done once no block is open.
Cleared(c) == [c EXCEPT !.tool_index_by_item_id = << >>, !.last_tool_index = None,
               !.fallback_open_index = None]

Ended(c) == [Cleared(c) EXCEPT !.finish_reason_sent = TRUE]

EndOf(q) ==
    LET z == [q EXCEPT !.ctx.tool_index_by_item_id = << >>,
                       !.ctx.last_tool_index = None, !.ctx.fallback_open_index = None]
    IN IF z.ctx.finish_reason_sent \/ ~z.ctx.message_start_sent THEN z
       ELSE [RespToClaude!emit(z, RespToClaude!claude("message_stop", "none", 0)) EXCEPT !.ctx.finish_reason_sent = TRUE]

\* The contexts at the end of a stream.
LEMMA ClearedIs ==
    ASSUME NEW c \in RCtx
    PROVE  /\ Cleared(c) \in RCtx /\ Kept(c, Cleared(c))
                /\ Cleared(c).finish_reason_sent = c.finish_reason_sent
           /\ Ended(c) \in RCtx /\ Kept(c, Ended(c)) /\ Ended(c).finish_reason_sent = TRUE
  <1>0. << >> \in Partial(Nat)
      BY EmptyMap
  <1> DEFINE p0 == [c EXCEPT !.tool_index_by_item_id = << >>]
             p1 == [p0 EXCEPT !.last_tool_index = None]
             p2 == [p1 EXCEPT !.fallback_open_index = None]
             p3 == [Cleared(c) EXCEPT !.finish_reason_sent = TRUE]
  <1>1. p0 \in RCtx
      BY <1>0 DEF RCtx
  <1>2. p1 \in RCtx
    <2> HIDE DEF p0
    <2> QED BY <1>1 DEF RCtx
  <1>3. p2 \in RCtx
    <2> HIDE DEF p1
    <2> QED BY <1>2 DEF RCtx
  <1>4. Cleared(c) = p2
      BY DEF Cleared, RCtx
  <1>5. Cleared(c) \in RCtx
      BY <1>3, <1>4
  <1>6. Kept(c, Cleared(c)) /\ Cleared(c).finish_reason_sent = c.finish_reason_sent
      BY <1>5 DEF Kept, Cleared, RCtx
  <1>7. PICK b : b = Cleared(c)
      OBVIOUS
  <1>8. [b EXCEPT !.finish_reason_sent = TRUE] \in RCtx
          /\ Kept(b, [b EXCEPT !.finish_reason_sent = TRUE])
        /\ [b EXCEPT !.finish_reason_sent = TRUE].finish_reason_sent = TRUE
    <2>1. [b EXCEPT !.finish_reason_sent = TRUE] \in RCtx
      BY <1>5, <1>7 DEF RCtx
    <2>2. b.fallback_open_index = None
      BY <1>6, <1>7 DEF Kept
    <2> QED BY <1>5, <1>7, <2>1, <2>2 DEF Kept, RCtx
  <1>9. Ended(c) = [b EXCEPT !.finish_reason_sent = TRUE]
      BY <1>7 DEF Ended
  <1>10. Ended(c) \in RCtx /\ Kept(b, Ended(c)) /\ Ended(c).finish_reason_sent = TRUE
      BY <1>8, <1>9
  <1>11. Kept(c, Ended(c))
      BY <1>6, <1>7, <1>10 DEF Kept
  <1> QED BY <1>5, <1>6, <1>10, <1>11

\* A result in which the message is over if it was started.
Closing(d, v, c, s) ==
    \E b, o, w :
        /\ s = Result(b, o) /\ Kept(c, b) /\ Sees(d, o, w) /\ Quiet(v, w)
        /\ b.finish_reason_sent = w.stopped /\ (w.started => w.stopped)

\* The end of a stream with no block open.
LEMMA EndOfIs ==
    ASSUME NEW d, NEW o, NEW v, Sees(d, o, v), v.kind = "none", NEW c \in RCtx,
           c.message_start_sent = v.started, c.finish_reason_sent = v.stopped
    PROVE  Closing(d, v, c, EndOf(Result(c, o)))
  <1>1. v \in ViewType /\ o \in Seq(ClaudeEvent)
      BY SeesType
  <1>2. PICK q : q = Result(c, o)
      OBVIOUS
  <1>3. q \in RResult /\ q.ctx = c /\ q.out = o
      BY <1>1, <1>2, ResultIs
  <1>4. PICK b : b = Cleared(c)
      OBVIOUS
  <1>5. b \in RCtx /\ Kept(c, b) /\ b.finish_reason_sent = c.finish_reason_sent
      BY <1>4, ClearedIs
  <1>6. b.message_start_sent = c.message_start_sent
      BY <1>5 DEF Kept
  <1> DEFINE z == [q EXCEPT !.ctx.tool_index_by_item_id = << >>,
                            !.ctx.last_tool_index = None, !.ctx.fallback_open_index = None]
  <1>7. z = [q EXCEPT !.ctx = b]
      BY <1>3, <1>4 DEF RResult, Cleared
  <1>8. [q EXCEPT !.ctx = b] = Result(b, o)
    <2>1. [q EXCEPT !.ctx = b] = Result(b, q.out)
      BY <1>3, <1>5, WithCtx
    <2> QED BY <1>3, <2>1
  <1>9. z = Result(b, o)
      BY <1>7, <1>8, Zenon
  <1>10. EndOf(q) = IF z.ctx.finish_reason_sent \/ ~z.ctx.message_start_sent THEN z
         ELSE [RespToClaude!emit(z, RespToClaude!claude("message_stop", "none", 0)) EXCEPT !.ctx.finish_reason_sent = TRUE]
      BY Zenon DEF EndOf
  <1> HIDE DEF z
  <1>11. z.ctx = b
      BY <1>1, <1>5, <1>9, ResultIs
  <1>12. CASE v.stopped \/ ~v.started
    <2>1. EndOf(q) = Result(b, o)
      BY <1>5, <1>6, <1>9, <1>10, <1>11, <1>12
    <2>2. Quiet(v, v)
      BY DEF Quiet
    <2>3. b.finish_reason_sent = v.stopped /\ (v.started => v.stopped)
      BY <1>5, <1>12
    <2> QED BY <1>2, <1>5, <2>1, <2>2, <2>3 DEF Closing
  <1>13. CASE ~v.stopped /\ v.started
    <2>1. PICK m : m = ClaudeEv("message_stop", "none", 0)
      OBVIOUS
    <2>2. PICK w : w = VAfter(v, m)
      OBVIOUS
    <2>3. PICK o1 : o1 = Append(o, m)
      OBVIOUS
    <2>4. Sees(d, o1, w) /\ Quiet(v, w) /\ w.stopped = TRUE /\ m \in ClaudeEvent
            /\ o1 \in Seq(ClaudeEvent)
      <3>1. Sees(d, Append(o, m), VAfter(v, m)) /\ Quiet(v, VAfter(v, m))
              /\ VAfter(v, m).stopped = TRUE /\ m \in ClaudeEvent
        BY <1>13, <2>1, RStops
      <3> QED BY <2>2, <2>3, <3>1, SeesType
    <2>5. RespToClaude!emit(z, RespToClaude!claude("message_stop", "none", 0)) = Result(b, o1)
      BY <1>1, <1>5, <1>9, <2>1, <2>3, <2>4, REmit, REvent
    <2>6. PICK y : y = Result(b, o1)
      OBVIOUS
    <2>7. y \in RResult /\ y.ctx = b /\ y.out = o1
      BY <1>5, <2>4, <2>6, ResultIs
    <2>8. PICK a : a = Ended(c)
      OBVIOUS
    <2>9. a \in RCtx /\ Kept(c, a) /\ a.finish_reason_sent = TRUE
      BY <2>8, ClearedIs
    <2>10. [y EXCEPT !.ctx.finish_reason_sent = TRUE] = [y EXCEPT !.ctx = a]
      BY <1>4, <2>7, <2>8 DEF RResult, Ended
    <2>11. [y EXCEPT !.ctx = a] = Result(a, y.out)
      BY <2>7, <2>9, WithCtx
    <2>12. EndOf(q) = [y EXCEPT !.ctx.finish_reason_sent = TRUE]
      <3>1. ~(z.ctx.finish_reason_sent \/ ~z.ctx.message_start_sent)
        BY <1>5, <1>6, <1>11, <1>13
      <3> QED BY <1>10, <2>5, <2>6, <3>1, Zenon
    <2>13. EndOf(q) = Result(a, o1)
      BY <2>7, <2>10, <2>11, <2>12, Zenon
    <2> QED BY <1>2, <2>4, <2>9, <2>13 DEF Closing
  <1> QED BY <1>12, <1>13

\* finalize_done closes the open blocks first.
LEMMA FinalizesAs ==
    ASSUME NEW r
    PROVE  RespToClaude!finalize_done(r) = EndOf(RespToClaude!close_all_open_indices(r))
      BY Zenon DEF RespToClaude!finalize_done, EndOf

\* "[DONE]".
LEMMA RDones ==
    ASSUME NEW d, NEW v, Sees(d, << >>, v), NEW u, VRType(u), NEW e, VRMay(UpIndexes, u, e),
           NEW c \in RCtx, NEW id \in RespToClaude!IdStyle, RLinked(c, id, v, u),
               e.type = "done"
    PROVE  RConverted(d, RespToClaude!finalize_done(Result(c, << >>)), id, v, u, e)
  <1>1. PICK t : t = VRAfter(u, e)
      OBVIOUS
  <1>2. EndsAt(u, t) /\ u.kind = "none" /\ u.created /\ BlockKind(u) = "none"
      BY <1>1, ResponseEnds
  <1>3. v.kind = "none" /\ c.message_start_sent = v.started
          /\ c.finish_reason_sent = v.stopped /\ c.open_indices = {}
      BY <1>2 DEF RLinked
  <1>4. v \in ViewType /\ << >> \in Seq(ClaudeEvent)
      BY SeesType
  <1>5. PICK r : r = Result(c, << >>)
      OBVIOUS
  <1>6. r \in RResult /\ r.ctx = c /\ r.out = << >>
      BY <1>4, <1>5, ResultIs
  <1>7. RespToClaude!close_all_open_indices(r) = r
    <2>1. 0 \in Nat /\ r.ctx.open_indices = {}
      BY <1>3, <1>6
    <2>2. RespToClaude!close_all_open_indices(r) = IF r.ctx.open_indices = {} THEN r
            ELSE RespToClaude!close_open_index(r, 0)
      BY <2>1, CloseAllOpen
    <2> QED BY <2>1, <2>2
  <1>8. RespToClaude!finalize_done(r) = EndOf(r)
      BY <1>7, FinalizesAs
  <1>9. Closing(d, v, c, EndOf(r))
      BY <1>3, <1>5, EndOfIs
  <1>10. PICK b, o, w :
            /\ EndOf(r) = Result(b, o) /\ Kept(c, b) /\ Sees(d, o, w) /\ Quiet(v, w)
            /\ b.finish_reason_sent = w.stopped /\ (w.started => w.stopped)
      BY <1>9, Zenon DEF Closing
  <1>11. RLinked(b, id, w, t)
      BY <1>2, <1>3, <1>10, EndsLinked
  <1>12. b \in RCtx /\ o \in Seq(ClaudeEvent)
      BY <1>10, SeesType DEF Kept
  <1>13. Result(b, o) \in RResult /\ Result(b, o).ctx = b /\ Result(b, o).out = o
      BY <1>12, ResultIs
  <1>14. w.said = v.said \o RPiece(u, e)
    <2>1. v.said \o RPiece(u, e) = v.said
      BY <1>4 DEF RPiece, ViewType
    <2> QED BY <1>10, <2>1 DEF Quiet
  <1>15. RConverted(d, Result(b, o), id, v, u, e)
      BY <1>1, <1>10, <1>11, <1>13, <1>14 DEF RConverted
  <1> QED BY <1>5, <1>8, <1>10, <1>15

\* The finalizer.
Over(d, v, s) ==
    /\ s \in RResult
    /\ \E w : Sees(d, s.out, w) /\ w.kind = "none" /\ (w.started => w.stopped)
         /\ w.said = v.said

\* A result without an open block.
ClosesTo(d, v, q) ==
    \E b, o, w :
        /\ q = Result(b, o) /\ b \in RCtx /\ Sees(d, o, w) /\ w.kind = "none"
             /\ w.said = v.said
        /\ b.message_start_sent = w.started /\ b.finish_reason_sent = w.stopped

\* A stream that has been closed is over.
LEMMA OverAtEnd ==
    ASSUME NEW d, NEW v, NEW q, ClosesTo(d, v, q)
    PROVE  Over(d, v, EndOf(q))
  <1>1. PICK b, o, w :
            /\ q = Result(b, o) /\ b \in RCtx /\ Sees(d, o, w) /\ w.kind = "none"
                 /\ w.said = v.said
            /\ b.message_start_sent = w.started /\ b.finish_reason_sent = w.stopped
      BY Zenon DEF ClosesTo
  <1>2. Closing(d, w, b, EndOf(Result(b, o)))
      BY <1>1, EndOfIs
  <1>3. PICK b1, o1, w1 :
            /\ EndOf(Result(b, o)) = Result(b1, o1) /\ Kept(b, b1) /\ Sees(d, o1, w1)
                 /\ Quiet(w, w1)
            /\ b1.finish_reason_sent = w1.stopped /\ (w1.started => w1.stopped)
      BY <1>2, Zenon DEF Closing
  <1>4. b1 \in RCtx /\ o1 \in Seq(ClaudeEvent)
      BY <1>3, SeesType DEF Kept
  <1>5. Result(b1, o1) \in RResult /\ Result(b1, o1).ctx = b1 /\ Result(b1, o1).out = o1
      BY <1>4, ResultIs
  <1>6. EndOf(q) = Result(b1, o1)
      BY <1>1, <1>3
  <1>7. w1.kind = "none" /\ w1.said = v.said
      BY <1>1, <1>3 DEF Quiet
  <1> QED BY <1>3, <1>5, <1>6, <1>7 DEF Over

\* finalize_openai_responses_stream_to_claude ends the stream from every
\* context.
LEMMA RFinalizes ==
    ASSUME NEW d, NEW v, Sees(d, << >>, v), NEW u, VRType(u), NEW c \in RCtx, NEW id,
           RLinked(c, id, v, u)
    PROVE  Over(d, v, RespToClaude!finalize_openai_responses_stream_to_claude(c))
  <1> DEFINE f == RespToClaude!finalize_openai_responses_stream_to_claude(c)
  <1>1. v \in ViewType /\ << >> \in Seq(ClaudeEvent) /\ (v.kind # "none" => v.blocks > 0)
      BY SeesType
  <1>2. PICK r : r = Result(c, << >>)
      OBVIOUS
  <1>3. r \in RResult /\ r.ctx = c /\ r.out = << >>
      BY <1>1, <1>2, ResultIs
  <1>4. c.message_start_sent = v.started /\ c.finish_reason_sent = v.stopped
          /\ v.started = u.created /\ v.kind = BlockKind(u)
        /\ c.open_indices = (IF v.kind = "none" THEN {} ELSE {v.blocks - 1})
             /\ (v.stopped => u.ended)
      BY DEF RLinked
  <1>5. v.stopped => v.kind = "none"
      BY <1>4 DEF BlockKind, VRType
  <1>6. f = IF c.finish_reason_sent \/ (~c.message_start_sent /\ c.open_indices = {}) THEN r
          ELSE RespToClaude!finalize_done(r)
      BY <1>2, Zenon DEF RespToClaude!finalize_openai_responses_stream_to_claude, Result
  <1> HIDE DEF f
  <1>7. CASE v.stopped \/ (~v.started /\ v.kind = "none")
    <2>1. f = r
      BY <1>4, <1>6, <1>7
    <2> QED BY <1>3, <1>5, <1>7, <2>1 DEF Over, f
  <1>8. CASE ~v.stopped /\ ~(~v.started /\ v.kind = "none")
    <2>1. f = RespToClaude!finalize_done(r)
      BY <1>4, <1>6, <1>8
    <2>2. PICK n : n = v.blocks - 1
      OBVIOUS
    <2>3. PICK q : q = RespToClaude!close_all_open_indices(r)
      OBVIOUS
    <2>4. RespToClaude!finalize_done(r) = EndOf(q)
      BY <2>3, FinalizesAs
    <2>5. ClosesTo(d, v, q) => Over(d, v, f)
      <3>1. ClosesTo(d, v, q) => Over(d, v, EndOf(q))
        BY OverAtEnd
      <3> QED BY <2>1, <2>4, <3>1
    <2>6. CASE v.kind = "none"
      <3>1. 0 \in Nat /\ r.ctx.open_indices = {}
        BY <1>3, <1>4, <2>6
      <3>2. RespToClaude!close_all_open_indices(r) = IF r.ctx.open_indices = {} THEN r
              ELSE RespToClaude!close_open_index(r, 0)
        BY <3>1, CloseAllOpen
      <3>3. q = Result(c, << >>)
        BY <1>2, <2>3, <3>1, <3>2
      <3>4. ClosesTo(d, v, q)
        BY <1>4, <2>6, <3>3 DEF ClosesTo
      <3> QED BY <2>5, <3>4 DEF f
    <2>7. CASE v.kind # "none"
      <3>1. n \in Nat /\ r.ctx.open_indices = {n}
        BY <1>1, <1>3, <1>4, <2>2, <2>7 DEF ViewType
      <3>2. RespToClaude!close_all_open_indices(r) = IF r.ctx.open_indices = {} THEN r
              ELSE RespToClaude!close_open_index(r, n)
        BY <3>1, CloseAllOpen
      <3>3. q = RespToClaude!close_open_index(r, n)
        BY <2>3, <3>1, <3>2
      <3>4. PICK m : m = ClaudeEv("content_block_stop", "none", n)
        OBVIOUS
      <3>5. PICK b : b = Closed(c, n)
        OBVIOUS
      <3>6. q = Result(b, <<m>>)
        <4>1. RespToClaude!close_open_index(Result(c, << >>), n)
                = IF n \notin c.open_indices THEN Result(c, << >>)
                  ELSE Result(Closed(c, n),
                              Append(<< >>, ClaudeEv("content_block_stop", "none", n)))
          BY <1>1, <3>1, RCloses
        <4>2. n \in c.open_indices /\ Append(<< >>, m) = <<m>>
          BY <1>3, <3>1
        <4> QED BY <1>2, <3>3, <3>4, <3>5, <4>1, <4>2
      <3>7. VMay(v, m)
        BY <2>2, <2>7, <3>4 DEF VMay
      <3>8. PICK w : w = VAfter(v, m)
        OBVIOUS
      <3>9. Sees(d, <<m>>, w)
        <4>1. Sees(d, Append(<< >>, m), VAfter(v, m))
          BY <3>7, SeesMore
        <4>2. Append(<< >>, m) = <<m>>
          OBVIOUS
        <4> QED BY <3>8, <4>1, <4>2
      <3>10. w.started = v.started /\ w.stopped = v.stopped /\ w.kind = "none"
               /\ w.said = v.said
        <4>1. /\ w.started = (v.started \/ m.type = "message_start")
                   /\ w.stopped = (v.stopped \/ m.type = "message_stop")
              /\ w.reason = (v.reason \/ m.kind = "stop")
              /\ w.blocks = (IF m.type = "content_block_start" THEN v.blocks + 1
                             ELSE v.blocks)
              /\ w.kind = (IF m.type = "content_block_start" THEN m.kind
                           ELSE IF m.type = "content_block_stop" THEN "none" ELSE v.kind)
              /\ w.calls = (IF m.type = "content_block_start" /\ m.kind = "tool_use"
                            THEN v.calls + 1 ELSE v.calls)
              /\ w.said = IF m.type = "content_block_delta"
                    THEN Append(v.said, <<m.kind, IF m.kind = "tool_use" THEN v.calls ELSE 0>>) ELSE v.said
          BY <3>8, VFields
        <4>2. m.type = "content_block_stop" /\ m.kind = "none"
          BY <3>4 DEF ClaudeEv
        <4> QED BY <1>1, <4>1, <4>2 DEF ViewType
      <3>11. /\ b \in RCtx /\ b.open_indices = c.open_indices \ {n}
             /\ b.message_start_sent = c.message_start_sent
                  /\ b.finish_reason_sent = c.finish_reason_sent
             /\ b.next_content_index = c.next_content_index
             /\ b.fallback_open_index
                  = (IF c.fallback_open_index = n THEN None ELSE c.fallback_open_index)
             /\ b.index_by_key = c.index_by_key /\ b.last_tool_index = c.last_tool_index
             /\ b.tool_index_by_item_id = c.tool_index_by_item_id
        BY ONLY c \in RCtx, <3>1, <3>5, ClosedIs
      <3>12. b \in RCtx /\ b.message_start_sent = w.started
               /\ b.finish_reason_sent = w.stopped
        BY ONLY <1>4, <3>10, <3>11
      <3>13. ClosesTo(d, v, q)
        BY <3>6, <3>9, <3>10, <3>12 DEF ClosesTo
      <3> QED BY <2>5, <3>13 DEF f
    <2> QED BY <2>6, <2>7
  <1> QED BY <1>7, <1>8 DEF f

\* openai_responses_stream_to_claude.
LEMMA RConverts ==
    ASSUME NEW d, NEW v, Sees(d, << >>, v), NEW u, VRType(u), NEW e, VRMay(UpIndexes, u, e),
           NEW c \in RCtx, NEW id \in RespToClaude!IdStyle, RLinked(c, id, v, u),
           e.type = "item_done" => v.kind = "none"
    PROVE  RConverted(d, RespToClaude!openai_responses_stream_to_claude(c, id, e), id, v, u,
                      e)
  <1>1. PICK r : r = Result(c, << >>)
      OBVIOUS
  <1>2. r = [ctx |-> c, out |-> << >>]
      BY <1>1 DEF Result
  <1> DEFINE s == RespToClaude!openai_responses_stream_to_claude(c, id, e)
  <1>3. e.type \in {"created", "item_added", "part_added", "text_delta", "args_delta",
                    "reasoning_delta", "text_done", "part_done",
                    "args_done", "reasoning_done", "item_done", "completed", "failed", "done"}
      BY DEF VRMay, RespEv
  <1>4. CASE e.type = "created"
    <2>1. s = RespToClaude!emit_message_start_if_needed(r)
      BY <1>2, <1>4 DEF RespToClaude!openai_responses_stream_to_claude
    <2> QED BY <1>1, <1>4, <2>1, RCreates
  <1>5. CASE e.type = "part_added"
    <2>1. s = RespToClaude!part_added(r, id, e)
      BY <1>2, <1>5 DEF RespToClaude!openai_responses_stream_to_claude
    <2> QED BY <1>1, <1>5, <2>1, RPartAdds
  <1>6. CASE e.type = "text_delta"
    <2>1. s = RespToClaude!content_delta(r, id, e, "text")
      BY <1>2, <1>6 DEF RespToClaude!openai_responses_stream_to_claude
    <2> QED BY <1>1, <1>6, <2>1, RPartSays
  <1>7. CASE e.type = "reasoning_delta"
    <2>1. s = RespToClaude!content_delta(r, id, e, "thinking")
      BY <1>2, <1>7 DEF RespToClaude!openai_responses_stream_to_claude
    <2>2. CASE u.thinking
      BY <1>1, <1>7, <2>1, <2>2, RPartSays
    <2>3. CASE ~u.thinking
      BY <1>1, <1>7, <2>1, <2>3, RThinks
    <2> QED BY <2>2, <2>3
  <1>8. CASE e.type \in {"part_done", "reasoning_done"}
    <2>1. s = RespToClaude!part_done(r, id, e)
      BY <1>2, <1>8 DEF RespToClaude!openai_responses_stream_to_claude
    <2> QED BY <1>1, <1>8, <2>1, RPartEnds
  <1>9. CASE e.type = "item_added" /\ e.kind = "function_call"
    <2>1. s = RespToClaude!function_call_added(r, id, e)
      BY <1>2, <1>9 DEF RespToClaude!openai_responses_stream_to_claude
    <2> QED BY <1>1, <1>9, <2>1, RCallAdds
  <1>10. CASE e.type = "args_delta"
    <2>1. s = RespToClaude!arguments_delta(r, id, e)
      BY <1>2, <1>10 DEF RespToClaude!openai_responses_stream_to_claude
    <2> QED BY <1>1, <1>10, <2>1, RCallSays
  <1>11. CASE e.type = "args_done"
    <2>1. s = RespToClaude!arguments_done(r, id, e)
      BY <1>2, <1>11 DEF RespToClaude!openai_responses_stream_to_claude
    <2> QED BY <1>1, <1>11, <2>1, RCallEnds
  <1>12. CASE e.type = "completed"
    <2>1. s = RespToClaude!completed(r)
      BY <1>2, <1>12 DEF RespToClaude!openai_responses_stream_to_claude
    <2> QED BY <1>1, <1>12, <2>1, RCompletes
  <1>13. CASE e.type = "done"
    <2>1. s = RespToClaude!finalize_done(r)
      BY <1>2, <1>13 DEF RespToClaude!openai_responses_stream_to_claude
    <2> QED BY <1>1, <1>13, <2>1, RDones
  <1>14. CASE e.type \in {"text_done", "item_done", "failed"}
           \/ (e.type = "item_added" /\ e.kind # "function_call")
    <2>1. s = r
      BY <1>2, <1>14 DEF RespToClaude!openai_responses_stream_to_claude
    <2>2. e.type \in {"text_done", "item_done", "failed", "item_added"}
            /\ (e.type = "item_added" => e.kind # "function_call")
      BY <1>14
    <2> QED BY <1>1, <2>1, <2>2, RSkips
  <1> QED BY <1>3, <1>4, <1>5, <1>6, <1>7, <1>8, <1>9, <1>10, <1>11, <1>12, <1>13, <1>14

\* The tool calls a Responses stream announces are its function_call items.
LEMMA RAnnounced ==
    ASSUME NEW es \in Seq(RespEvent)
    PROVE  announcedIn(es) = RCalls(es)
  <1>1. \A x \in RespEvent : Announces(x)
          <=> x.type = "item_added" /\ x.kind = "function_call"
      BY DEF Announces, RespEvent, RespTypes
  <1>2. \A i \in 1..Len(es) : es[i] \in RespEvent
      OBVIOUS
  <1> QED BY <1>1, <1>2 DEF announcedIn, RCalls, RAdded

\* A piece of arguments belongs to the latest tool call.
LEMMA RCallOf ==
    ASSUME NEW es, RShape(es), NEW ix \in SUBSET Nat, NEW e, VRMay(ix, RView(es), e),
           e.type = "args_delta"
    PROVE  callOf(Append(es, e), Len(es) + 1) = RView(es).calls
  <1>1. PICK fs : fs = Append(es, e)
      OBVIOUS
  <1>2. PICK n : n = Len(es) + 1
      OBVIOUS
  <1>3. e \in RespEvent /\ es \in Seq(RespEvent) /\ Len(es) \in Nat
      BY VRTyped, RViewOf
  <1>4. /\ fs \in Seq(RespEvent) /\ Len(fs) = n /\ fs[n] = e
             /\ \A i \in 1..Len(es) : fs[i] = es[i]
        /\ RCalls(fs) = IF e.type = "item_added" /\ e.kind = "function_call"
             THEN RCalls(es) \cup {n} ELSE RCalls(es)
    <2>1. /\ Append(es, e) \in Seq(RespEvent) /\ Len(Append(es, e)) = Len(es) + 1
          /\ Append(es, e)[Len(es) + 1] = e /\ \A i \in 1..Len(es) : Append(es, e)[i] = es[i]
          /\ RCalls(Append(es, e)) = IF e.type = "item_added" /\ e.kind = "function_call"
                                       THEN RCalls(es) \cup {Len(es) + 1} ELSE RCalls(es)
      BY <1>3, RAppend
    <2> QED BY <1>1, <1>2, <2>1, Zenon
  <1>5. RespMay(ix, es, e)
      BY RMayView
  <1>6. PICK i \in ROpen(es) : es[i].kind = "function_call"
          /\ e = RespEv("args_delta", "args", es[i].index, 0)
    <2>1. \A t, k, x, m : e = RespEv(t, k, x, m) => t = "args_delta"
      BY DEF RespEv
    <2>2. \E i \in ROpen(es) : es[i].kind = "function_call"
            /\ e = RespEv("args_delta", "args", es[i].index, 0)
      BY <1>5, <2>1 DEF RespMay
    <2> QED BY <2>2
  <1>7. i \in 1..Len(es) /\ es[i].type = "item_added" /\ i \in RAdded(es)
      BY <1>6 DEF ROpen, RAdded
  <1>8. announcedIn(fs) = RCalls(es)
      BY <1>4, RAnnounced
  <1>9. \A j \in announcedIn(fs) : j <= i
      BY <1>6, <1>8 DEF RCalls, RShape
  <1>10. i \in 1..n /\ n \in Nat /\ n > 0 /\ fs[i] = es[i] /\ fs[i].index = fs[n].index
    <2>1. e.index = es[i].index
      BY <1>6 DEF RespEv
    <2> QED BY <1>2, <1>3, <1>4, <1>7, <2>1
  <1>11. Announces(fs[i])
      BY <1>6, <1>7, <1>10 DEF Announces
  <1>12. callOf(fs, n) = Cardinality(announcedIn(fs))
      BY <1>4, <1>9, <1>10, <1>11, CallOfLast
  <1>13. RView(es).calls = Cardinality(RCalls(es))
      BY DEF RView
  <1> QED BY <1>1, <1>2, <1>8, <1>12, <1>13

\* What one more Responses event says.
LEMMA RSaid ==
    ASSUME NEW es, RShape(es), NEW ix \in SUBSET Nat, NEW e, VRMay(ix, RView(es), e)
    PROVE  contentOf(Append(es, e), Kinds) = contentOf(es, Kinds) \o RPiece(RView(es), e)
  <1>1. e \in RespEvent /\ es \in Seq(RespEvent) /\ Len(es) \in Nat
      BY VRTyped, RViewOf
  <1>2. contentOf(Append(es, e), Kinds) = contentOf(es, Kinds)
          \o pieceOf(Append(es, e), Kinds, Len(es) + 1)
      BY <1>1, Kinds \in SUBSET Kinds, ContentAppend, Zenon
  <1>3. Append(es, e)[Len(es) + 1] = e
      BY <1>1
  <1>4. e.type = "args_delta" => callOf(Append(es, e), Len(es) + 1) = RView(es).calls
      BY RCallOf
  <1>5. PICK fs : fs = Append(es, e)
      OBVIOUS
  <1>6. PICK n : n = Len(es) + 1
      OBVIOUS
  <1>7. PICK u : u = RView(es)
      OBVIOUS
  <1>8. fs[n] = e /\ (e.type = "args_delta" => callOf(fs, n) = u.calls)
      BY <1>3, <1>4, <1>5, <1>6, <1>7
  <1>9. e.type \in RespTypes
      BY <1>1 DEF RespEvent
  <1>10. kindOf(e) = IF e.type = "text_delta" THEN "text" ELSE IF e.type = "reasoning_delta"
           THEN "thinking"
                     ELSE IF e.type = "args_delta" THEN "tool_use" ELSE "none"
    <2>1. CASE e.type = "text_delta"
      BY <2>1 DEF kindOf
    <2>2. CASE e.type = "reasoning_delta"
      BY <2>2 DEF kindOf
    <2>3. CASE e.type = "args_delta"
      BY <2>3 DEF kindOf
    <2>4. CASE e.type \notin {"text_delta", "reasoning_delta", "args_delta"}
      BY <1>9, <2>4 DEF kindOf, RespTypes
    <2> QED BY <2>1, <2>2, <2>3, <2>4
  <1>11. pieceOf(fs, Kinds, n) = RPiece(u, e)
    <2>1. pieceOf(fs, Kinds, n) = IF kindOf(e) \notin Kinds THEN << >>
                                  ELSE << <<kindOf(e), IF kindOf(e) = "tool_use"
                                            THEN callOf(fs, n) ELSE 0>> >>
      BY <1>8 DEF pieceOf
    <2> QED BY <1>8, <1>10, <2>1 DEF RPiece, Kinds
  <1> QED BY <1>2, <1>5, <1>6, <1>7, <1>11

\* The empty stream says nothing.
LEMMA RSaysNothing == contentOf(<< >>, Kinds) = << >>
  BY DEF contentOf, FlattenSeq

Closers == {"part_done", "args_done", "reasoning_done"}

\* The event that ends a part leaves no block.
LEMMA BlockOver ==
    ASSUME NEW u, VRType(u), NEW e, VRMay(UpIndexes, u, e), e.type \in Closers
    PROVE  BlockKind(VRAfter(u, e)) = "none"
  <1>1. PICK w : w = VRAfter(u, e)
      OBVIOUS
  <1>2. /\ w.kind = (IF e.type = "item_added" THEN e.kind ELSE IF e.type = "item_done" THEN "none" ELSE u.kind)
        /\ w.part = USeen(u, e, u.part, "part_added")
             /\ w.parted = USeen(u, e, u.parted, "part_done")
        /\ w.called = USeen(u, e, u.called, "args_done")
        /\ w.thinking = USeen(u, e, u.thinking, "reasoning_delta")
             /\ w.thought = USeen(u, e, u.thought, "reasoning_done")
      BY <1>1, UFields
  <1>3. CASE e.type = "part_done"
    <2>1. u.texted
      BY <1>3 DEF VRMay, RespEv
    <2>2. u.kind = "message" /\ ~u.thinking
      BY <2>1 DEF VRType
    <2>3. w.parted /\ ~w.thinking /\ w.kind = "message"
      BY <1>2, <1>3, <2>2 DEF USeen
    <2> QED BY <1>1, <2>3 DEF BlockKind
  <1>4. CASE e.type = "args_done"
    <2>1. u.kind = "function_call"
      BY <1>4 DEF VRMay, RespEv
    <2>2. ~u.part /\ ~u.thinking
      BY <2>1 DEF VRType
    <2>3. w.called /\ ~w.thinking /\ ~w.part
      BY <1>2, <1>4, <2>1, <2>2 DEF USeen
    <2> QED BY <1>1, <2>3 DEF BlockKind
  <1>5. CASE e.type = "reasoning_done"
    <2>1. u.kind = "reasoning"
      BY <1>5 DEF VRMay, RespEv
    <2>2. ~u.part
      BY <2>1 DEF VRType
    <2>3. w.thought /\ ~w.part /\ w.kind = "reasoning"
      BY <1>2, <1>5, <2>1, <2>2 DEF USeen
    <2> QED BY <1>1, <2>3 DEF BlockKind
  <1> QED BY <1>3, <1>4, <1>5 DEF Closers

\* What the blocks and the content a Claude client has been sent say of the
\* Responses upstream and the context.
FromItems(c, id, up, es, v) ==
    /\ c \in RCtx /\ v.said = contentOf(es, Kinds)
    /\ up # "over" =>
          /\ RLinked(c, id, v, RView(es))
          /\ es # << >> /\ es[Len(es)].type \in Closers => v.kind = "none"
    /\ up = "over" => v.kind = "none" /\ (v.started => v.stopped)

ItemsInv ==
    conv.name = "cc_openai2" =>
        \E v : Sees(delivered, wire, v) /\ FromItems(ctx, ids, upstream, sent, v)

\* The invariant of openai_responses_stream_to_claude at the start of a
\* stream.
LEMMA ItemsInit == Init => ItemsInv
  <1> SUFFICES ASSUME Init, conv.name = "cc_openai2" PROVE ItemsInv
      BY DEF ItemsInv
  <1>1. conv \in Converters /\ sent = << >> /\ wire = << >> /\ delivered = << >>
          /\ ctx = NewContext(conv) /\ upstream = "open"
      BY Zenon DEF Init
  <1>2. ctx = RespToClaude!NewContext
      BY <1>1 DEF NewContext
  <1>3. ctx \in RCtx
      BY <1>2, EmptyMap DEF RespToClaude!NewContext, RCtx
  <1>4. PICK v : v
          = [started |-> FALSE, stopped |-> FALSE, reason |-> FALSE, calls |-> 0,
             blocks |-> 0, said |-> << >>, kind |-> "none"]
      OBVIOUS
  <1>5. Sees(<< >>, << >>, v)
    <2>1. << >> \in Seq(ClaudeEvent) /\ << >> \o << >> = << >>
      OBVIOUS
    <2>2. CValid(<< >>) /\ CView(<< >>) = v
      BY <1>4, CValidEmpty
    <2> QED BY <2>1, <2>2 DEF Sees
  <1>6. PICK u : u = RView(<< >>)
      OBVIOUS
  <1>7. u = VRNew
      BY <1>6, RValidEmpty
  <1>8. BlockKind(u) = "none" /\ u.created = FALSE /\ u.ended = FALSE /\ u.calls = 0
      BY <1>7 DEF BlockKind, VRNew
  <1>9. DOMAIN ctx.index_by_key = {} /\ ctx.message_start_sent = FALSE
          /\ ctx.finish_reason_sent = FALSE
        /\ ctx.next_content_index = 0 /\ ctx.open_indices = {}
             /\ ctx.fallback_open_index = None
      BY <1>2, EmptyMap DEF RespToClaude!NewContext
  <1>10. v.started = FALSE /\ v.stopped = FALSE /\ v.blocks = 0 /\ v.kind = "none"
           /\ v.calls = 0 /\ v.said = << >>
      BY <1>4
  <1>11. RLinked(ctx, ids, v, u)
      BY <1>8, <1>9, <1>10 DEF RLinked
  <1>12. FromItems(ctx, ids, "open", << >>, v)
      BY <1>3, <1>6, <1>10, <1>11, RSaysNothing DEF FromItems
  <1> QED BY <1>1, <1>5, <1>12 DEF ItemsInv

\* openai_responses_stream_to_claude keeps its invariant.
LEMMA ItemsConvert ==
    ASSUME SentInv, ItemsInv, conv.name = "cc_openai2", ConvertEvent
    PROVE  ItemsInv'
  <1>1. /\ wire = << >> /\ conv' = conv /\ ids' = ids /\ delivered' = delivered
        /\ ctx' = convert(conv.name, sent'[Len(sent')]).ctx
             /\ wire' = convert(conv.name, sent'[Len(sent')]).out
        /\ upstream \in {"open", "finished"}
      BY Zenon DEF ConvertEvent, apply
  <1>2. conv.from = "responses" /\ conv.from # "claude" /\ conv.from # "chat"
      BY ConverterIs DEF SentInv
  <1>3. RValid(UpIndexes, sent) /\ VRType(RView(sent)) /\ ids \in RespToClaude!IdStyle
      BY <1>2 DEF SentInv
  <1>4. SendsResponsesEvent
      BY <1>2 DEF ConvertEvent
  <1>5. PICK e \in RespEvent :
              /\ VRMay(UpIndexes, RView(sent), e) /\ sent' = Append(sent, e)
                   /\ sent'[Len(sent')] = e
              /\ RView(sent') = VRAfter(RView(sent), e)
              /\ e.type = "item_done"
                   => sent[Len(sent)].type \in {"part_done", "args_done", "reasoning_done"}
              /\ upstream' = upstream
      BY <1>3, <1>4, RespStep
  <1>6. PICK v : Sees(delivered, << >>, v) /\ FromItems(ctx, ids, upstream, sent, v)
      BY <1>1 DEF ItemsInv
  <1>7. PICK u : u = RView(sent)
      OBVIOUS
  <1>8. PICK t : t = VRAfter(u, e)
      OBVIOUS
  <1>9. ctx \in RCtx /\ v.said = contentOf(sent, Kinds) /\ RLinked(ctx, ids, v, u)
        /\ (sent # << >> /\ sent[Len(sent)].type \in Closers => v.kind = "none")
      BY <1>1, <1>6, <1>7 DEF FromItems
  <1>10. VRType(u) /\ VRMay(UpIndexes, u, e)
      BY <1>3, <1>5, <1>7
  <1>11. e.type = "item_done" => v.kind = "none"
    <2>1. e.type = "item_done" => sent # << >>
      <3>1. e.type = "item_done" => u.texted \/ u.called \/ u.thought
        BY <1>10 DEF VRMay, RespEv
      <3>2. sent = << >> => u = VRNew
        BY <1>7, RValidEmpty
      <3>3. ~VRNew.texted /\ ~VRNew.called /\ ~VRNew.thought
        BY DEF VRNew
      <3> QED BY <3>1, <3>2, <3>3
    <2> QED BY <1>5, <1>9, <2>1 DEF Closers
  <1>12. PICK s : s = RespToClaude!openai_responses_stream_to_claude(ctx, ids, e)
      OBVIOUS
  <1>13. ctx' = s.ctx /\ wire' = s.out
      BY <1>1, <1>5, <1>12 DEF convert
  <1>14. RConverted(delivered, s, ids, v, u, e)
      BY <1>3, <1>6, <1>9, <1>10, <1>11, <1>12, RConverts
  <1>15. s \in RResult
      BY <1>14 DEF RConverted
  <1>16. PICK w : Sees(delivered, s.out, w) /\ RLinked(s.ctx, ids, w, t)
           /\ w.said = v.said \o RPiece(u, e)
      BY <1>8, <1>14, Zenon DEF RConverted
  <1>17. contentOf(sent', Kinds) = contentOf(sent, Kinds) \o RPiece(u, e)
    <2>1. RShape(sent) /\ UpIndexes \in SUBSET Nat
      BY <1>3 DEF RValid, UpIndexes
    <2>2. contentOf(Append(sent, e), Kinds) = contentOf(sent, Kinds) \o RPiece(RView(sent), e)
      BY <1>5, <2>1, RSaid
    <2> QED BY <1>5, <1>7, <2>2
  <1>18. s.ctx \in RCtx
      BY <1>15 DEF RResult
  <1>19. e.type \in Closers => w.kind = "none"
    <2>1. w.kind = BlockKind(t)
      BY <1>16 DEF RLinked
    <2> QED BY <1>8, <1>10, <2>1, BlockOver
  <1>20. RView(sent') = t /\ upstream' # "over" /\ w.said = contentOf(sent', Kinds)
      BY <1>1, <1>5, <1>7, <1>8, <1>9, <1>16, <1>17
  <1>21. FromItems(s.ctx, ids, upstream', sent', w)
      BY <1>5, <1>16, <1>18, <1>19, <1>20 DEF FromItems
  <1>22. Sees(delivered', wire', w) /\ FromItems(ctx', ids', upstream', sent', w)
      BY <1>1, <1>13, <1>16, <1>21
  <1> QED BY <1>22 DEF ItemsInv

\* Every step keeps the invariant of openai_responses_stream_to_claude.
LEMMA ItemsInvNext == SentInv /\ ItemsInv /\ [Next]_vars => ItemsInv'
  <1> SUFFICES ASSUME SentInv, ItemsInv, [Next]_vars PROVE ItemsInv'
      OBVIOUS
  <1>0. conv' = conv /\ ids' = ids
      BY Zenon DEF Next, vars, ConvertEvent, ConvertDone, EndStream, Deliver
  <1>1. CASE conv.name # "cc_openai2"
      BY <1>0, <1>1 DEF ItemsInv
  <1>2. CASE conv.name = "cc_openai2"
    <2>0. conv.from = "responses" /\ conv.from # "chat" /\ style = "conforming"
            /\ style # "any"
          /\ VRType(RView(sent))
      BY <1>2, ConverterIs DEF SentInv
    <2>1. CASE ConvertEvent
      BY <1>2, <2>1, ItemsConvert
    <2>2. CASE ConvertDone
      BY <2>0, <2>2 DEF ConvertDone
    <2>3. CASE EndStream
      <3>1. wire = << >> /\ ctx' = finalize(conv.name).ctx /\ wire' = finalize(conv.name).out
              /\ sent' = sent /\ delivered' = delivered
            /\ upstream' = "over" /\ upstream # "over"
        BY <2>3, Zenon DEF EndStream, apply
      <3>2. PICK s : s = RespToClaude!finalize_openai_responses_stream_to_claude(ctx)
        OBVIOUS
      <3>3. finalize(conv.name) = s
        BY <1>2, <3>2 DEF finalize
      <3>4. PICK v : Sees(delivered, << >>, v) /\ FromItems(ctx, ids, upstream, sent, v)
        BY <1>2, <3>1 DEF ItemsInv
      <3>5. ctx \in RCtx /\ v.said = contentOf(sent, Kinds)
              /\ RLinked(ctx, ids, v, RView(sent))
        BY <3>1, <3>4 DEF FromItems
      <3>6. Over(delivered, v, s)
        BY <2>0, <3>2, <3>4, <3>5, RFinalizes
      <3>7. PICK w : Sees(delivered, s.out, w) /\ w.kind = "none" /\ (w.started => w.stopped)
              /\ w.said = v.said
        BY <3>6, Zenon DEF Over
      <3>8. s.ctx \in RCtx
        BY <3>6 DEF Over, RResult
      <3>9. FromItems(s.ctx, ids, "over", sent, w)
        BY <3>5, <3>7, <3>8 DEF FromItems
      <3>10. Sees(delivered', wire', w) /\ FromItems(ctx', ids', upstream', sent', w)
        BY <1>0, <3>1, <3>3, <3>7, <3>9
      <3> QED BY <3>10 DEF ItemsInv
    <2>4. CASE Deliver
      <3>1. /\ wire # << >> /\ Moves(delivered, wire, delivered', wire') /\ ctx' = ctx
                 /\ sent' = sent /\ upstream' = upstream
        BY <2>0, <2>4 DEF Deliver, Moves
      <3>2. PICK v : Sees(delivered, wire, v) /\ FromItems(ctx, ids, upstream, sent, v)
        BY <1>2 DEF ItemsInv
      <3>3. delivered \in Seq(ClaudeEvent) /\ wire \in Seq(ClaudeEvent)
              /\ CValid(delivered \o wire) /\ CView(delivered \o wire) = v
        BY <3>2 DEF Sees
      <3>4. delivered' \in Seq(ClaudeEvent) /\ wire' \in Seq(ClaudeEvent)
              /\ delivered' \o wire' = delivered \o wire
        BY <3>1, <3>3, Moved
      <3>5. Sees(delivered', wire', v)
        BY <3>3, <3>4 DEF Sees
      <3>6. FromItems(ctx', ids', upstream', sent', v)
        BY <1>0, <3>1, <3>2
      <3> QED BY <3>5, <3>6 DEF ItemsInv
    <2>5. CASE UNCHANGED vars
      BY <2>5 DEF vars, ItemsInv
    <2> QED BY <2>1, <2>2, <2>3, <2>4, <2>5, Zenon DEF Next
  <1> QED BY <1>1, <1>2

-----------------------------------------------------------------------------
(* The refinement of the Claude protocol.                                  *)

\* The context of openai_stream_to_claude agrees with what its client has been
\* sent.
LEMMA ToClaudeIsInvariant == Spec => []ToClaudeInv
  <1>1. Init => ToClaudeInv
      BY ToClaudeInit
  <1>2. SentInv /\ ChunksInv /\ ToClaudeInv /\ [Next]_vars => ToClaudeInv'
      BY ToClaudeInvNext
  <1> QED BY <1>1, <1>2, SentIsInvariant, ChunksIsInvariant, PTL DEF Spec

\* The context of openai_responses_stream_to_claude agrees with what its
\* client has been sent.
LEMMA ItemsIsInvariant == Spec => []ItemsInv
  <1>1. Init => ItemsInv
      BY ItemsInit
  <1>2. SentInv /\ ItemsInv /\ [Next]_vars => ItemsInv'
      BY ItemsInvNext
  <1> QED BY <1>1, <1>2, SentIsInvariant, PTL DEF Spec

\* Together: what a Claude client has been sent.
LEMMA ClaudeValid ==
    ASSUME SentInv, ToClaudeInv, ItemsInv, conv.client = "claude", style = "conforming"
    PROVE  delivered \in Seq(ClaudeEvent) /\ wire \in Seq(ClaudeEvent)
             /\ CValid(delivered \o wire)
  <1>1. CASE conv.name = "cc_openai"
    <2>1. PICK r : r = [ctx |-> ctx, out |-> wire]
      OBVIOUS
    <2>2. delivered \in Seq(ClaudeEvent) /\ Tracks(delivered, r) /\ r.out = wire
      BY <1>1, <2>1 DEF ToClaudeInv
    <2> QED BY <2>2 DEF Tracks, ToClaudeResult
  <1>2. CASE conv.name = "cc_openai2"
      BY <1>2 DEF ItemsInv, Sees
  <1> QED BY <1>1, <1>2, ConverterIs DEF SentInv

\* The cardinality of the instance of the client's protocol is the usual one.
LEMMA ClaudeDownCard == \A S : ClaudeDown!Cardinality(S) = Cardinality(S)
  BY DEF ClaudeDown!Cardinality, Cardinality

\* An event a Claude stream may send is a step of the Claude protocol.
LEMMA ClaudeDownStep ==
    ASSUME NEW e, ClaudeMay(received("claude", {"conforming"}), e),
           received("claude", {"conforming"})' = Append(received("claude", {"conforming"}), e)
    PROVE  ClaudeDown!Next
  <1> DEFINE log == received("claude", {"conforming"})
  <1> HIDE DEF log
  <1>1. /\ \A t : ClaudeDown!has(t) <=> CHas(log, t)
        /\ ClaudeDown!blocks = CBlocks(log)
        /\ ClaudeDown!openBlocks = COpen(log)
        /\ ClaudeDown!started <=> CHas(log, "message_start")
        /\ ClaudeDown!stopped <=> CHas(log, "message_stop")
      BY Zenon DEF ClaudeDown!has, CHas, ClaudeDown!blocks, CBlocks, ClaudeDown!openBlocks,
         COpen, ClaudeDown!isOpen, COpenAt,
             ClaudeDown!started, ClaudeDown!stopped, log
  <1>2. \A t, k, x : ClaudeDown!event(t, k, x) = ClaudeEv(t, k, x)
      BY DEF ClaudeDown!event, ClaudeEv
  <1>3. ClaudeDown!send(e)
      BY Zenon DEF ClaudeDown!send
  <1>4. ClaudeMay(log, e) /\ log = received("claude", {"conforming"})
      BY Zenon DEF log
  <1>5. CASE log = << >> /\ e = ClaudeEv("message_start", "none", 0)
      BY <1>2, <1>3, <1>4, <1>5, Zenon DEF ClaudeDown!Next, ClaudeDown!MessageStart
  <1>6. CASE /\ CHas(log, "message_start") /\ ~CHas(log, "message_stop") /\ COpen(log) = {}
             /\ \E k \in Kinds : e
                  = ClaudeEv("content_block_start", k, Cardinality(CBlocks(log)))
    <2>1. PICK k \in {"text", "thinking", "tool_use"} : e
            = ClaudeEv("content_block_start", k, Cardinality(CBlocks(log)))
      BY <1>6, Zenon DEF Kinds
    <2>2. e = ClaudeDown!event("content_block_start", k,
                               ClaudeDown!Cardinality(ClaudeDown!blocks))
      BY <1>1, <1>2, <2>1, ClaudeDownCard, Zenon
    <2>3. ClaudeDown!BlockStart
      BY <1>1, <1>3, <1>6, <2>1, <2>2, Zenon DEF ClaudeDown!BlockStart
    <2> QED BY <2>3, Zenon DEF ClaudeDown!Next
  <1>7. CASE \E i \in COpen(log) : e
          = ClaudeEv("content_block_delta", log[i].kind, log[i].index)
      BY <1>1, <1>2, <1>3, <1>4, <1>7, Zenon DEF ClaudeDown!Next, ClaudeDown!BlockDelta
  <1>8. CASE \E i \in COpen(log) : e = ClaudeEv("content_block_stop", "none", log[i].index)
      BY <1>1, <1>2, <1>3, <1>4, <1>8, Zenon DEF ClaudeDown!Next, ClaudeDown!BlockStop
  <1>9. CASE /\ CHas(log, "message_start") /\ ~CHas(log, "message_stop")
             /\ \E k \in {"stop", "usage"} : e = ClaudeEv("message_delta", k, 0)
      BY <1>1, <1>2, <1>3, <1>9, Zenon DEF ClaudeDown!Next, ClaudeDown!MessageDelta
  <1>10. CASE CHas(log, "message_start") /\ COpen(log) = {}
           /\ e = ClaudeEv("message_stop", "none", 0)
      BY <1>1, <1>2, <1>3, <1>10, Zenon DEF ClaudeDown!Next, ClaudeDown!MessageStop
  <1> QED BY <1>4, <1>5, <1>6, <1>7, <1>8, <1>9, <1>10, Zenon DEF ClaudeMay

\* Every step delivers a step of the Claude protocol, or nothing.
LEMMA ClaudeDelivers ==
    ASSUME SentInv, ToClaudeInv, ItemsInv, [Next]_vars
    PROVE  [ClaudeDown!Next]_(received("claude", {"conforming"}))
  <1> DEFINE log == received("claude", {"conforming"})
  <1>0. conv' = conv /\ style' = style
      BY Zenon DEF Next, vars, ConvertEvent, ConvertDone, EndStream, Deliver
  <1>1. CASE ~(conv.client = "claude" /\ style = "conforming")
    <2>1. log = << >>
      BY <1>1 DEF received
    <2>2. log' = << >>
      BY <1>0, <1>1 DEF received
    <2> QED BY <2>1, <2>2
  <1>2. CASE conv.client = "claude" /\ style = "conforming"
    <2>1. log = delivered
      BY <1>2 DEF received
    <2>2. log' = delivered'
      BY <1>0, <1>2 DEF received
    <2>3. CASE delivered' = delivered
      BY <2>1, <2>2, <2>3
    <2>4. CASE Deliver
      <3>1. wire # << >> /\ Moves(delivered, wire, delivered', wire')
        BY <1>2, <2>4 DEF Deliver, Moves
      <3>2. delivered \in Seq(ClaudeEvent) /\ wire \in Seq(ClaudeEvent)
              /\ CValid(delivered \o wire)
        BY <1>2, ClaudeValid
      <3>3. delivered' = Append(delivered, wire[1])
        BY <3>1, <3>2, Moved
      <3>4. ClaudeMay(delivered, wire[1])
        BY <3>1, <3>2, CDeliver
      <3> DEFINE e == wire[1]
      <3> HIDE DEF e
      <3>5. ClaudeMay(log, e) /\ log' = Append(log, e)
        BY <2>1, <2>2, <3>3, <3>4 DEF e
      <3> QED BY <3>5, ClaudeDownStep
    <2>5. CASE ConvertEvent
      BY <2>3, <2>5, Zenon DEF ConvertEvent
    <2>6. CASE ConvertDone
      BY <2>3, <2>6, Zenon DEF ConvertDone
    <2>7. CASE EndStream
      BY <2>3, <2>7, Zenon DEF EndStream
    <2>8. CASE UNCHANGED vars
      BY <2>3, <2>8 DEF vars
    <2> QED BY <2>4, <2>5, <2>6, <2>7, <2>8, Zenon DEF Next
  <1> QED BY <1>1, <1>2

\* What openai_stream_to_claude and openai_responses_stream_to_claude send to
\* a Claude client, of an upstream that conforms and is cut off anywhere, is a
\* stream of the Claude protocol, however the upstream identifies its items.
THEOREM ClaudeRefinement == Spec => ImplementsClaudeStream
  <1>1. Init => ClaudeDown!Init
    <2> SUFFICES ASSUME Init PROVE ClaudeDown!Init
      OBVIOUS
    <2>1. delivered = << >>
      BY Zenon DEF Init
    <2> QED BY <2>1 DEF ClaudeDown!Init, received
  <1>2. SentInv /\ ToClaudeInv /\ ItemsInv /\ [Next]_vars
          => [ClaudeDown!Next]_(received("claude", {"conforming"}))
      BY ClaudeDelivers
  <1> QED BY <1>1, <1>2, SentIsInvariant, ToClaudeIsInvariant, ItemsIsInvariant, PTL DEF Spec,
        ImplementsClaudeStream, ClaudeDown!Spec

\* What was sent is what the upstream said.
ClaudeSaid ==
    conv.client = "claude" /\ style = "conforming" =>
        contentOf(delivered \o wire, Kinds) = IF conv.from = "chat"
            THEN contentOfChunks(sent, Kinds) ELSE contentOf(sent, Kinds)

\* A Claude client has been told what the upstream sent.
LEMMA ClaudeSaidHolds == SentInv /\ ToClaudeInv /\ ItemsInv => ClaudeSaid
  <1> SUFFICES ASSUME SentInv, ToClaudeInv, ItemsInv, conv.client = "claude",
                      style = "conforming"
               PROVE  contentOf(delivered \o wire, Kinds) = IF conv.from = "chat"
                        THEN contentOfChunks(sent, Kinds) ELSE contentOf(sent, Kinds)
      BY DEF ClaudeSaid
  <1>1. CView(delivered \o wire).said = contentOf(delivered \o wire, Kinds)
      BY DEF CView
  <1>2. CASE conv.name = "cc_openai"
    <2>1. PICK r : r = [ctx |-> ctx, out |-> wire]
      OBVIOUS
    <2>2. FromChat(ctx, View(delivered, r), upstream, sent) /\ r.out = wire
      BY <1>2, <2>1 DEF ToClaudeInv
    <2>3. View(delivered, r) = CView(delivered \o wire)
      BY <2>2 DEF View
    <2>4. View(delivered, r).said = contentOfChunks(sent, Kinds)
      BY <2>2 DEF FromChat
    <2>5. conv.from = "chat"
      BY <1>2, ConverterIs DEF SentInv
    <2> QED BY <1>1, <2>3, <2>4, <2>5
  <1>3. CASE conv.name = "cc_openai2"
    <2>1. PICK v : Sees(delivered, wire, v) /\ FromItems(ctx, ids, upstream, sent, v)
      BY <1>3 DEF ItemsInv
    <2>2. v = CView(delivered \o wire) /\ v.said = contentOf(sent, Kinds)
      BY <2>1 DEF Sees, FromItems
    <2>3. conv.from # "chat"
      BY <1>3, ConverterIs DEF SentInv
    <2> QED BY <1>1, <2>2, <2>3
  <1> QED BY <1>2, <1>3, ConverterIs DEF SentInv

-----------------------------------------------------------------------------
(* Whatever a chat upstream sends: a Claude stream is closed at its end.   *)

\* The result r with e added and the context b.
Adds(r, s, e, b) == s \in ToClaudeResult /\ s.ctx = b /\ s.out = Append(r.out, e)

\* emit adds an event and keeps the context.
LEMMA AddsPlain ==
    ASSUME NEW r \in ToClaudeResult, NEW e \in ClaudeEvent
    PROVE  Adds(r, ToClaude!emit(r, e), e, r.ctx)
  <1>1. ToClaude!emit(r, e) = [ctx |-> r.ctx, out |-> Append(r.out, e)]
      BY EmitIs
  <1>2. r.ctx \in ChatCtx /\ Append(r.out, e) \in Seq(ClaudeEvent)
      BY DEF ToClaudeResult
  <1> QED BY <1>1, <1>2 DEF Adds, ToClaudeResult

\* The two notations of a Claude event.
LEMMA EventIs == \A t, k, x : ToClaude!event(t, k, x) = ClaudeEv(t, k, x)
  BY DEF ToClaude!event, ClaudeEv

\* The events openai_stream_to_claude sends are Claude events.
LEMMA EventTyped ==
    \A x \in Nat :
        /\ ClaudeEv("content_block_stop", "none", x) \in ClaudeEvent
        /\ \A k \in Kinds : ClaudeEv("content_block_start", k, x) \in ClaudeEvent
             /\ ClaudeEv("content_block_delta", k, x) \in ClaudeEvent
        /\ ClaudeEv("message_start", "none", 0) \in ClaudeEvent
             /\ ClaudeEv("message_stop", "none", 0) \in ClaudeEvent
        /\ ClaudeEv("message_delta", "stop", 0) \in ClaudeEvent
             /\ ClaudeEv("message_delta", "usage", 0) \in ClaudeEvent
  BY DEF ClaudeEv, ClaudeEvent, ClaudeTypes, ClaudeKinds, Kinds

\* The indices of a context are naturals.
LEMMA CtxTyped ==
    ASSUME NEW r \in ToClaudeResult
    PROVE  /\ r.ctx \in ChatCtx /\ r.ctx.content_index \in Nat /\ r.ctx.thinking_index \in Nat
                /\ r.ctx.tool_index \in Nat
           /\ r.ctx.content_index + 1 \in Nat /\ r.ctx.thinking_index + 1 \in Nat
  BY DEF ToClaudeResult, ChatCtx

\* The contexts after each step.
TextClosed(c) == [c EXCEPT !.content_block_started = FALSE]

TextLeft(c) == [TextClosed(c) EXCEPT !.content_index = c.content_index + 1]

ToolClosed(c) == [c EXCEPT !.tool_block_started = FALSE]

ToolLeft(c) == [ToolClosed(c) EXCEPT !.content_index = c.content_index + 1]

ThoughtClosed(c) == [c EXCEPT !.thinking_block_started = FALSE,
                     !.content_index = c.thinking_index + 1]

ThoughtOpened(c) == [c EXCEPT !.thinking_block_started = TRUE,
                     !.thinking_index = c.content_index]

TextOpened(c) == [c EXCEPT !.content_block_started = TRUE]

ToolOpened(c) == [c EXCEPT !.tool_block_started = TRUE, !.tool_index = c.content_index]

MessageOpened(c) == [c EXCEPT !.message_start_sent = TRUE]

ReasonGiven(c) == [c EXCEPT !.finish_reason_sent = TRUE]

StopOf(x) == ClaudeEv("content_block_stop", "none", x)

StartOf(k, x) == ClaudeEv("content_block_start", k, x)

\* Both ways of closing the text block add one stop.
LEMMA AddsTextStop ==
    ASSUME NEW r \in ToClaudeResult, r.ctx.content_block_started
    PROVE  /\ Adds(r, ToClaude!close_text_block(r), StopOf(r.ctx.content_index),
                   TextClosed(r.ctx))
           /\ Adds(r, ToClaude!text_done(r), StopOf(r.ctx.content_index), TextLeft(r.ctx))
  <1>1. PICK e : e = StopOf(r.ctx.content_index)
      OBVIOUS
  <1>2. e \in ClaudeEvent /\ e
          = ToClaude!event("content_block_stop", "none", r.ctx.content_index)
      BY <1>1, CtxTyped, EventTyped, EventIs DEF StopOf
  <1>3. PICK m : m = ToClaude!emit(r, e)
      OBVIOUS
  <1>4. m \in ToClaudeResult /\ m.ctx = r.ctx /\ m.out = Append(r.out, e)
      BY <1>2, <1>3, AddsPlain DEF Adds
  <1>5. PICK k : k = ToClaude!close_text_block(r)
      OBVIOUS
  <1>6. k = [m EXCEPT !.ctx.content_block_started = FALSE]
      BY <1>2, <1>3, <1>5 DEF ToClaude!close_text_block
  <1>7. k \in ToClaudeResult /\ k.out = m.out /\ k.ctx = TextClosed(r.ctx)
      BY <1>4, <1>6, NestCloseText DEF TextClosed
  <1>8. k.ctx.content_index = r.ctx.content_index
      BY <1>7, CtxTyped DEF ChatCtx, TextClosed
  <1>9. PICK x : x = r.ctx.content_index + 1
      OBVIOUS
  <1>10. x \in Nat
      BY <1>9, CtxTyped
  <1>11. PICK s : s = ToClaude!text_done(r)
      OBVIOUS
  <1>12. s = [k EXCEPT !.ctx.content_index = x]
      BY <1>5, <1>8, <1>9, <1>11 DEF ToClaude!text_done
  <1>13. s \in ToClaudeResult /\ s.out = k.out /\ s.ctx = [k.ctx EXCEPT !.content_index = x]
      BY <1>7, <1>10, <1>12, NestNext
  <1>14. s.ctx = TextLeft(r.ctx)
      BY <1>7, <1>9, <1>13 DEF TextLeft
  <1> QED BY <1>1, <1>4, <1>5, <1>7, <1>11, <1>13, <1>14 DEF Adds

\* Both ways of closing the tool block add one stop.
LEMMA AddsToolStop ==
    ASSUME NEW r \in ToClaudeResult, r.ctx.tool_block_started
    PROVE  /\ Adds(r, ToClaude!close_tool_block(r), StopOf(r.ctx.tool_index),
                   ToolClosed(r.ctx))
           /\ Adds(r, ToClaude!tool_done(r), StopOf(r.ctx.tool_index), ToolLeft(r.ctx))
  <1>1. PICK e : e = StopOf(r.ctx.tool_index)
      OBVIOUS
  <1>2. e \in ClaudeEvent /\ e
          = ToClaude!event("content_block_stop", "none", r.ctx.tool_index)
      BY <1>1, CtxTyped, EventTyped, EventIs DEF StopOf
  <1>3. PICK m : m = ToClaude!emit(r, e)
      OBVIOUS
  <1>4. m \in ToClaudeResult /\ m.ctx = r.ctx /\ m.out = Append(r.out, e)
      BY <1>2, <1>3, AddsPlain DEF Adds
  <1>5. PICK k : k = ToClaude!close_tool_block(r)
      OBVIOUS
  <1>6. k = [m EXCEPT !.ctx.tool_block_started = FALSE]
      BY <1>2, <1>3, <1>5 DEF ToClaude!close_tool_block
  <1>7. k \in ToClaudeResult /\ k.out = m.out /\ k.ctx = ToolClosed(r.ctx)
      BY <1>4, <1>6, NestCloseTool DEF ToolClosed
  <1>8. k.ctx.content_index = r.ctx.content_index
      BY <1>7, CtxTyped DEF ChatCtx, ToolClosed
  <1>9. PICK x : x = r.ctx.content_index + 1
      OBVIOUS
  <1>10. x \in Nat
      BY <1>9, CtxTyped
  <1>11. PICK s : s = ToClaude!tool_done(r)
      OBVIOUS
  <1>12. s = [k EXCEPT !.ctx.content_index = x]
      BY <1>5, <1>8, <1>9, <1>11 DEF ToClaude!tool_done
  <1>13. s \in ToClaudeResult /\ s.out = k.out /\ s.ctx = [k.ctx EXCEPT !.content_index = x]
      BY <1>7, <1>10, <1>12, NestNext
  <1>14. s.ctx = ToolLeft(r.ctx)
      BY <1>7, <1>9, <1>13 DEF ToolLeft
  <1> QED BY <1>1, <1>4, <1>5, <1>7, <1>11, <1>13, <1>14 DEF Adds

\* close_thinking_block adds one stop.
LEMMA AddsThoughtStop ==
    ASSUME NEW r \in ToClaudeResult, r.ctx.thinking_block_started
    PROVE  Adds(r, ToClaude!close_thinking_block(r), StopOf(r.ctx.thinking_index),
                ThoughtClosed(r.ctx))
  <1>1. PICK e : e = StopOf(r.ctx.thinking_index)
      OBVIOUS
  <1>2. e \in ClaudeEvent /\ e
          = ToClaude!event("content_block_stop", "none", r.ctx.thinking_index)
      BY <1>1, CtxTyped, EventTyped, EventIs DEF StopOf
  <1>3. PICK m : m = ToClaude!emit(r, e)
      OBVIOUS
  <1>4. m \in ToClaudeResult /\ m.ctx = r.ctx /\ m.out = Append(r.out, e)
      BY <1>2, <1>3, AddsPlain DEF Adds
  <1>5. PICK k : k = ToClaude!close_thinking_block(r)
      OBVIOUS
  <1>6. PICK x : x = r.ctx.thinking_index + 1
      OBVIOUS
  <1>7. k = [m EXCEPT !.ctx.thinking_block_started = FALSE, !.ctx.content_index = x]
      BY <1>2, <1>3, <1>5, <1>6 DEF ToClaude!close_thinking_block
  <1>8. x \in Nat
      BY <1>6, CtxTyped
  <1>9. k \in ToClaudeResult /\ k.out = m.out
          /\ k.ctx = [m.ctx EXCEPT !.thinking_block_started = FALSE, !.content_index = x]
      BY <1>4, <1>7, <1>8, NestCloseThinking, Zenon
  <1>10. k.ctx = ThoughtClosed(r.ctx)
      BY <1>4, <1>6, <1>9 DEF ThoughtClosed
  <1> QED BY <1>1, <1>4, <1>5, <1>9, <1>10 DEF Adds

\* The starts of the three kinds of block add one event each.
LEMMA AddsStarts ==
    ASSUME NEW r \in ToClaudeResult
    PROVE  /\ Adds(r, [ToClaude!emit(r, ToClaude!event("content_block_start", "thinking", r.ctx.content_index))
                          EXCEPT !.ctx.thinking_block_started = TRUE,
                              !.ctx.thinking_index = r.ctx.content_index],
                   StartOf("thinking", r.ctx.content_index), ThoughtOpened(r.ctx))
           /\ Adds(r, [ToClaude!emit(r, ToClaude!event("content_block_start", "text", r.ctx.content_index))
                          EXCEPT !.ctx.content_block_started = TRUE],
                   StartOf("text", r.ctx.content_index), TextOpened(r.ctx))
           /\ Adds(r, ToClaude!open_tool(r), StartOf("tool_use", r.ctx.content_index),
                   ToolOpened(r.ctx))
  <1>1. PICK x : x = r.ctx.content_index
      OBVIOUS
  <1>2. x \in Nat
      BY <1>1, CtxTyped
  <1>3. ASSUME NEW k \in Kinds
        PROVE  /\ StartOf(k, x) \in ClaudeEvent
                    /\ ToClaude!event("content_block_start", k, x) = StartOf(k, x)
               /\ ToClaude!emit(r, StartOf(k, x)) \in ToClaudeResult
               /\ ToClaude!emit(r, StartOf(k, x)).ctx = r.ctx
                    /\ ToClaude!emit(r, StartOf(k, x)).out = Append(r.out, StartOf(k, x))
    <2>1. StartOf(k, x) \in ClaudeEvent
            /\ ToClaude!event("content_block_start", k, x) = StartOf(k, x)
      BY <1>2, EventTyped, EventIs DEF StartOf
    <2> QED BY <2>1, AddsPlain DEF Adds
  <1>4. "thinking" \in Kinds /\ "text" \in Kinds /\ "tool_use" \in Kinds
      BY DEF Kinds
  <1>5. PICK m1 : m1 = ToClaude!emit(r, StartOf("thinking", x))
      OBVIOUS
  <1>6. PICK m2 : m2 = ToClaude!emit(r, StartOf("text", x))
      OBVIOUS
  <1>7. PICK m3 : m3 = ToClaude!emit(r, StartOf("tool_use", x))
      OBVIOUS
  <1>8. /\ m1 \in ToClaudeResult /\ m1.ctx = r.ctx
             /\ m1.out = Append(r.out, StartOf("thinking", x))
        /\ ToClaude!event("content_block_start", "thinking", x) = StartOf("thinking", x)
      BY <1>3, <1>4, <1>5
  <1>9. /\ m2 \in ToClaudeResult /\ m2.ctx = r.ctx
             /\ m2.out = Append(r.out, StartOf("text", x))
        /\ ToClaude!event("content_block_start", "text", x) = StartOf("text", x)
      BY <1>3, <1>4, <1>6
  <1>10. /\ m3 \in ToClaudeResult /\ m3.ctx = r.ctx
              /\ m3.out = Append(r.out, StartOf("tool_use", x))
         /\ ToClaude!event("content_block_start", "tool_use", x) = StartOf("tool_use", x)
      BY <1>3, <1>4, <1>7
  <1>11. PICK k1 : k1
           = [m1 EXCEPT !.ctx.thinking_block_started = TRUE, !.ctx.thinking_index = x]
      OBVIOUS
  <1>12. k1 \in ToClaudeResult /\ k1.out = m1.out
           /\ k1.ctx = [m1.ctx EXCEPT !.thinking_block_started = TRUE, !.thinking_index = x]
      BY <1>2, <1>8, <1>11, NestOpenThinking, Zenon
  <1>13. PICK k2 : k2 = [m2 EXCEPT !.ctx.content_block_started = TRUE]
      OBVIOUS
  <1>14. k2 \in ToClaudeResult /\ k2.out = m2.out
           /\ k2.ctx = [m2.ctx EXCEPT !.content_block_started = TRUE]
      BY <1>9, <1>13, NestOpenText
  <1>15. PICK k3 : k3 = [m3 EXCEPT !.ctx.tool_block_started = TRUE, !.ctx.tool_index = x]
      OBVIOUS
  <1>16. k3 \in ToClaudeResult /\ k3.out = m3.out
           /\ k3.ctx = [m3.ctx EXCEPT !.tool_block_started = TRUE, !.tool_index = x]
      BY <1>2, <1>10, <1>15, NestOpenTool, Zenon
  <1>17. Adds(r, k1, StartOf("thinking", x), ThoughtOpened(r.ctx))
      BY <1>1, <1>8, <1>12 DEF Adds, ThoughtOpened
  <1>18. Adds(r, k2, StartOf("text", x), TextOpened(r.ctx))
      BY <1>9, <1>14 DEF Adds, TextOpened
  <1>19. Adds(r, k3, StartOf("tool_use", x), ToolOpened(r.ctx))
      BY <1>1, <1>10, <1>16 DEF Adds, ToolOpened
  <1>20. k1 = [ToClaude!emit(r, ToClaude!event("content_block_start", "thinking", r.ctx.content_index))
                 EXCEPT !.ctx.thinking_block_started = TRUE,
                     !.ctx.thinking_index = r.ctx.content_index]
      BY <1>1, <1>5, <1>8, <1>11, Zenon
  <1>21. k2 = [ToClaude!emit(r, ToClaude!event("content_block_start", "text", r.ctx.content_index)) EXCEPT !.ctx.content_block_started = TRUE]
      BY <1>1, <1>6, <1>9, <1>13, Zenon
  <1>22. k3 = ToClaude!open_tool(r)
      BY <1>1, <1>7, <1>10, <1>15, Zenon DEF ToClaude!open_tool
  <1> QED BY <1>1, <1>17, <1>18, <1>19, <1>20, <1>21, <1>22, Zenon

\* emit_message_start and stop_reason add one event each.
LEMMA AddsMarks ==
    ASSUME NEW r \in ToClaudeResult
    PROVE  /\ ~r.ctx.message_start_sent =>
                 Adds(r, ToClaude!emit_message_start(r), ClaudeEv("message_start", "none", 0),
                      MessageOpened(r.ctx))
           /\ Adds(r, ToClaude!stop_reason(r), ClaudeEv("message_delta", "stop", 0),
                   ReasonGiven(r.ctx))
  <1>1. PICK e1 : e1 = ClaudeEv("message_start", "none", 0)
      OBVIOUS
  <1>2. PICK e2 : e2 = ClaudeEv("message_delta", "stop", 0)
      OBVIOUS
  <1>3. /\ e1 \in ClaudeEvent /\ e1 = ToClaude!event("message_start", "none", 0)
        /\ e2 \in ClaudeEvent /\ e2 = ToClaude!event("message_delta", "stop", 0)
      BY <1>1, <1>2, 0 \in Nat, EventTyped, EventIs
  <1>4. PICK m1 : m1 = ToClaude!emit(r, e1)
      OBVIOUS
  <1>5. PICK m2 : m2 = ToClaude!emit(r, e2)
      OBVIOUS
  <1>6. m1 \in ToClaudeResult /\ m1.ctx = r.ctx /\ m1.out = Append(r.out, e1)
      BY <1>3, <1>4, AddsPlain DEF Adds
  <1>7. m2 \in ToClaudeResult /\ m2.ctx = r.ctx /\ m2.out = Append(r.out, e2)
      BY <1>3, <1>5, AddsPlain DEF Adds
  <1>8. PICK k1 : k1 = [m1 EXCEPT !.ctx.message_start_sent = TRUE]
      OBVIOUS
  <1>9. k1 \in ToClaudeResult /\ k1.out = m1.out
          /\ k1.ctx = [m1.ctx EXCEPT !.message_start_sent = TRUE]
      BY <1>6, <1>8, NestStart
  <1>10. PICK k2 : k2 = [m2 EXCEPT !.ctx.finish_reason_sent = TRUE]
      OBVIOUS
  <1>11. k2 \in ToClaudeResult /\ k2.out = m2.out
           /\ k2.ctx = [m2.ctx EXCEPT !.finish_reason_sent = TRUE]
      BY <1>7, <1>10, NestReason
  <1>12. ~r.ctx.message_start_sent => ToClaude!emit_message_start(r) = k1
      BY <1>3, <1>4, <1>8 DEF ToClaude!emit_message_start
  <1>13. ToClaude!stop_reason(r) = k2
      BY <1>3, <1>5, <1>10 DEF ToClaude!stop_reason
  <1>14. Adds(r, k1, e1, MessageOpened(r.ctx))
      BY <1>6, <1>9 DEF Adds, MessageOpened
  <1>15. Adds(r, k2, e2, ReasonGiven(r.ctx))
      BY <1>7, <1>11 DEF Adds, ReasonGiven
  <1> QED BY <1>1, <1>2, <1>12, <1>13, <1>14, <1>15

\* The blocks a context knows to be open, and how they exclude each other.
Held(c, x) ==
    \/ c.content_block_started /\ x = c.content_index
    \/ c.thinking_block_started /\ x = c.thinking_index
    \/ c.tool_block_started /\ x = c.tool_index

Apart(c) ==
    /\ ~(c.content_block_started /\ c.thinking_block_started)
    /\ c.content_block_started /\ c.tool_block_started => c.tool_index = c.content_index
    /\ c.content_block_started \/ c.thinking_block_started \/ c.tool_block_started
         => c.message_start_sent

\* Whatever the chat upstream sends, the context knows every open block.
Knows(c, es) ==
    /\ c \in ChatCtx /\ es \in Seq(ClaudeEvent) /\ Apart(c)
    /\ c.message_start_sent <=> CHas(es, "message_start")
    /\ es # << >> => c.message_start_sent
    /\ c.finish_reason_sent => CReason(es)
    /\ \A i \in COpen(es) : Held(c, es[i].index)

Follows(c, e, b) ==
    /\ b \in ChatCtx /\ Apart(b)
    /\ b.message_start_sent /\ (c.message_start_sent \/ e.type = "message_start")
    /\ b.finish_reason_sent => c.finish_reason_sent \/ e.kind = "stop"
    /\ \A x : Held(c, x) /\ ~(e.type = "content_block_stop" /\ x = e.index) => Held(b, x)
    /\ e.type = "content_block_start" => Held(b, e.index)

\* The context still knows the open blocks after one event more.
LEMMA KnowsMore ==
    ASSUME NEW c, NEW es, Knows(c, es), NEW e \in ClaudeEvent, NEW b, Follows(c, e, b)
    PROVE  Knows(b, Append(es, e))
  <1>1. PICK fs : fs = Append(es, e)
      OBVIOUS
  <1>2. PICK n : n = Len(es) + 1
      OBVIOUS
  <1>3. es \in Seq(ClaudeEvent) /\ Len(es) \in Nat
      BY DEF Knows
  <1>4. /\ fs \in Seq(ClaudeEvent) /\ fs[n] = e
        /\ \A i \in 1..Len(es) : fs[i] = es[i]
        /\ \A t : CHas(fs, t) <=> CHas(es, t) \/ e.type = t
        /\ CReason(fs) <=> CReason(es) \/ e.kind = "stop"
        /\ COpen(fs) = IF e.type = "content_block_start" THEN COpen(es) \cup {n}
                       ELSE {i \in COpen(es) : ~(e.type = "content_block_stop"
                           /\ e.index = es[i].index)}
    <2>1. /\ Append(es, e) \in Seq(ClaudeEvent) /\ Append(es, e)[Len(es) + 1] = e
          /\ \A i \in 1..Len(es) : Append(es, e)[i] = es[i]
          /\ \A t : CHas(Append(es, e), t) <=> CHas(es, t) \/ e.type = t
          /\ CReason(Append(es, e)) <=> CReason(es) \/ e.kind = "stop"
          /\ COpen(Append(es, e)) = IF e.type = "content_block_start"
               THEN COpen(es) \cup {Len(es) + 1}
                                    ELSE {i \in COpen(es) : ~(e.type = "content_block_stop"
                                        /\ e.index = es[i].index)}
      BY <1>3, CAppend
    <2> QED BY <1>1, <1>2, <2>1, Zenon
  <1>5. COpen(es) \subseteq 1..Len(es)
      BY DEF COpen, CBlocks
  <1>6. /\ b \in ChatCtx /\ Apart(b)
        /\ b.message_start_sent /\ (c.message_start_sent \/ e.type = "message_start")
        /\ b.finish_reason_sent => c.finish_reason_sent \/ e.kind = "stop"
        /\ \A x : Held(c, x) /\ ~(e.type = "content_block_stop" /\ x = e.index) => Held(b, x)
        /\ e.type = "content_block_start" => Held(b, e.index)
      BY Zenon DEF Follows
  <1>7. /\ c.message_start_sent <=> CHas(es, "message_start")
        /\ c.finish_reason_sent => CReason(es)
        /\ \A i \in COpen(es) : Held(c, es[i].index)
      BY Zenon DEF Knows
  <1>8. CHas(fs, "message_start") /\ (b.finish_reason_sent => CReason(fs))
      BY <1>4, <1>6, <1>7
  <1>9. ASSUME NEW i \in COpen(fs) PROVE Held(b, fs[i].index)
    <2>1. CASE i \in COpen(es) /\ ~(e.type = "content_block_stop" /\ e.index = es[i].index)
      <3>1. fs[i] = es[i]
        BY <1>4, <1>5, <2>1
      <3> QED BY <1>6, <1>7, <2>1, <3>1
    <2>2. CASE i = n /\ e.type = "content_block_start"
      BY <1>4, <1>6, <2>2
    <2>3. CASE e.type = "content_block_start"
      <3>1. i \in COpen(es) \/ i = n
        BY <1>4, <1>9, <2>3
      <3>2. ~(e.type = "content_block_stop")
        BY <2>3
      <3> QED BY <2>1, <2>2, <2>3, <3>1, <3>2
    <2>4. CASE e.type # "content_block_start"
      BY <1>4, <1>9, <2>1, <2>4
    <2> QED BY <2>3, <2>4
  <1>10. Knows(b, fs)
      BY <1>4, <1>6, <1>8, <1>9 DEF Knows
  <1> QED BY <1>1, <1>10

\* The same of a result; once the message has been started.
Sound(d, r) == d \in Seq(ClaudeEvent) /\ r \in ToClaudeResult /\ Knows(r.ctx, d \o r.out)

Going(d, r) == Sound(d, r) /\ r.ctx.message_start_sent

\* A result stays sound by an event its context follows.
LEMMA SoundAdds ==
    ASSUME NEW d, NEW r, Sound(d, r), NEW s, NEW e \in ClaudeEvent, NEW b, Adds(r, s, e, b),
           Follows(r.ctx, e, b)
    PROVE  Going(d, s)
  <1>1. d \in Seq(ClaudeEvent) /\ r \in ToClaudeResult /\ Knows(r.ctx, d \o r.out)
      BY DEF Sound
  <1>2. s \in ToClaudeResult /\ s.ctx = b /\ s.out = Append(r.out, e)
      BY DEF Adds
  <1>3. r.out \in Seq(ClaudeEvent)
      BY <1>1 DEF ToClaudeResult
  <1>4. d \o Append(r.out, e) = Append(d \o r.out, e)
      BY <1>1, <1>3
  <1>5. Knows(b, Append(d \o r.out, e))
      BY <1>1, KnowsMore
  <1>6. b.message_start_sent
      BY DEF Follows
  <1> QED BY <1>1, <1>2, <1>4, <1>5, <1>6 DEF Going, Sound

\* The steps.
LEMMA CtxFields ==
    ASSUME NEW c \in ChatCtx
    PROVE  /\ TextClosed(c) \in ChatCtx /\ TextLeft(c) \in ChatCtx
                /\ ToolClosed(c) \in ChatCtx /\ ToolLeft(c) \in ChatCtx
           /\ ThoughtClosed(c) \in ChatCtx /\ ThoughtOpened(c) \in ChatCtx
                /\ TextOpened(c) \in ChatCtx
           /\ ToolOpened(c) \in ChatCtx /\ MessageOpened(c) \in ChatCtx
                /\ ReasonGiven(c) \in ChatCtx
  <1>1. c.content_index \in Nat /\ c.thinking_index \in Nat /\ c.content_index + 1 \in Nat
          /\ c.thinking_index + 1 \in Nat
      BY DEF ChatCtx
  <1>2. TextClosed(c) \in ChatCtx /\ ToolClosed(c) \in ChatCtx /\ ThoughtClosed(c) \in ChatCtx
          /\ ThoughtOpened(c) \in ChatCtx
        /\ TextOpened(c) \in ChatCtx /\ ToolOpened(c) \in ChatCtx
             /\ MessageOpened(c) \in ChatCtx /\ ReasonGiven(c) \in ChatCtx
      BY <1>1, Updates, Zenon DEF TextClosed, ToolClosed, ThoughtClosed, ThoughtOpened,
         TextOpened, ToolOpened, MessageOpened, ReasonGiven
  <1>3. TextLeft(c) \in ChatCtx
      BY <1>1, <1>2, Updates DEF TextLeft
  <1>4. ToolLeft(c) \in ChatCtx
      BY <1>1, <1>2, Updates, Zenon DEF ToolLeft
  <1> QED BY <1>2, <1>3, <1>4

\* The context follows the stop of the text block.
LEMMA FollowsText ==
    ASSUME NEW c \in ChatCtx, Apart(c), c.content_block_started
    PROVE  /\ Follows(c, StopOf(c.content_index), TextClosed(c))
                /\ Follows(c, StopOf(c.content_index), TextLeft(c))
           /\ ~TextLeft(c).content_block_started /\ ~TextClosed(c).content_block_started
           /\ TextLeft(c).thinking_block_started = c.thinking_block_started
           /\ TextClosed(c).thinking_block_started = c.thinking_block_started
           /\ TextClosed(c).tool_block_started = c.tool_block_started
           /\ TextClosed(c).finish_reason_sent = c.finish_reason_sent
  <1>1. StopOf(c.content_index).type = "content_block_stop"
          /\ StopOf(c.content_index).index = c.content_index
      BY DEF StopOf, ClaudeEv
  <1>2. TextClosed(c) \in ChatCtx /\ TextLeft(c) \in ChatCtx
      BY CtxFields
  <1>3. /\ TextClosed(c).content_block_started = FALSE
             /\ TextClosed(c).thinking_block_started = c.thinking_block_started
        /\ TextClosed(c).tool_block_started = c.tool_block_started
             /\ TextClosed(c).thinking_index = c.thinking_index
        /\ TextClosed(c).tool_index = c.tool_index
             /\ TextClosed(c).message_start_sent = c.message_start_sent
        /\ TextClosed(c).finish_reason_sent = c.finish_reason_sent
      BY DEF TextClosed, ChatCtx
  <1>4. /\ TextLeft(c).content_block_started = FALSE
             /\ TextLeft(c).thinking_block_started = c.thinking_block_started
        /\ TextLeft(c).tool_block_started = c.tool_block_started
             /\ TextLeft(c).thinking_index = c.thinking_index
        /\ TextLeft(c).tool_index = c.tool_index
             /\ TextLeft(c).message_start_sent = c.message_start_sent
        /\ TextLeft(c).finish_reason_sent = c.finish_reason_sent
      BY <1>2, <1>3 DEF TextLeft, ChatCtx
  <1>5. c.message_start_sent
      BY DEF Apart
  <1>6. Apart(TextClosed(c)) /\ Apart(TextLeft(c))
      BY <1>3, <1>4, <1>5 DEF Apart
  <1>7. \A x : Held(c, x) /\ x # c.content_index
          => Held(TextClosed(c), x) /\ Held(TextLeft(c), x)
      BY <1>3, <1>4 DEF Held
  <1>8. Follows(c, StopOf(c.content_index), TextClosed(c))
      BY <1>1, <1>2, <1>3, <1>5, <1>6, <1>7 DEF Follows
  <1>9. Follows(c, StopOf(c.content_index), TextLeft(c))
      BY <1>1, <1>2, <1>4, <1>5, <1>6, <1>7 DEF Follows
  <1> QED BY <1>3, <1>4, <1>8, <1>9

\* The context follows the stop of the tool block.
LEMMA FollowsTool ==
    ASSUME NEW c \in ChatCtx, Apart(c), c.tool_block_started
    PROVE  /\ Follows(c, StopOf(c.tool_index), ToolClosed(c))
                /\ Follows(c, StopOf(c.tool_index), ToolLeft(c))
           /\ ~ToolLeft(c).tool_block_started /\ ~ToolClosed(c).tool_block_started
           /\ ToolLeft(c).content_block_started = c.content_block_started
           /\ ToolLeft(c).thinking_block_started = c.thinking_block_started
           /\ ToolClosed(c).content_block_started = c.content_block_started
           /\ ToolClosed(c).thinking_block_started = c.thinking_block_started
           /\ ToolClosed(c).finish_reason_sent = c.finish_reason_sent
  <1>1. StopOf(c.tool_index).type = "content_block_stop"
          /\ StopOf(c.tool_index).index = c.tool_index
      BY DEF StopOf, ClaudeEv
  <1>2. ToolClosed(c) \in ChatCtx /\ ToolLeft(c) \in ChatCtx
      BY CtxFields
  <1>3. /\ ToolClosed(c).tool_block_started = FALSE
             /\ ToolClosed(c).thinking_block_started = c.thinking_block_started
        /\ ToolClosed(c).content_block_started = c.content_block_started
             /\ ToolClosed(c).thinking_index = c.thinking_index
        /\ ToolClosed(c).content_index = c.content_index
             /\ ToolClosed(c).message_start_sent = c.message_start_sent
        /\ ToolClosed(c).finish_reason_sent = c.finish_reason_sent
      BY DEF ToolClosed, ChatCtx
  <1>4. /\ ToolLeft(c).tool_block_started = FALSE
             /\ ToolLeft(c).thinking_block_started = c.thinking_block_started
        /\ ToolLeft(c).content_block_started = c.content_block_started
             /\ ToolLeft(c).thinking_index = c.thinking_index
        /\ ToolLeft(c).message_start_sent = c.message_start_sent
        /\ ToolLeft(c).finish_reason_sent = c.finish_reason_sent
      BY <1>2, <1>3 DEF ToolLeft, ChatCtx
  <1>5. c.message_start_sent /\ ~(c.content_block_started /\ c.thinking_block_started)
        /\ (c.content_block_started => c.tool_index = c.content_index)
      BY DEF Apart
  <1>6. Apart(ToolClosed(c)) /\ Apart(ToolLeft(c))
      BY <1>3, <1>4, <1>5 DEF Apart
  <1>7. \A x : Held(c, x) /\ x # c.tool_index
          => Held(ToolClosed(c), x) /\ Held(ToolLeft(c), x)
      BY <1>3, <1>4, <1>5 DEF Held
  <1>8. Follows(c, StopOf(c.tool_index), ToolClosed(c))
      BY <1>1, <1>2, <1>3, <1>5, <1>6, <1>7 DEF Follows
  <1>9. Follows(c, StopOf(c.tool_index), ToolLeft(c))
      BY <1>1, <1>2, <1>4, <1>5, <1>6, <1>7 DEF Follows
  <1> QED BY <1>3, <1>4, <1>8, <1>9

\* The context follows the stop of the thinking block.
LEMMA FollowsThought ==
    ASSUME NEW c \in ChatCtx, Apart(c), c.thinking_block_started
    PROVE  /\ Follows(c, StopOf(c.thinking_index), ThoughtClosed(c))
           /\ ~ThoughtClosed(c).thinking_block_started
                /\ ~ThoughtClosed(c).content_block_started
           /\ ThoughtClosed(c).tool_block_started = c.tool_block_started
           /\ ThoughtClosed(c).finish_reason_sent = c.finish_reason_sent
  <1>1. StopOf(c.thinking_index).type = "content_block_stop"
          /\ StopOf(c.thinking_index).index = c.thinking_index
      BY DEF StopOf, ClaudeEv
  <1>2. ThoughtClosed(c) \in ChatCtx
      BY CtxFields
  <1>3. /\ ThoughtClosed(c).thinking_block_started = FALSE
             /\ ThoughtClosed(c).content_block_started = c.content_block_started
        /\ ThoughtClosed(c).tool_block_started = c.tool_block_started
        /\ ThoughtClosed(c).tool_index = c.tool_index
             /\ ThoughtClosed(c).message_start_sent = c.message_start_sent
        /\ ThoughtClosed(c).finish_reason_sent = c.finish_reason_sent
      BY DEF ThoughtClosed, ChatCtx
  <1>4. c.message_start_sent /\ ~c.content_block_started
      BY DEF Apart
  <1>5. Apart(ThoughtClosed(c))
      BY <1>3, <1>4 DEF Apart
  <1>6. \A x : Held(c, x) /\ x # c.thinking_index => Held(ThoughtClosed(c), x)
      BY <1>3, <1>4 DEF Held
  <1>7. Follows(c, StopOf(c.thinking_index), ThoughtClosed(c))
      BY <1>1, <1>2, <1>3, <1>4, <1>5, <1>6 DEF Follows
  <1>8. c.content_block_started \in BOOLEAN
      BY DEF ChatCtx
  <1> QED BY <1>3, <1>4, <1>7

\* The context follows the starts of the three kinds of block.
LEMMA FollowsStarts ==
    ASSUME NEW c \in ChatCtx, Apart(c), c.message_start_sent
    PROVE  /\ ~c.content_block_started /\ ~c.thinking_block_started
                => Follows(c, StartOf("thinking", c.content_index), ThoughtOpened(c))
           /\ ~c.thinking_block_started /\ ~c.tool_block_started /\ ~c.content_block_started
                => Follows(c, StartOf("text", c.content_index), TextOpened(c))
           /\ ~c.tool_block_started
                => Follows(c, StartOf("tool_use", c.content_index), ToolOpened(c))
  <1>1. \A k : StartOf(k, c.content_index).type = "content_block_start"
          /\ StartOf(k, c.content_index).index = c.content_index
      BY DEF StartOf, ClaudeEv
  <1>2. ThoughtOpened(c) \in ChatCtx /\ TextOpened(c) \in ChatCtx /\ ToolOpened(c) \in ChatCtx
      BY CtxFields
  <1>3. ASSUME ~c.content_block_started, ~c.thinking_block_started
        PROVE  Follows(c, StartOf("thinking", c.content_index), ThoughtOpened(c))
    <2>1. /\ ThoughtOpened(c).thinking_block_started = TRUE
               /\ ThoughtOpened(c).content_block_started = c.content_block_started
          /\ ThoughtOpened(c).tool_block_started = c.tool_block_started
               /\ ThoughtOpened(c).tool_index = c.tool_index
          /\ ThoughtOpened(c).thinking_index = c.content_index
          /\ ThoughtOpened(c).message_start_sent = c.message_start_sent
               /\ ThoughtOpened(c).finish_reason_sent = c.finish_reason_sent
      BY DEF ThoughtOpened, ChatCtx
    <2>2. Apart(ThoughtOpened(c))
      BY <1>3, <2>1 DEF Apart
    <2>3. \A x : Held(c, x) \/ x = c.content_index => Held(ThoughtOpened(c), x)
      BY <1>3, <2>1 DEF Held
    <2> QED BY <1>1, <1>2, <2>1, <2>2, <2>3 DEF Follows
  <1>4. ASSUME ~c.content_block_started, ~c.thinking_block_started, ~c.tool_block_started
        PROVE  Follows(c, StartOf("text", c.content_index), TextOpened(c))
    <2>1. /\ TextOpened(c).thinking_block_started = c.thinking_block_started
               /\ TextOpened(c).content_block_started = TRUE
          /\ TextOpened(c).tool_block_started = c.tool_block_started
               /\ TextOpened(c).content_index = c.content_index
          /\ TextOpened(c).message_start_sent = c.message_start_sent
               /\ TextOpened(c).finish_reason_sent = c.finish_reason_sent
      BY DEF TextOpened, ChatCtx
    <2>2. Apart(TextOpened(c))
      BY <1>4, <2>1 DEF Apart
    <2>3. \A x : Held(c, x) \/ x = c.content_index => Held(TextOpened(c), x)
      BY <1>4, <2>1 DEF Held
    <2> QED BY <1>1, <1>2, <2>1, <2>2, <2>3 DEF Follows
  <1>5. ASSUME ~c.tool_block_started
        PROVE  Follows(c, StartOf("tool_use", c.content_index), ToolOpened(c))
    <2>1. /\ ToolOpened(c).thinking_block_started = c.thinking_block_started
               /\ ToolOpened(c).content_block_started = c.content_block_started
          /\ ToolOpened(c).tool_block_started = TRUE
               /\ ToolOpened(c).content_index = c.content_index
          /\ ToolOpened(c).tool_index = c.content_index
               /\ ToolOpened(c).thinking_index = c.thinking_index
          /\ ToolOpened(c).message_start_sent = c.message_start_sent
               /\ ToolOpened(c).finish_reason_sent = c.finish_reason_sent
      BY DEF ToolOpened, ChatCtx
    <2>2. Apart(ToolOpened(c))
      BY <1>5, <2>1 DEF Apart
    <2>3. \A x : Held(c, x) \/ x = c.content_index => Held(ToolOpened(c), x)
      BY <1>5, <2>1 DEF Held
    <2> QED BY <1>1, <1>2, <2>1, <2>2, <2>3 DEF Follows
  <1> QED BY <1>3, <1>4, <1>5

\* The context follows message_start, the stop reason, the usage and the
\* deltas.
LEMMA FollowsMarks ==
    ASSUME NEW c \in ChatCtx, Apart(c)
    PROVE  /\ Follows(c, ClaudeEv("message_start", "none", 0), MessageOpened(c))
           /\ c.message_start_sent
                => Follows(c, ClaudeEv("message_delta", "stop", 0), ReasonGiven(c))
           /\ c.message_start_sent
                => \A k, x : Follows(c, ClaudeEv("content_block_delta", k, x), c)
           /\ c.message_start_sent => Follows(c, ClaudeEv("message_delta", "usage", 0), c)
           /\ c.message_start_sent => Follows(c, ClaudeEv("message_stop", "none", 0), c)
  <1>1. \A t, k, x : ClaudeEv(t, k, x).type = t /\ ClaudeEv(t, k, x).kind = k
      BY DEF ClaudeEv
  <1>2. MessageOpened(c) \in ChatCtx /\ ReasonGiven(c) \in ChatCtx
      BY CtxFields
  <1>3. /\ MessageOpened(c).thinking_block_started = c.thinking_block_started
             /\ MessageOpened(c).content_block_started = c.content_block_started
        /\ MessageOpened(c).tool_block_started = c.tool_block_started
             /\ MessageOpened(c).content_index = c.content_index
        /\ MessageOpened(c).tool_index = c.tool_index
             /\ MessageOpened(c).thinking_index = c.thinking_index
        /\ MessageOpened(c).message_start_sent = TRUE
             /\ MessageOpened(c).finish_reason_sent = c.finish_reason_sent
      BY DEF MessageOpened, ChatCtx
  <1>4. /\ ReasonGiven(c).thinking_block_started = c.thinking_block_started
             /\ ReasonGiven(c).content_block_started = c.content_block_started
        /\ ReasonGiven(c).tool_block_started = c.tool_block_started
             /\ ReasonGiven(c).content_index = c.content_index
        /\ ReasonGiven(c).tool_index = c.tool_index
             /\ ReasonGiven(c).thinking_index = c.thinking_index
        /\ ReasonGiven(c).message_start_sent = c.message_start_sent
      BY DEF ReasonGiven, ChatCtx
  <1>5. Apart(MessageOpened(c)) /\ Apart(ReasonGiven(c))
      BY <1>3, <1>4 DEF Apart
  <1>6. \A x : Held(c, x) => Held(MessageOpened(c), x) /\ Held(ReasonGiven(c), x)
      BY <1>3, <1>4 DEF Held
  <1>7. Follows(c, ClaudeEv("message_start", "none", 0), MessageOpened(c))
      BY <1>1, <1>2, <1>3, <1>5, <1>6 DEF Follows
  <1>8. c.message_start_sent
          => Follows(c, ClaudeEv("message_delta", "stop", 0), ReasonGiven(c))
      BY <1>1, <1>2, <1>4, <1>5, <1>6 DEF Follows
  <1>9. c.message_start_sent
          => \A t, k, x : t \notin {"content_block_start", "content_block_stop"}
          => Follows(c, ClaudeEv(t, k, x), c)
      BY <1>1 DEF Follows
  <1> QED BY <1>7, <1>8, <1>9

NoText(r) == ~r.ctx.content_block_started

NoThought(r) == ~r.ctx.thinking_block_started

NoTool(r) == ~r.ctx.tool_block_started

SameReason(r, s) == s.ctx.finish_reason_sent = r.ctx.finish_reason_sent

\* What a running result has.
LEMMA GoingIs ==
    ASSUME NEW d, NEW r, Going(d, r)
    PROVE  /\ Sound(d, r) /\ r \in ToClaudeResult /\ r.ctx \in ChatCtx /\ Apart(r.ctx)
                /\ r.ctx.message_start_sent
  BY DEF Going, Sound, Knows

(* A delta, a usage or the end added to a message.                         *)
LEMMA Emits ==
    ASSUME NEW d, NEW r, Going(d, r)
    PROVE  /\ \A k \in Kinds,
                x \in Nat : Going(d, ToClaude!emit(r, ToClaude!event("content_block_delta", k, x)))
           /\ Going(d, ToClaude!emit(r, ToClaude!event("message_delta", "usage", 0)))
           /\ Going(d, ToClaude!emit(r, ToClaude!event("message_stop", "none", 0)))
  <1>1. Sound(d, r) /\ r \in ToClaudeResult /\ r.ctx \in ChatCtx /\ Apart(r.ctx)
          /\ r.ctx.message_start_sent
      BY GoingIs
  <1>2. ASSUME NEW e \in ClaudeEvent, Follows(r.ctx, e, r.ctx)
        PROVE Going(d, ToClaude!emit(r, e))
    <2>1. Adds(r, ToClaude!emit(r, e), e, r.ctx)
      BY <1>1, AddsPlain
    <2> QED BY <1>1, <1>2, <2>1, SoundAdds
  <1>3. ASSUME NEW k \in Kinds, NEW x \in Nat
        PROVE Going(d, ToClaude!emit(r, ToClaude!event("content_block_delta", k, x)))
    <2>1. PICK e : e = ClaudeEv("content_block_delta", k, x)
      OBVIOUS
    <2>2. e \in ClaudeEvent /\ e = ToClaude!event("content_block_delta", k, x)
            /\ Follows(r.ctx, e, r.ctx)
      BY <1>1, <2>1, EventTyped, EventIs, FollowsMarks
    <2>3. Going(d, ToClaude!emit(r, e))
      BY <1>2, <2>2
    <2> QED BY <2>2, <2>3, Zenon
  <1>4. Going(d, ToClaude!emit(r, ToClaude!event("message_delta", "usage", 0)))
    <2>1. PICK e : e = ClaudeEv("message_delta", "usage", 0)
      OBVIOUS
    <2>2. e \in ClaudeEvent /\ e = ToClaude!event("message_delta", "usage", 0)
            /\ Follows(r.ctx, e, r.ctx)
      BY <1>1, <2>1, 0 \in Nat, EventTyped, EventIs, FollowsMarks
    <2>3. Going(d, ToClaude!emit(r, e))
      BY <1>2, <2>2
    <2> QED BY <2>2, <2>3, Zenon
  <1>5. Going(d, ToClaude!emit(r, ToClaude!event("message_stop", "none", 0)))
    <2>1. PICK e : e = ClaudeEv("message_stop", "none", 0)
      OBVIOUS
    <2>2. e \in ClaudeEvent /\ e = ToClaude!event("message_stop", "none", 0)
            /\ Follows(r.ctx, e, r.ctx)
      BY <1>1, <2>1, 0 \in Nat, EventTyped, EventIs, FollowsMarks
    <2>3. Going(d, ToClaude!emit(r, e))
      BY <1>2, <2>2
    <2> QED BY <2>2, <2>3, Zenon
  <1> QED BY <1>3, <1>4, <1>5

(* The three ways a block ends.                                            *)
LEMMA TextEnds ==
    ASSUME NEW d, NEW r, Going(d, r)
    PROVE  /\ Going(d, ToClaude!text_done(r)) /\ NoText(ToClaude!text_done(r))
           /\ NoThought(r) => NoThought(ToClaude!text_done(r))
           /\ Going(d, ToClaude!close_text_block(r)) /\ NoText(ToClaude!close_text_block(r))
           /\ NoThought(r) => NoThought(ToClaude!close_text_block(r))
           /\ NoTool(r) => NoTool(ToClaude!close_text_block(r))
           /\ SameReason(r, ToClaude!close_text_block(r))
  <1>1. Sound(d, r) /\ r \in ToClaudeResult /\ r.ctx \in ChatCtx /\ Apart(r.ctx)
          /\ r.ctx.message_start_sent
      BY GoingIs
  <1>2. CASE ~r.ctx.content_block_started
    <2>1. ToClaude!text_done(r) = r /\ ToClaude!close_text_block(r) = r
      BY <1>2, Zenon DEF ToClaude!text_done, ToClaude!close_text_block
    <2> QED BY <1>2, <2>1 DEF NoText, SameReason
  <1>3. CASE r.ctx.content_block_started
    <2>1. PICK k : k = ToClaude!close_text_block(r)
      OBVIOUS
    <2>2. PICK s : s = ToClaude!text_done(r)
      OBVIOUS
    <2>3. PICK e : e = StopOf(r.ctx.content_index)
      OBVIOUS
    <2>4. Adds(r, k, e, TextClosed(r.ctx)) /\ Adds(r, s, e, TextLeft(r.ctx))
      BY <1>1, <1>3, <2>1, <2>2, <2>3, AddsTextStop
    <2>5. e \in ClaudeEvent
      BY <1>1, <2>3, CtxTyped, EventTyped DEF StopOf
    <2>6. /\ Follows(r.ctx, e, TextClosed(r.ctx)) /\ Follows(r.ctx, e, TextLeft(r.ctx))
          /\ ~TextLeft(r.ctx).content_block_started
               /\ ~TextClosed(r.ctx).content_block_started
          /\ TextLeft(r.ctx).thinking_block_started = r.ctx.thinking_block_started
          /\ TextClosed(r.ctx).thinking_block_started = r.ctx.thinking_block_started
          /\ TextClosed(r.ctx).tool_block_started = r.ctx.tool_block_started
          /\ TextClosed(r.ctx).finish_reason_sent = r.ctx.finish_reason_sent
      BY <1>1, <1>3, <2>3, FollowsText
    <2>7. Going(d, k) /\ Going(d, s)
      BY <1>1, <2>4, <2>5, <2>6, SoundAdds
    <2>8. k.ctx = TextClosed(r.ctx) /\ s.ctx = TextLeft(r.ctx)
      BY <2>4 DEF Adds
    <2> QED BY <2>1, <2>2, <2>6, <2>7, <2>8 DEF NoText, NoThought, NoTool, SameReason
  <1> QED BY <1>2, <1>3

\* Closing the tool block of a running result.
LEMMA ToolEnds ==
    ASSUME NEW d, NEW r, Going(d, r)
    PROVE  /\ Going(d, ToClaude!tool_done(r)) /\ NoTool(ToClaude!tool_done(r))
           /\ NoThought(r) => NoThought(ToClaude!tool_done(r))
           /\ NoText(r) => NoText(ToClaude!tool_done(r))
           /\ Going(d, ToClaude!close_tool_block(r)) /\ NoTool(ToClaude!close_tool_block(r))
           /\ NoThought(r) => NoThought(ToClaude!close_tool_block(r))
           /\ NoText(r) => NoText(ToClaude!close_tool_block(r))
           /\ SameReason(r, ToClaude!close_tool_block(r))
  <1>1. Sound(d, r) /\ r \in ToClaudeResult /\ r.ctx \in ChatCtx /\ Apart(r.ctx)
          /\ r.ctx.message_start_sent
      BY GoingIs
  <1>2. CASE ~r.ctx.tool_block_started
    <2>1. ToClaude!tool_done(r) = r /\ ToClaude!close_tool_block(r) = r
      BY <1>2, Zenon DEF ToClaude!tool_done, ToClaude!close_tool_block
    <2> QED BY <1>2, <2>1 DEF NoTool, SameReason
  <1>3. CASE r.ctx.tool_block_started
    <2>1. PICK k : k = ToClaude!close_tool_block(r)
      OBVIOUS
    <2>2. PICK s : s = ToClaude!tool_done(r)
      OBVIOUS
    <2>3. PICK e : e = StopOf(r.ctx.tool_index)
      OBVIOUS
    <2>4. Adds(r, k, e, ToolClosed(r.ctx)) /\ Adds(r, s, e, ToolLeft(r.ctx))
      BY <1>1, <1>3, <2>1, <2>2, <2>3, AddsToolStop
    <2>5. e \in ClaudeEvent
      BY <1>1, <2>3, CtxTyped, EventTyped DEF StopOf
    <2>6. /\ Follows(r.ctx, e, ToolClosed(r.ctx)) /\ Follows(r.ctx, e, ToolLeft(r.ctx))
          /\ ~ToolLeft(r.ctx).tool_block_started /\ ~ToolClosed(r.ctx).tool_block_started
          /\ ToolLeft(r.ctx).content_block_started = r.ctx.content_block_started
          /\ ToolLeft(r.ctx).thinking_block_started = r.ctx.thinking_block_started
          /\ ToolClosed(r.ctx).content_block_started = r.ctx.content_block_started
          /\ ToolClosed(r.ctx).thinking_block_started = r.ctx.thinking_block_started
          /\ ToolClosed(r.ctx).finish_reason_sent = r.ctx.finish_reason_sent
      BY <1>1, <1>3, <2>3, FollowsTool
    <2>7. Going(d, k) /\ Going(d, s)
      BY <1>1, <2>4, <2>5, <2>6, SoundAdds
    <2>8. k.ctx = ToolClosed(r.ctx) /\ s.ctx = ToolLeft(r.ctx)
      BY <2>4 DEF Adds
    <2> QED BY <2>1, <2>2, <2>6, <2>7, <2>8 DEF NoText, NoThought, NoTool, SameReason
  <1> QED BY <1>2, <1>3

\* Closing the thinking block of a running result.
LEMMA ThoughtEnds ==
    ASSUME NEW d, NEW r, Going(d, r)
    PROVE  /\ Going(d, ToClaude!close_thinking_block(r))
                /\ NoThought(ToClaude!close_thinking_block(r))
           /\ SameReason(r, ToClaude!close_thinking_block(r))
  <1>1. Sound(d, r) /\ r \in ToClaudeResult /\ r.ctx \in ChatCtx /\ Apart(r.ctx)
          /\ r.ctx.message_start_sent
      BY GoingIs
  <1>2. CASE ~r.ctx.thinking_block_started
    <2>1. ToClaude!close_thinking_block(r) = r
      BY <1>2, Zenon DEF ToClaude!close_thinking_block
    <2> QED BY <1>2, <2>1 DEF NoThought, SameReason
  <1>3. CASE r.ctx.thinking_block_started
    <2>1. PICK k : k = ToClaude!close_thinking_block(r)
      OBVIOUS
    <2>2. PICK e : e = StopOf(r.ctx.thinking_index)
      OBVIOUS
    <2>3. Adds(r, k, e, ThoughtClosed(r.ctx))
      BY <1>1, <1>3, <2>1, <2>2, AddsThoughtStop
    <2>4. e \in ClaudeEvent
      BY <1>1, <2>2, CtxTyped, EventTyped DEF StopOf
    <2>5. /\ Follows(r.ctx, e, ThoughtClosed(r.ctx))
               /\ ~ThoughtClosed(r.ctx).thinking_block_started
          /\ ThoughtClosed(r.ctx).finish_reason_sent = r.ctx.finish_reason_sent
      BY <1>1, <1>3, <2>2, FollowsThought
    <2>6. Going(d, k)
      BY <1>1, <2>3, <2>4, <2>5, SoundAdds
    <2>7. k.ctx = ThoughtClosed(r.ctx)
      BY <2>3 DEF Adds
    <2> QED BY <2>1, <2>5, <2>6, <2>7 DEF NoThought, SameReason
  <1> QED BY <1>2, <1>3

(* The four ways something begins.                                         *)
ThinkingOpen(r) ==
    [ToClaude!emit(r, ToClaude!event("content_block_start", "thinking", r.ctx.content_index))
        EXCEPT !.ctx.thinking_block_started = TRUE,
            !.ctx.thinking_index = r.ctx.content_index]

TextOpen(r) ==
    [ToClaude!emit(r, ToClaude!event("content_block_start", "text", r.ctx.content_index))
        EXCEPT !.ctx.content_block_started = TRUE]

\* Opening the blocks of a running result, and giving its stop reason.
LEMMA Begins ==
    ASSUME NEW d, NEW r, Going(d, r)
    PROVE  /\ NoText(r) /\ NoThought(r) => Going(d, ThinkingOpen(r))
           /\ NoText(r) /\ NoThought(r) /\ NoTool(r) => Going(d, TextOpen(r))
           /\ NoTool(r) => Going(d, ToClaude!open_tool(r))
           /\ Going(d, ToClaude!stop_reason(r))
           /\ ToClaude!stop_reason(r).ctx.finish_reason_sent
           /\ NoText(r) /\ NoThought(r) /\ NoTool(r) =>
                 NoText(ToClaude!stop_reason(r)) /\ NoThought(ToClaude!stop_reason(r))
                     /\ NoTool(ToClaude!stop_reason(r))
  <1>1. Sound(d, r) /\ r \in ToClaudeResult /\ r.ctx \in ChatCtx /\ Apart(r.ctx)
          /\ r.ctx.message_start_sent
      BY GoingIs
  <1>2. PICK x : x = r.ctx.content_index
      OBVIOUS
  <1>3. x \in Nat
      BY <1>1, <1>2, CtxTyped
  <1>4. StartOf("thinking", x) \in ClaudeEvent /\ StartOf("text", x) \in ClaudeEvent
          /\ StartOf("tool_use", x) \in ClaudeEvent
    <2>1. "thinking" \in Kinds /\ "text" \in Kinds /\ "tool_use" \in Kinds
      BY DEF Kinds
    <2> QED BY <1>3, <2>1, EventTyped DEF StartOf
  <1>5. /\ Adds(r, ThinkingOpen(r), StartOf("thinking", x), ThoughtOpened(r.ctx))
        /\ Adds(r, TextOpen(r), StartOf("text", x), TextOpened(r.ctx))
        /\ Adds(r, ToClaude!open_tool(r), StartOf("tool_use", x), ToolOpened(r.ctx))
      BY <1>1, <1>2, AddsStarts, Zenon DEF ThinkingOpen, TextOpen
  <1>6. /\ NoText(r) /\ NoThought(r)
             => Follows(r.ctx, StartOf("thinking", x), ThoughtOpened(r.ctx))
        /\ NoText(r) /\ NoThought(r) /\ NoTool(r)
             => Follows(r.ctx, StartOf("text", x), TextOpened(r.ctx))
        /\ NoTool(r) => Follows(r.ctx, StartOf("tool_use", x), ToolOpened(r.ctx))
      BY <1>1, <1>2, FollowsStarts DEF NoText, NoThought, NoTool
  <1>7. NoText(r) /\ NoThought(r) => Going(d, ThinkingOpen(r))
      BY <1>1, <1>4, <1>5, <1>6, SoundAdds
  <1>8. NoText(r) /\ NoThought(r) /\ NoTool(r) => Going(d, TextOpen(r))
      BY <1>1, <1>4, <1>5, <1>6, SoundAdds
  <1>9. NoTool(r) => Going(d, ToClaude!open_tool(r))
      BY <1>1, <1>4, <1>5, <1>6, SoundAdds
  <1>10. PICK e : e = ClaudeEv("message_delta", "stop", 0)
      OBVIOUS
  <1>11. e \in ClaudeEvent /\ Adds(r, ToClaude!stop_reason(r), e, ReasonGiven(r.ctx))
           /\ Follows(r.ctx, e, ReasonGiven(r.ctx))
      BY <1>1, <1>10, 0 \in Nat, EventTyped, AddsMarks, FollowsMarks
  <1>12. Going(d, ToClaude!stop_reason(r))
      BY <1>1, <1>11, SoundAdds
  <1>13. ToClaude!stop_reason(r).ctx = ReasonGiven(r.ctx)
      BY <1>11 DEF Adds
  <1>14. /\ ReasonGiven(r.ctx).finish_reason_sent = TRUE
         /\ ReasonGiven(r.ctx).content_block_started = r.ctx.content_block_started
         /\ ReasonGiven(r.ctx).thinking_block_started = r.ctx.thinking_block_started
         /\ ReasonGiven(r.ctx).tool_block_started = r.ctx.tool_block_started
      BY <1>1 DEF ReasonGiven, ChatCtx
  <1> QED BY <1>7, <1>8, <1>9, <1>12, <1>13, <1>14 DEF NoText, NoThought, NoTool

\* emit_thinking_delta, whatever is open.
LEMMA Thinks ==
    ASSUME NEW d, NEW r, Going(d, r)
    PROVE  Going(d, ToClaude!emit_thinking_delta(r))
  <1>1. PICK t : t = ToClaude!text_done(r)
      OBVIOUS
  <1>2. PICK c : c = ToClaude!tool_done(t)
      OBVIOUS
  <1>3. PICK s : s = IF c.ctx.thinking_block_started THEN c ELSE ThinkingOpen(c)
      OBVIOUS
  <1>4. ToClaude!emit_thinking_delta(r)
          = ToClaude!emit(s, ToClaude!event("content_block_delta", "thinking", s.ctx.thinking_index))
      BY <1>1, <1>2, <1>3, Zenon DEF ToClaude!emit_thinking_delta, ThinkingOpen
  <1>5. Going(d, t) /\ NoText(t)
      BY <1>1, TextEnds
  <1>6. Going(d, c) /\ NoText(c)
      BY <1>2, <1>5, ToolEnds
  <1>7. Going(d, s)
    <2>1. CASE c.ctx.thinking_block_started
      BY <1>3, <1>6, <2>1
    <2>2. CASE ~c.ctx.thinking_block_started
      <3>1. NoThought(c) /\ s = ThinkingOpen(c)
        BY <1>3, <2>2 DEF NoThought
      <3> QED BY <1>6, <3>1, Begins
    <2> QED BY <2>1, <2>2
  <1>8. s.ctx.thinking_index \in Nat /\ "thinking" \in Kinds
      BY <1>7, GoingIs, CtxTyped DEF Kinds
  <1> QED BY <1>4, <1>7, <1>8, Emits

\* emit_text_delta, whatever is open.
LEMMA Says ==
    ASSUME NEW d, NEW r, Going(d, r)
    PROVE  Going(d, ToClaude!emit_text_delta(r))
  <1>1. PICK t : t = ToClaude!close_thinking_block(r)
      OBVIOUS
  <1>2. PICK c : c = ToClaude!tool_done(t)
      OBVIOUS
  <1>3. PICK s : s = IF c.ctx.content_block_started THEN c ELSE TextOpen(c)
      OBVIOUS
  <1>4. ToClaude!emit_text_delta(r)
          = ToClaude!emit(s, ToClaude!event("content_block_delta", "text", s.ctx.content_index))
      BY <1>1, <1>2, <1>3, Zenon DEF ToClaude!emit_text_delta, TextOpen
  <1>5. Going(d, t) /\ NoThought(t)
      BY <1>1, ThoughtEnds
  <1>6. Going(d, c) /\ NoThought(c) /\ NoTool(c)
      BY <1>2, <1>5, ToolEnds
  <1>7. Going(d, s)
    <2>1. CASE c.ctx.content_block_started
      BY <1>3, <1>6, <2>1
    <2>2. CASE ~c.ctx.content_block_started
      <3>1. NoText(c) /\ s = TextOpen(c)
        BY <1>3, <2>2 DEF NoText
      <3> QED BY <1>6, <3>1, Begins
    <2> QED BY <2>1, <2>2
  <1>8. s.ctx.content_index \in Nat /\ "text" \in Kinds
      BY <1>7, GoingIs, CtxTyped DEF Kinds
  <1> QED BY <1>4, <1>7, <1>8, Emits

\* emit_tool_call, whatever is open.
LEMMA CallsTool ==
    ASSUME NEW d, NEW r, Going(d, r), NEW tc \in UpCall
    PROVE  Going(d, ToClaude!emit_tool_call(r, tc))
  <1>1. PICK a : a = ToClaude!close_thinking_block(r)
      OBVIOUS
  <1>2. PICK b : b = ToClaude!text_done(a)
      OBVIOUS
  <1>3. PICK c : c = ToClaude!tool_done(b)
      OBVIOUS
  <1>4. PICK named : named = IF tc.id THEN ToClaude!open_tool(c) ELSE r
      OBVIOUS
  <1>5. PICK opened : opened = IF tc.args /\ ~named.ctx.tool_block_started
          THEN ToClaude!open_tool(named) ELSE named
      OBVIOUS
  <1>6. ToClaude!emit_tool_call(r, tc) =
          IF tc.args THEN ToClaude!emit(opened, ToClaude!event("content_block_delta", "tool_use", opened.ctx.tool_index))
          ELSE opened
      BY <1>1, <1>2, <1>3, <1>4, <1>5, Zenon DEF ToClaude!emit_tool_call
  <1>7. Going(d, a)
      BY <1>1, ThoughtEnds
  <1>8. Going(d, b)
      BY <1>2, <1>7, TextEnds
  <1>9. Going(d, c) /\ NoTool(c)
      BY <1>3, <1>8, ToolEnds
  <1>10. Going(d, ToClaude!open_tool(c))
      BY <1>9, Begins
  <1>11. Going(d, named)
      BY <1>4, <1>10
  <1>12. NoTool(named) => Going(d, ToClaude!open_tool(named))
      BY <1>11, Begins
  <1>13. Going(d, opened)
      BY <1>5, <1>11, <1>12 DEF NoTool
  <1>14. opened.ctx.tool_index \in Nat /\ "tool_use" \in Kinds
      BY <1>13, GoingIs, CtxTyped DEF Kinds
  <1>15. Going(d, ToClaude!emit(opened, ToClaude!event("content_block_delta", "tool_use", opened.ctx.tool_index)))
      BY <1>13, <1>14, Emits
  <1> QED BY <1>6, <1>13, <1>15

\* The tool calls of a chunk, any number of them.
LEMMA CallsTools ==
    ASSUME NEW d, NEW r, Going(d, r), NEW tools \in Seq(UpCall)
    PROVE  Going(d, CalledBy(r, tools))
  <1> DEFINE n == Len(tools)
  <1>1. n = Len(tools)
      OBVIOUS
  <1>2. n \in Nat /\ DOMAIN tools = 1..n
      OBVIOUS
  <1> HIDE DEF n
  <1>3. PICK h : /\ h[0] = r
                 /\ \A k \in 1..n : h[k] = ToClaude!emit_tool_call(h[k - 1], tools[k])
                 /\ CalledBy(r, tools) = h[n]
    <2>1. PICK h : CallFold(h, r, tools, n)
      BY <1>2, ToolCallsFold
    <2> QED BY <2>1, Zenon DEF CallFold
  <1>4. PICK S : S = {k \in Nat : k <= n => Going(d, h[k])}
      OBVIOUS
  <1>5. 0 \in S
      BY <1>3, <1>4
  <1>6. ASSUME NEW k \in Nat, k \in S PROVE k + 1 \in S
    <2>1. CASE k + 1 <= n
      <3>1. k + 1 \in 1..n /\ k <= n /\ (k + 1) - 1 = k
        BY <1>2, <2>1
      <3>2. Going(d, h[k])
        BY <1>4, <1>6, <3>1
      <3>3. tools[k + 1] \in UpCall
        BY <1>1, <3>1
      <3>4. h[k + 1] = ToClaude!emit_tool_call(h[k], tools[k + 1])
        <4>1. h[k + 1] = ToClaude!emit_tool_call(h[(k + 1) - 1], tools[k + 1])
          BY <1>3, <3>1
        <4> QED BY <3>1, <4>1
      <3>5. Going(d, h[k + 1])
        BY <3>2, <3>3, <3>4, CallsTool
      <3> QED BY <1>4, <3>5
    <2>2. CASE ~(k + 1 <= n)
      BY <1>4, <2>2
    <2> QED BY <2>1, <2>2
  <1>7. n \in S
    <2>1. \A k \in Nat : k \in S
      BY <1>5, <1>6, NatInduct
    <2> QED BY <1>2, <2>1
  <1>8. Going(d, h[n])
      BY <1>2, <1>4, <1>7
  <1> QED BY <1>3, <1>8

AllShut(r) == NoText(r) /\ NoThought(r) /\ NoTool(r)

\* close_all leaves no block open.
LEMMA ClosesAll ==
    ASSUME NEW d, NEW r, Going(d, r)
    PROVE  /\ Going(d, ToClaude!close_all(r)) /\ AllShut(ToClaude!close_all(r))
                /\ SameReason(r, ToClaude!close_all(r))
  <1>1. PICK a : a = ToClaude!close_thinking_block(r)
      OBVIOUS
  <1>2. PICK b : b = ToClaude!close_text_block(a)
      OBVIOUS
  <1>3. PICK c : c = ToClaude!close_tool_block(b)
      OBVIOUS
  <1>4. ToClaude!close_all(r) = c
      BY <1>1, <1>2, <1>3, Zenon DEF ToClaude!close_all
  <1>5. Going(d, a) /\ NoThought(a) /\ SameReason(r, a)
      BY <1>1, ThoughtEnds
  <1>6. Going(d, b) /\ NoThought(b) /\ NoText(b) /\ SameReason(a, b)
      BY <1>2, <1>5, TextEnds
  <1>7. Going(d, c) /\ NoThought(c) /\ NoText(c) /\ NoTool(c) /\ SameReason(b, c)
      BY <1>3, <1>6, ToolEnds
  <1>8. SameReason(r, c)
      BY <1>5, <1>6, <1>7 DEF SameReason
  <1> QED BY <1>4, <1>7, <1>8 DEF AllShut

\* emit_finish and emit_usage, whatever is open.
LEMMA Finishes ==
    ASSUME NEW d, NEW r, Going(d, r)
    PROVE  Going(d, ToClaude!emit_finish(r)) /\ Going(d, ToClaude!emit_usage(r))
  <1>1. Going(d, ToClaude!stop_reason(ToClaude!close_all(r)))
      BY ClosesAll, Begins
  <1>2. Going(d, ToClaude!emit_finish(r))
      BY <1>1 DEF ToClaude!emit_finish
  <1>3. Going(d, ToClaude!emit_usage(r))
      BY Emits, Zenon DEF ToClaude!emit_usage
  <1> QED BY <1>2, <1>3

(* openai_stream_to_claude, whatever the chunk.                            *)
LEMMA ConvertsAny ==
    ASSUME NEW d, NEW c, Sound(d, [ctx |-> c, out |-> << >>]), NEW m \in UpChunk
    PROVE  Going(d, ToClaude!openai_stream_to_claude(c, m))
  <1>1. PICK r : r = [ctx |-> c, out |-> << >>]
      OBVIOUS
  <1>2. PICK start : start = ToClaude!emit_message_start(r)
      OBVIOUS
  <1>3. PICK thought : thought = IF m.reasoning THEN ToClaude!emit_thinking_delta(start)
          ELSE start
      OBVIOUS
  <1>4. PICK said : said = IF m.text THEN ToClaude!emit_text_delta(thought) ELSE thought
      OBVIOUS
  <1>5. PICK called : called = CalledBy(said, m.tools)
      OBVIOUS
  <1>6. PICK ended : ended = IF m.finish THEN ToClaude!emit_finish(called) ELSE called
      OBVIOUS
  <1>7. ToClaude!openai_stream_to_claude(c, m) = IF m.usage THEN ToClaude!emit_usage(ended)
          ELSE ended
      BY <1>1, <1>2, <1>3, <1>4, <1>5, <1>6, Zenon DEF ToClaude!openai_stream_to_claude,
         CalledBy
  <1>8. Sound(d, r) /\ r \in ToClaudeResult /\ r.ctx \in ChatCtx /\ Apart(r.ctx)
      BY <1>1 DEF Sound, Knows
  <1>9. Going(d, start)
    <2>1. CASE r.ctx.message_start_sent
      <3>1. start = r
        BY <1>2, <2>1 DEF ToClaude!emit_message_start
      <3> QED BY <1>8, <2>1, <3>1 DEF Going
    <2>2. CASE ~r.ctx.message_start_sent
      <3>1. PICK e : e = ClaudeEv("message_start", "none", 0)
        OBVIOUS
      <3>2. e \in ClaudeEvent /\ Adds(r, start, e, MessageOpened(r.ctx))
              /\ Follows(r.ctx, e, MessageOpened(r.ctx))
        BY <1>2, <1>8, <2>2, <3>1, 0 \in Nat, EventTyped, AddsMarks, FollowsMarks
      <3> QED BY <1>8, <3>2, SoundAdds
    <2> QED BY <2>1, <2>2
  <1>10. Going(d, thought)
      BY <1>3, <1>9, Thinks
  <1>11. Going(d, said)
      BY <1>4, <1>10, Says
  <1>12. m.tools \in Seq(UpCall)
      BY DEF UpChunk
  <1>13. Going(d, called)
      BY <1>5, <1>11, <1>12, CallsTools
  <1>14. Going(d, ended)
      BY <1>6, <1>13, Finishes
  <1>15. Going(d, ToClaude!emit_usage(ended))
      BY <1>14, Finishes
  <1> QED BY <1>7, <1>14, <1>15

\* A finished message: nothing is open, the reason is given and the message stopped.
Concluded(es) == COpen(es) = {}
    /\ (es # << >> => CHas(es, "message_start") /\ CHas(es, "message_stop") /\ CReason(es))

\* finalize_openai_stream_to_claude concludes whatever has been sent.
LEMMA FinalizesAny ==
    ASSUME NEW d, NEW c, Sound(d, [ctx |-> c, out |-> << >>]), NEW s,
           s = ToClaude!finalize_openai_stream_to_claude(c)
    PROVE  Sound(d, s) /\ Concluded(d \o s.out)
  <1>1. PICK r : r = [ctx |-> c, out |-> << >>]
      OBVIOUS
  <1>2. PICK closed : closed = ToClaude!close_all(r)
      OBVIOUS
  <1>3. PICK reason : reason = IF c.message_start_sent /\ ~c.finish_reason_sent
          THEN ToClaude!stop_reason(closed) ELSE closed
      OBVIOUS
  <1>4. PICK e : e = ClaudeEv("message_stop", "none", 0)
      OBVIOUS
  <1>5. e = ToClaude!event("message_stop", "none", 0) /\ e \in ClaudeEvent
      BY <1>4, 0 \in Nat, EventIs, EventTyped
  <1>6. s = IF c.message_start_sent THEN ToClaude!emit(reason, e) ELSE reason
      BY <1>1, <1>2, <1>3, <1>5, Zenon DEF ToClaude!finalize_openai_stream_to_claude
  <1>7. r.ctx = c /\ r.out = << >> /\ Sound(d, r) /\ r \in ToClaudeResult /\ c \in ChatCtx
          /\ Apart(c)
        /\ d \in Seq(ClaudeEvent) /\ Knows(c, d \o << >>)
      BY <1>1 DEF Sound, Knows
  <1>8. d \o << >> = d
      BY <1>7
  <1>9. CASE c.message_start_sent
    <2>1. Going(d, r)
      BY <1>7, <1>9 DEF Going
    <2>2. Going(d, closed) /\ AllShut(closed) /\ SameReason(r, closed)
      BY <1>2, <2>1, ClosesAll
    <2>3. Going(d, reason) /\ AllShut(reason) /\ reason.ctx.finish_reason_sent
      <3>1. CASE ~c.finish_reason_sent
        BY <1>3, <1>9, <2>2, <3>1, Begins DEF AllShut
      <3>2. CASE c.finish_reason_sent
        BY <1>3, <1>7, <2>2, <3>2 DEF SameReason
      <3> QED BY <3>1, <3>2
    <2>4. Adds(reason, s, e, reason.ctx)
      <3>1. s = ToClaude!emit(reason, e)
        BY <1>6, <1>9
      <3> QED BY <1>5, <2>3, <3>1, AddsPlain, GoingIs
    <2>5. Going(d, s)
      BY <1>5, <1>6, <1>9, <2>3, Emits
    <2>6. s.ctx = reason.ctx /\ s.out = Append(reason.out, e)
      BY <2>4 DEF Adds
    <2>7. Knows(s.ctx, d \o s.out)
      BY <2>5 DEF Going, Sound
    <2>8. CHas(d \o s.out, "message_start") /\ CReason(d \o s.out) /\ COpen(d \o s.out) = {}
      <3>1. s.ctx.message_start_sent /\ s.ctx.finish_reason_sent /\ AllShut(s)
        BY <2>3, <2>5, <2>6 DEF Going, AllShut, NoText, NoThought, NoTool
      <3>2. \A x : ~Held(s.ctx, x)
        BY <3>1 DEF AllShut, NoText, NoThought, NoTool, Held
      <3> QED BY <2>7, <3>1, <3>2 DEF Knows
    <2>9. CHas(d \o s.out, "message_stop")
      <3>1. reason.out \in Seq(ClaudeEvent)
        BY <2>3, GoingIs DEF ToClaudeResult
      <3>2. d \o s.out = Append(d \o reason.out, e) /\ d \o reason.out \in Seq(ClaudeEvent)
        BY <1>5, <1>7, <2>6, <3>1
      <3>3. e.type = "message_stop"
        BY <1>4 DEF ClaudeEv
      <3>4. PICK f : f = d \o reason.out
        OBVIOUS
      <3>5. \A t : CHas(Append(f, e), t) <=> CHas(f, t) \/ e.type = t
        <4>1. f \in Seq(ClaudeEvent)
          BY <3>2, <3>4
        <4> QED BY ONLY <1>5, <4>1, CAppend
      <3>6. CHas(Append(f, e), "message_stop")
        BY <3>3, <3>5, Zenon
      <3> QED BY <3>2, <3>4, <3>6, Zenon
    <2> QED BY <2>5, <2>8, <2>9 DEF Concluded, Going
  <1>10. CASE ~c.message_start_sent
    <2>1. ~c.content_block_started /\ ~c.thinking_block_started /\ ~c.tool_block_started
      BY <1>7, <1>10 DEF Apart
    <2>2. closed = r
      <3>1. ~r.ctx.content_block_started /\ ~r.ctx.thinking_block_started
              /\ ~r.ctx.tool_block_started
        BY <1>7, <2>1
      <3>2. ToClaude!close_thinking_block(r) = r /\ ToClaude!close_text_block(r) = r
              /\ ToClaude!close_tool_block(r) = r
        BY <3>1, Zenon DEF ToClaude!close_tool_block, ToClaude!close_text_block,
           ToClaude!close_thinking_block
      <3> QED BY <1>2, <3>2, Zenon DEF ToClaude!close_all
    <2>3. s = r
      BY <1>3, <1>6, <1>10, <2>2
    <2>4. d = << >>
      BY <1>7, <1>8, <1>10 DEF Knows
    <2>5. COpen(d) = {}
      BY <2>4 DEF COpen, CBlocks
    <2> QED BY <1>7, <1>8, <2>3, <2>4, <2>5 DEF Concluded
  <1> QED BY <1>9, <1>10

MovesSome(d, w, n, d1, w1) == d1 = d \o SubSeq(w, 1, n) /\ w1 = SubSeq(w, n + 1, Len(w))

\* Delivering some events moves them from the wire to the client.
LEMMA MovedSome ==
    ASSUME NEW E, NEW d \in Seq(E), NEW w \in Seq(E), NEW n \in 1..Len(w), NEW d1, NEW w1,
           MovesSome(d, w, n, d1, w1)
    PROVE  d1 \in Seq(E) /\ w1 \in Seq(E) /\ d1 \o w1 = d \o w
  <1>1. PICK h : h = SubSeq(w, 1, n)
      OBVIOUS
  <1>2. PICK b : b = SubSeq(w, n + 1, Len(w))
      OBVIOUS
  <1>3. Len(w) \in Nat /\ n \in Nat /\ \A i \in 1..Len(w) : w[i] \in E
      OBVIOUS
  <1>4. h \in Seq(E) /\ b \in Seq(E)
      BY <1>1, <1>2, <1>3, SubSeqProperties
  <1>5. h \o b = w
    <2>1. 1 \in 1..(Len(w) + 1) /\ n \in (1 - 1)..Len(w) /\ Len(w) \in n..Len(w)
      BY <1>3
    <2>2. h \o b = SubSeq(w, 1, Len(w))
      BY <1>1, <1>2, <2>1, ConcatAdjacentSubSeq, Zenon
    <2> QED BY <2>2, SubSeqFull
  <1>6. (d \o h) \o b = d \o (h \o b)
    <2>1. d \in Seq(E)
      OBVIOUS
    <2> QED BY ONLY <1>4, <2>1, ConcatAssociative, SMT
  <1>7. d \o h \in Seq(E)
      BY <1>4, ConcatProperties
  <1>8. d1 = d \o h /\ w1 = b
      BY <1>1, <1>2, Zenon DEF MovesSome
  <1> QED BY <1>4, <1>5, <1>6, <1>7, <1>8

(* Whatever the chat upstream sends, the context knows what the client has *)
(* been told, and the finalizer has closed all of it.                      *)
KnowsInv ==
    conv.name = "cc_openai" =>
        /\ Sound(delivered, [ctx |-> ctx, out |-> wire])
        /\ upstream \in {"done", "over"} => Concluded(delivered \o wire)

\* The context of a new stream knows its open blocks: there are none.
LEMMA KnowsInit == Init => KnowsInv
  <1> SUFFICES ASSUME Init, conv.name = "cc_openai" PROVE KnowsInv
      BY DEF KnowsInv
  <1>1. conv \in Converters /\ wire = << >> /\ delivered = << >> /\ ctx = NewContext(conv)
          /\ upstream = "open"
      BY Zenon DEF Init
  <1>2. ctx = ToClaude!NewContext
      BY <1>1 DEF NewContext
  <1>3. /\ ctx \in ChatCtx /\ ~ctx.message_start_sent /\ ~ctx.finish_reason_sent
        /\ ~ctx.content_block_started /\ ~ctx.thinking_block_started
             /\ ~ctx.tool_block_started
      BY <1>2 DEF ToClaude!NewContext, ChatCtx
  <1>4. << >> \in Seq(ClaudeEvent) /\ << >> \o << >> = << >> /\ COpen(<< >>) = {}
          /\ \A t : ~CHas(<< >>, t)
      BY DEF COpen, CBlocks, CHas
  <1>5. Apart(ctx)
      BY <1>3 DEF Apart
  <1>6. Knows(ctx, << >>)
      BY <1>3, <1>4, <1>5 DEF Knows
  <1>7. PICK r : r = [ctx |-> ctx, out |-> << >>]
      OBVIOUS
  <1>8. r \in ToClaudeResult /\ r.ctx = ctx /\ r.out = << >>
      BY <1>3, <1>4, <1>7 DEF ToClaudeResult
  <1>9. Sound(<< >>, r)
      BY <1>4, <1>6, <1>8 DEF Sound
  <1> QED BY <1>1, <1>7, <1>9 DEF KnowsInv

(* The result of a call becomes the context and what is on the wire.       *)
LEMMA Known ==
    ASSUME NEW s, Sound(delivered, s), delivered' = delivered, ctx' = s.ctx, wire' = s.out
    PROVE  Sound(delivered', [ctx |-> ctx', out |-> wire'])
  <1>1. s \in ToClaudeResult
      BY DEF Sound
  <1>2. [ctx |-> s.ctx, out |-> s.out] = s
      BY <1>1 DEF ToClaudeResult
  <1> QED BY <1>2

\* Every step keeps the context's knowledge of the open blocks.
LEMMA KnowsNext == SentInv /\ ChunksInv /\ KnowsInv /\ [Next]_vars => KnowsInv'
  <1> SUFFICES ASSUME SentInv, ChunksInv, KnowsInv, [Next]_vars PROVE KnowsInv'
      OBVIOUS
  <1>0. conv' = conv
      BY Zenon DEF Next, vars, ConvertEvent, ConvertDone, EndStream, Deliver
  <1>1. CASE conv.name # "cc_openai"
      BY <1>0, <1>1 DEF KnowsInv
  <1>2. CASE conv.name = "cc_openai"
    <2>0. /\ Sound(delivered, [ctx |-> ctx, out |-> wire])
          /\ upstream \in {"done", "over"} => Concluded(delivered \o wire)
      BY <1>2 DEF KnowsInv
    <2>1. CASE ConvertEvent
      <3>1. /\ wire = << >> /\ delivered' = delivered
            /\ ctx' = convert(conv.name, sent'[Len(sent')]).ctx
                 /\ wire' = convert(conv.name, sent'[Len(sent')]).out
            /\ upstream \in {"open", "finished"}
        BY <2>1, Zenon DEF ConvertEvent, apply
      <3>2. conv.from = "chat" /\ conv.from # "claude" /\ conv.from # "responses"
        BY <1>2, ConverterIs DEF SentInv
      <3>3. PICK chunk \in Chunk : SendsChunk(chunk)
        BY <2>1, <3>2 DEF ConvertEvent
      <3>4. PICK m \in UpChunk : sent'[Len(sent')] = m
              /\ upstream' = (IF m.finish THEN "finished" ELSE upstream)
        BY <3>2, <3>3, ChunkStep
      <3>5. PICK s : s = ToClaude!openai_stream_to_claude(ctx, m)
        OBVIOUS
      <3>6. ctx' = s.ctx /\ wire' = s.out
        BY <1>2, <3>1, <3>4, <3>5 DEF convert
      <3>7. Sound(delivered, [ctx |-> ctx, out |-> << >>])
        BY <2>0, <3>1
      <3>8. Sound(delivered, s)
        BY <3>5, <3>7, ConvertsAny DEF Going
      <3>9. Sound(delivered', [ctx |-> ctx', out |-> wire'])
        BY <3>1, <3>6, <3>8, Known
      <3>10. upstream' \notin {"done", "over"}
        BY <3>1, <3>4
      <3> QED BY <3>9, <3>10 DEF KnowsInv
    <2>2. CASE ConvertDone \/ EndStream
      <3>1. PICK s : s = ToClaude!finalize_openai_stream_to_claude(ctx)
        OBVIOUS
      <3>2. wire = << >> /\ delivered' = delivered /\ ctx' = s.ctx /\ wire' = s.out
        <4>1. CASE ConvertDone
          BY <1>2, <3>1, <4>1 DEF ConvertDone, apply
        <4>2. CASE EndStream
          <5>1. wire = << >> /\ ctx' = finalize(conv.name).ctx
                  /\ wire' = finalize(conv.name).out /\ delivered' = delivered
            BY <4>2, Zenon DEF EndStream, apply
          <5>2. finalize(conv.name) = s
            BY <1>2, <3>1 DEF finalize
          <5> QED BY <5>1, <5>2
        <4> QED BY <2>2, <4>1, <4>2
      <3>3. Sound(delivered, [ctx |-> ctx, out |-> << >>])
        BY <2>0, <3>2
      <3>4. Sound(delivered, s) /\ Concluded(delivered \o s.out)
        BY <3>1, <3>3, FinalizesAny
      <3>5. Sound(delivered', [ctx |-> ctx', out |-> wire'])
        BY <3>2, <3>4, Known
      <3>6. Concluded(delivered' \o wire')
        BY <3>2, <3>4
      <3> QED BY <3>5, <3>6 DEF KnowsInv
    <2>3. CASE Deliver
      <3>1. PICK n : n = IF style = "any" THEN Len(wire) ELSE 1
        OBVIOUS
      <3>2. /\ wire # << >> /\ delivered' = delivered \o SubSeq(wire, 1, n)
                 /\ wire' = SubSeq(wire, n + 1, Len(wire))
            /\ ctx' = ctx /\ upstream' = upstream
        BY <2>3, <3>1, Zenon DEF Deliver
      <3>3. PICK r : r = [ctx |-> ctx, out |-> wire]
        OBVIOUS
      <3>4. r.ctx = ctx /\ r.out = wire /\ delivered \in Seq(ClaudeEvent)
              /\ r \in ToClaudeResult /\ Knows(ctx, delivered \o wire)
        BY <2>0, <3>3 DEF Sound
      <3>5. wire \in Seq(ClaudeEvent) /\ ctx \in ChatCtx
        BY <3>4 DEF ToClaudeResult
      <3>6. n \in 1..Len(wire)
        BY <3>1, <3>2, <3>5
      <3>7. /\ delivered' \in Seq(ClaudeEvent) /\ wire' \in Seq(ClaudeEvent)
                 /\ delivered' \o wire' = delivered \o wire
        <4>1. MovesSome(delivered, wire, n, delivered', wire')
          BY <3>2, Zenon DEF MovesSome
        <4> QED BY <3>4, <3>5, <3>6, <4>1, MovedSome
      <3>8. PICK s : s = [ctx |-> ctx, out |-> wire']
        OBVIOUS
      <3>9. s \in ToClaudeResult /\ s.ctx = ctx /\ s.out = wire'
        BY <3>5, <3>7, <3>8 DEF ToClaudeResult
      <3>10. Sound(delivered', s)
        BY <3>4, <3>7, <3>9 DEF Sound
      <3>11. Sound(delivered', [ctx |-> ctx', out |-> wire'])
               /\ (upstream' \in {"done", "over"} => Concluded(delivered' \o wire'))
        BY <2>0, <3>2, <3>7, <3>8, <3>10
      <3> QED BY <3>11 DEF KnowsInv
    <2>4. CASE UNCHANGED vars
      BY <2>4 DEF vars, KnowsInv
    <2> QED BY <2>1, <2>2, <2>3, <2>4, Zenon DEF Next
  <1> QED BY <1>1, <1>2

\* Whatever a chat upstream sends, the context knows the open blocks.
LEMMA KnowsIsInvariant == Spec => []KnowsInv
  <1>1. Init => KnowsInv
      BY KnowsInit
  <1>2. SentInv /\ ChunksInv /\ KnowsInv /\ [Next]_vars => KnowsInv'
      BY KnowsNext
  <1> QED BY <1>1, <1>2, SentIsInvariant, ChunksIsInvariant, PTL DEF Spec

\* A stream that is over has ended cleanly.
LEMMA EndedHolds == SentInv /\ KnowsInv /\ ItemsInv => EndedCleanly
  <1> SUFFICES ASSUME SentInv, KnowsInv, ItemsInv, conv.client = "claude", upstream = "over",
                      wire = << >>, delivered # << >>
               PROVE  /\ CHas(delivered, "message_start") /\ CHas(delivered, "message_stop")
                      /\ conv.name = "cc_openai" => CReason(delivered)
                      /\ \A i \in 1..Len(delivered) : delivered[i].type
                           = "content_block_start" =>
                            \E j \in i..Len(delivered) :
                                delivered[j].type = "content_block_stop"
                                    /\ delivered[j].index = delivered[i].index
      BY Zenon DEF EndedCleanly, CHas, CReason
  <1>1. /\ CHas(delivered, "message_start") /\ CHas(delivered, "message_stop")
             /\ COpen(delivered) = {}
        /\ conv.name = "cc_openai" => CReason(delivered)
    <2>1. CASE conv.name = "cc_openai"
      <3>1. Sound(delivered, [ctx |-> ctx, out |-> wire]) /\ Concluded(delivered \o wire)
        BY <2>1 DEF KnowsInv
      <3>2. delivered \o wire = delivered
        BY <3>1 DEF Sound
      <3> QED BY <3>1, <3>2 DEF Concluded
    <2>2. CASE conv.name = "cc_openai2"
      <3>1. PICK v : Sees(delivered, wire, v) /\ FromItems(ctx, ids, upstream, sent, v)
        BY <2>2 DEF ItemsInv
      <3>2. delivered \in Seq(ClaudeEvent) /\ CValid(delivered \o wire)
              /\ CView(delivered \o wire) = v
        BY <3>1 DEF Sees
      <3>3. delivered \o wire = delivered
        BY <3>2
      <3>4. v.kind = "none" /\ (v.started => v.stopped)
        BY <3>1 DEF FromItems
      <3>5. CShape(delivered) /\ CView(delivered) = v
        BY <3>2, <3>3 DEF CValid
      <3>6. CHas(delivered, "message_start")
        BY <3>5 DEF CShape
      <3>7. COpen(delivered) = {}
        BY <3>4, <3>5, CViewOf
      <3>8. v.started = CHas(delivered, "message_start")
              /\ v.stopped = CHas(delivered, "message_stop")
        BY <3>5 DEF CView
      <3> QED BY <2>2, <3>4, <3>6, <3>7, <3>8
    <2> QED BY <2>1, <2>2, ConverterIs DEF SentInv
  <1>2. ASSUME NEW i \in 1..Len(delivered), delivered[i].type = "content_block_start"
        PROVE  \E j \in i..Len(delivered) : delivered[j].type = "content_block_stop"
                 /\ delivered[j].index = delivered[i].index
    <2>1. i \in CBlocks(delivered)
      BY <1>2 DEF CBlocks
    <2>2. ~COpenAt(delivered, i)
      BY <1>1, <2>1 DEF COpen
    <2> QED BY <2>2, Zenon DEF COpenAt
  <1> QED BY <1>1, <1>2

\* Whatever chunks a chat upstream sends and wherever a stream is cut off, a
\* Claude client whose stream is over has seen every block it was sent stopped
\* and its message stopped, with a stop reason if the upstream speaks chat.
THEOREM StreamsEndCleanly == Spec => []EndedCleanly
  <1>1. SentInv /\ KnowsInv /\ ItemsInv => EndedCleanly
      BY EndedHolds
  <1> QED BY <1>1, SentIsInvariant, KnowsIsInvariant, ItemsIsInvariant, PTL

-----------------------------------------------------------------------------
(* The contents: what a client was told, what it is about to be told, and  *)
(* what the upstream said.                                                 *)

(* The tool calls announced in a stream, and those announced before what   *)
(* is sent now to index x.                                                 *)
CallCount(es) == Cardinality(announcedIn(es))

AnnouncedFor(es, x) == {j \in 1..Len(es) : Announces(es[j])
    /\ \E k \in j..Len(es) : Announces(es[k]) /\ es[k].index = x}

CallFor(es, x) == Cardinality(AnnouncedFor(es, x))

Piece(kinds, e, c) ==
    IF kindOf(e) \notin kinds THEN << >>
        ELSE << <<kindOf(e), IF kindOf(e) = "tool_use" THEN c ELSE 0>> >>

(* What the tool calls and the content of a stream amount to, and how one  *)
(* more event changes it.                                                  *)
Tally(es, kinds) ==
    [count |-> CallCount(es), at |-> [x \in Nat |-> CallFor(es, x)],
        said |-> contentOf(es, kinds)]

TallyAfter(t, kinds, e) ==
    IF Announces(e)
      THEN [count |-> t.count + 1,
            at |-> [x \in Nat |-> IF x = e.index THEN t.count + 1 ELSE t.at[x]],
          said |-> t.said]
      ELSE [count |-> t.count, at |-> t.at, said |-> t.said \o Piece(kinds, e, t.at[e.index])]

CallsGrow(es, e, fs) ==
    /\ CallCount(es) \in Nat /\ \A x : CallFor(es, x) \in Nat
    /\ CallCount(fs) = IF Announces(e) THEN CallCount(es) + 1 ELSE CallCount(es)
    /\ \A x : CallFor(fs, x) = IF Announces(e) /\ e.index = x THEN CallCount(es) + 1
         ELSE CallFor(es, x)
    /\ callOf(fs, Len(es) + 1) = CallFor(fs, e.index)

\* The tool calls announced, with one event more.
LEMMA CallsMore ==
    ASSUME NEW E, NEW es \in Seq(E), NEW e \in E, NEW fs, fs = Append(es, e)
    PROVE  CallsGrow(es, e, fs)
  <1>1. PICK n : n = Len(es) + 1
      OBVIOUS
  <1>2. Len(es) \in Nat /\ n \in Nat /\ Len(fs) = n /\ fs[n] = e
          /\ \A i \in 1..Len(es) : fs[i] = es[i]
      BY <1>1
  <1>3. 1..n = 1..Len(es) \cup {n} /\ n \notin 1..Len(es)
      BY <1>1, <1>2
  <1>4. announcedIn(es) \in SUBSET (1..Len(es))
          /\ \A x : AnnouncedFor(es, x) \in SUBSET (1..Len(es))
      BY DEF announcedIn, AnnouncedFor
  <1>5. announcedIn(fs) = IF Announces(e) THEN announcedIn(es) \cup {n} ELSE announcedIn(es)
      BY <1>2, <1>3 DEF announcedIn
  <1>6. ASSUME NEW x, Announces(e), e.index = x PROVE AnnouncedFor(fs, x) = announcedIn(fs)
    <2>1. \A j \in 1..n : n \in j..n
      BY <1>2
    <2> QED BY <1>2, <1>6, <2>1 DEF AnnouncedFor, announcedIn
  <1>7. ASSUME NEW x, ~(Announces(e) /\ e.index = x)
        PROVE AnnouncedFor(fs, x) = AnnouncedFor(es, x)
    <2>1. \A j \in 1..Len(es) : j..n = j..Len(es) \cup {n} /\ j..Len(es) \subseteq 1..Len(es)
      BY <1>1, <1>2
    <2>2. n..n = {n}
      BY <1>2
    <2>3. \A j \in 1..Len(es) : j \in AnnouncedFor(fs, x) <=> j \in AnnouncedFor(es, x)
      BY <1>2, <1>3, <1>7, <2>1 DEF AnnouncedFor
    <2>4. n \notin AnnouncedFor(fs, x)
      BY <1>2, <1>7, <2>2 DEF AnnouncedFor
    <2>5. AnnouncedFor(fs, x) \subseteq 1..n
      BY <1>2 DEF AnnouncedFor
    <2> QED BY <1>3, <1>4, <2>3, <2>4, <2>5
  <1>8. CallCount(es) \in Nat /\ Cardinality(announcedIn(es) \cup {n}) = CallCount(es) + 1
          /\ \A x : CallFor(es, x) \in Nat
      BY <1>1, <1>2, <1>4, CountStep DEF CallCount, CallFor
  <1>9. CallCount(fs) = IF Announces(e) THEN CallCount(es) + 1 ELSE CallCount(es)
      BY <1>5, <1>8 DEF CallCount
  <1>10. \A x : CallFor(fs, x) = IF Announces(e) /\ e.index = x THEN CallCount(es) + 1
           ELSE CallFor(es, x)
    <2> TAKE x
    <2>1. CASE Announces(e) /\ e.index = x
      BY <1>6, <1>9, <2>1 DEF CallFor, CallCount
    <2>2. CASE ~(Announces(e) /\ e.index = x)
      <3>1. CallFor(fs, x) = CallFor(es, x)
        BY <1>7, <2>2 DEF CallFor
      <3> QED BY <2>2, <3>1
    <2> QED BY <2>1, <2>2
  <1>11. callOf(fs, n) = CallFor(fs, e.index)
      BY <1>2, Zenon DEF callOf, CallFor, AnnouncedFor
  <1> QED BY <1>1, <1>8, <1>9, <1>10, <1>11, Zenon DEF CallsGrow

\* An event that announces a tool call says nothing.
LEMMA AnnouncesNothing ==
    ASSUME NEW e, Announces(e)
    PROVE  kindOf(e) \notin Kinds
  <1>1. e.type \in {"content_block_start", "item_added", "tool"}
      BY DEF Announces
  <1>2. kindOf(e) = "none"
      BY <1>1 DEF kindOf
  <1> QED BY <1>2 DEF Kinds

\* The tally of a stream has its type.
LEMMA TallyTyped ==
    ASSUME NEW E, NEW es \in Seq(E), NEW kinds \in SUBSET Kinds
    PROVE  Tally(es, kinds) \in [count : Nat, at : [Nat -> Nat], said : Seq(Pieces)]
  <1>1. contentOf(es, kinds) \in Seq(Pieces)
    <2>1. CASE es = << >>
      <3>1. contentOf(<< >>, kinds) = << >>
        BY DEF contentOf, FlattenSeq
      <3>2. contentOf(es, kinds) = << >>
        BY <2>1, <3>1, Zenon
      <3>3. << >> \in Seq(Pieces)
        OBVIOUS
      <3> QED BY <3>2, <3>3, Zenon
    <2>2. CASE es # << >>
      <3>1. PICK e : e = es[1]
        OBVIOUS
      <3>2. e \in E
        BY <2>2, <3>1
      <3>3. /\ contentOf(es, kinds) \in Seq(Pieces)
            /\ contentOf(Append(es, e), kinds) = contentOf(es, kinds)
                 \o pieceOf(Append(es, e), kinds, Len(es) + 1)
        BY ONLY <3>2, kinds \in SUBSET Kinds, es \in Seq(E), ContentAppend
      <3> QED BY <3>3
    <2> QED BY <2>1, <2>2
  <1>2. Len(es) \in Nat /\ announcedIn(es) \in SUBSET (1..Len(es))
          /\ \A x : AnnouncedFor(es, x) \in SUBSET (1..Len(es))
      BY DEF announcedIn, AnnouncedFor
  <1>3. CallCount(es) \in Nat /\ \A x : CallFor(es, x) \in Nat
      BY <1>2, CountStep DEF CallCount, CallFor
  <1> QED BY <1>1, <1>3 DEF Tally

\* What one event more says.
LEMMA ContentMore ==
    ASSUME NEW E, NEW es \in Seq(E), NEW e \in E, NEW kinds \in SUBSET Kinds
    PROVE  contentOf(Append(es, e), kinds) = contentOf(es, kinds)
             \o Piece(kinds, e, CallFor(Append(es, e), e.index))
  <1>1. PICK fs : fs = Append(es, e)
      OBVIOUS
  <1>2. PICK n : n = Len(es) + 1
      OBVIOUS
  <1>3. fs[n] = e
      BY <1>1, <1>2
  <1>4. callOf(fs, n) = CallFor(fs, e.index)
    <2>1. CallsGrow(es, e, fs)
      BY <1>1, CallsMore
    <2> QED BY <1>2, <2>1, Zenon DEF CallsGrow
  <1>5. contentOf(fs, kinds) = contentOf(es, kinds) \o pieceOf(fs, kinds, n)
      BY <1>1, <1>2, ContentAppend
  <1>6. pieceOf(fs, kinds, n) = Piece(kinds, e, CallFor(fs, e.index))
      BY <1>3, <1>4, Zenon DEF pieceOf, Piece
  <1> QED BY <1>1, <1>5, <1>6, Zenon

\* The tally with one event more.
LEMMA TallyMore ==
    ASSUME NEW E, NEW es \in Seq(E), NEW e \in E, e.index \in Nat, NEW kinds \in SUBSET Kinds
    PROVE  Tally(Append(es, e), kinds) = TallyAfter(Tally(es, kinds), kinds, e)
  <1>1. PICK fs : fs = Append(es, e)
      OBVIOUS
  <1>2. PICK t : t = Tally(es, kinds)
      OBVIOUS
  <1>3. t.count = CallCount(es) /\ t.at = [x \in Nat |-> CallFor(es, x)]
          /\ t.said = contentOf(es, kinds)
      BY <1>2 DEF Tally
  <1>4. /\ CallCount(fs) = IF Announces(e) THEN CallCount(es) + 1 ELSE CallCount(es)
        /\ \A x : CallFor(fs, x) = IF Announces(e) /\ e.index = x THEN CallCount(es) + 1
             ELSE CallFor(es, x)
    <2>1. CallsGrow(es, e, fs)
      BY <1>1, CallsMore
    <2> QED BY <2>1, Zenon DEF CallsGrow
  <1>5. contentOf(fs, kinds) = contentOf(es, kinds) \o Piece(kinds, e, CallFor(fs, e.index))
      BY <1>1, ContentMore
  <1>6. contentOf(es, kinds) \in Seq(Pieces)
      BY <1>2, <1>3, TallyTyped
  <1>7. CASE Announces(e)
    <2>1. Piece(kinds, e, CallFor(fs, e.index)) = << >>
      BY <1>7, AnnouncesNothing DEF Piece
    <2>2. contentOf(fs, kinds) = t.said
      BY <1>3, <1>5, <1>6, <2>1
    <2>3. [x \in Nat |-> CallFor(fs, x)]
            = [x \in Nat |-> IF x = e.index THEN t.count + 1 ELSE t.at[x]]
      BY <1>3, <1>4, <1>7
    <2>4. CallCount(fs) = t.count + 1
      BY <1>3, <1>4, <1>7
    <2> QED BY <1>1, <1>2, <1>7, <2>2, <2>3, <2>4 DEF Tally, TallyAfter
  <1>8. CASE ~Announces(e)
    <2>1. CallFor(fs, e.index) = t.at[e.index] /\ CallCount(fs) = t.count
      BY <1>3, <1>4, <1>8
    <2>2. [x \in Nat |-> CallFor(fs, x)] = t.at
      BY <1>3, <1>4, <1>8
    <2>3. contentOf(fs, kinds) = t.said \o Piece(kinds, e, t.at[e.index])
      BY <1>3, <1>5, <2>1
    <2> QED BY <1>1, <1>2, <1>8, <2>1, <2>2, <2>3 DEF Tally, TallyAfter
  <1> QED BY <1>7, <1>8

TallyType == [count : Nat, at : [Nat -> Nat], said : Seq(Pieces)]

CallMade(t, x) ==
    [count |-> t.count + 1, at |-> [y \in Nat |-> IF y = x THEN t.count + 1 ELSE t.at[y]],
        said |-> t.said]

Spoken(t, p) == [count |-> t.count, at |-> t.at, said |-> t.said \o <<p>>]

CodexKinds == {"text", "tool_use"}

Tallied(t, kinds, e, u) ==
    /\ Announces(e) => u = CallMade(t, e.index)
    /\ ~Announces(e) /\ kindOf(e) \notin kinds => u = t
    /\ ~Announces(e) /\ kindOf(e) = "text" /\ "text" \in kinds => u = Spoken(t, <<"text", 0>>)
    /\ ~Announces(e) /\ kindOf(e) = "tool_use" /\ "tool_use" \in kinds
          => u = Spoken(t, <<"tool_use", t.at[e.index]>>)

\* The four ways an event changes the tally: it announces a call, says
\* nothing, says some text, or a piece of the arguments of a call.
LEMMA Tallies ==
    ASSUME NEW t \in TallyType, NEW kinds, NEW e
    PROVE  Tallied(t, kinds, e, TallyAfter(t, kinds, e))
  <1>1. Announces(e) => TallyAfter(t, kinds, e) = CallMade(t, e.index)
      BY Zenon DEF TallyAfter, CallMade
  <1>2. ASSUME ~Announces(e), kindOf(e) \notin kinds PROVE TallyAfter(t, kinds, e) = t
    <2>1. Piece(kinds, e, t.at[e.index]) = << >>
      BY <1>2, Zenon DEF Piece
    <2>2. t.said \o << >> = t.said /\ t = [count |-> t.count, at |-> t.at, said |-> t.said]
      BY DEF TallyType
    <2>3. TallyAfter(t, kinds, e)
            = [count |-> t.count, at |-> t.at,
               said |-> t.said \o Piece(kinds, e, t.at[e.index])]
      BY <1>2, Zenon DEF TallyAfter
    <2> QED BY <2>1, <2>2, <2>3, Zenon
  <1>3. ASSUME ~Announces(e), kindOf(e) = "text", "text" \in kinds
        PROVE TallyAfter(t, kinds, e) = Spoken(t, <<"text", 0>>)
    <2>1. Piece(kinds, e, t.at[e.index]) = << <<"text", 0>> >>
      BY <1>3 DEF Piece
    <2> QED BY <1>3, <2>1, Zenon DEF TallyAfter, Spoken
  <1>4. ASSUME ~Announces(e), kindOf(e) = "tool_use", "tool_use" \in kinds
        PROVE  TallyAfter(t, kinds, e) = Spoken(t, <<"tool_use", t.at[e.index]>>)
    <2>1. Piece(kinds, e, t.at[e.index]) = << <<"tool_use", t.at[e.index]>> >>
      BY <1>4 DEF Piece
    <2> QED BY <1>4, <2>1, Zenon DEF TallyAfter, Spoken
  <1> QED BY <1>1, <1>2, <1>3, <1>4, Zenon DEF Tallied

\* What the events of the three protocols say.
LEMMA ChatKindOf ==
    ASSUME NEW e \in ChatEvent
    PROVE  /\ Announces(e) <=> e.type = "tool"
           /\ kindOf(e) = IF e.type = "content" THEN "text" ELSE IF e.type = "args"
                THEN "tool_use" ELSE "none"
           /\ e.index \in Nat
  <1>1. e.type \in {"role", "content", "tool", "args", "finish", "done"} /\ e.index \in Nat
      BY DEF ChatEvent, ChatTypes
  <1>2. Announces(e) <=> e.type = "tool"
      BY <1>1 DEF Announces
  <1>3. kindOf(e) = IF e.type = "content" THEN "text" ELSE IF e.type = "args" THEN "tool_use"
          ELSE "none"
      BY <1>1 DEF kindOf
  <1> QED BY <1>1, <1>2, <1>3

\* What the events of the Responses protocol announce and say.
LEMMA RespKindOf ==
    ASSUME NEW e \in RespEvent
    PROVE  /\ Announces(e) <=> e.type = "item_added" /\ e.kind = "function_call"
           /\ kindOf(e) = IF e.type = "text_delta" THEN "text" ELSE IF e.type = "args_delta"
                THEN "tool_use"
                          ELSE IF e.type = "reasoning_delta" THEN "thinking" ELSE "none"
           /\ e.index \in Nat
  <1>1. e.type \in RespTypes /\ e.index \in Nat
      BY DEF RespEvent
  <1>2. Announces(e) <=> e.type = "item_added" /\ e.kind = "function_call"
      BY <1>1 DEF Announces, RespTypes
  <1>3. kindOf(e) = IF e.type = "text_delta" THEN "text" ELSE IF e.type = "args_delta"
          THEN "tool_use"
                    ELSE IF e.type = "reasoning_delta" THEN "thinking" ELSE "none"
      BY <1>1 DEF kindOf, RespTypes
  <1> QED BY <1>1, <1>2, <1>3

\* What the events of the Claude protocol announce and say.
LEMMA ClaudeKindOf ==
    ASSUME NEW e \in ClaudeEvent
    PROVE  /\ Announces(e) <=> e.type = "content_block_start" /\ e.kind = "tool_use"
           /\ kindOf(e) = IF e.type = "content_block_delta" THEN e.kind ELSE "none"
           /\ e.index \in Nat
  <1>1. e.type \in ClaudeTypes /\ e.index \in Nat
      BY DEF ClaudeEvent
  <1>2. Announces(e) <=> e.type = "content_block_start" /\ e.kind = "tool_use"
      BY <1>1 DEF Announces, ClaudeTypes
  <1>3. kindOf(e) = IF e.type = "content_block_delta" THEN e.kind ELSE "none"
      BY <1>1 DEF kindOf, ClaudeTypes
  <1> QED BY <1>1, <1>2, <1>3

\* One event more.
LEMMA TallyStep ==
    ASSUME NEW E, NEW es \in Seq(E), NEW e \in E, e.index \in Nat, NEW kinds \in SUBSET Kinds,
           NEW t, t = Tally(es, kinds), NEW u, u = Tally(Append(es, e), kinds)
    PROVE  t \in TallyType /\ u \in TallyType /\ Tallied(t, kinds, e, u)
  <1>1. t \in TallyType
      BY TallyTyped, Zenon DEF TallyType
  <1>2. u \in TallyType
    <2>1. Append(es, e) \in Seq(E)
      OBVIOUS
    <2> QED BY <2>1, TallyTyped, Zenon DEF TallyType
  <1>3. u = TallyAfter(t, kinds, e)
      BY TallyMore, Zenon
  <1> QED BY <1>1, <1>2, <1>3, Tallies, Zenon

\* What one more event says to a chat client.
LEMMA ChatTally ==
    ASSUME NEW g \in Seq(ChatEvent), NEW x \in ChatTypes, NEW i \in Nat
    PROVE  /\ x = "tool"
                => Tally(Append(g, ChatEv(x, i)), Kinds) = CallMade(Tally(g, Kinds), i)
           /\ x = "content"
                => Tally(Append(g, ChatEv(x, i)), Kinds)
                = Spoken(Tally(g, Kinds), <<"text", 0>>)
           /\ x = "args"
                => Tally(Append(g, ChatEv(x, i)), Kinds)
                = Spoken(Tally(g, Kinds), <<"tool_use", Tally(g, Kinds).at[i]>>)
           /\ x \in {"role", "finish", "done"}
                => Tally(Append(g, ChatEv(x, i)), Kinds) = Tally(g, Kinds)
  <1>1. PICK f \in ChatEvent : f = ChatEv(x, i) /\ f.type = x /\ f.index = i
    <2>1. ChatEv(x, i) \in ChatEvent /\ ChatEv(x, i).type = x /\ ChatEv(x, i).index = i
      BY DEF ChatEv, ChatEvent
    <2> QED BY <2>1, Zenon
  <1>2. PICK t : t = Tally(g, Kinds)
      OBVIOUS
  <1>3. PICK w : w = Tally(Append(g, f), Kinds)
      OBVIOUS
  <1>4. Kinds \in SUBSET Kinds /\ "text" \in Kinds /\ "tool_use" \in Kinds
          /\ "none" \notin Kinds
      BY DEF Kinds
  <1>5. /\ Announces(f) <=> f.type = "tool"
        /\ kindOf(f) = IF f.type = "content" THEN "text" ELSE IF f.type = "args"
             THEN "tool_use" ELSE "none"
      BY ChatKindOf
  <1>6. Tallied(t, Kinds, f, w)
      BY <1>1, <1>2, <1>3, <1>4, TallyStep
  <1>7. /\ Announces(f) => w = CallMade(t, f.index)
        /\ ~Announces(f) /\ kindOf(f) \notin Kinds => w = t
        /\ ~Announces(f) /\ kindOf(f) = "text" /\ "text" \in Kinds
             => w = Spoken(t, <<"text", 0>>)
        /\ ~Announces(f) /\ kindOf(f) = "tool_use" /\ "tool_use" \in Kinds
              => w = Spoken(t, <<"tool_use", t.at[f.index]>>)
      BY <1>6, Zenon DEF Tallied
  <1>8. /\ x = "tool" => w = CallMade(t, i)
        /\ x = "content" => w = Spoken(t, <<"text", 0>>)
        /\ x = "args" => w = Spoken(t, <<"tool_use", t.at[i]>>)
        /\ x \in {"role", "finish", "done"} => w = t
      BY ONLY <1>1, <1>4, <1>5, <1>7
  <1> QED BY <1>1, <1>2, <1>3, <1>8, Zenon

\* The tally of a Responses stream, as it is sent for a chat client.
LEMMA RespChatTally ==
    ASSUME NEW es \in Seq(RespEvent), NEW e \in RespEvent, NEW d \in Seq(ChatEvent),
           NEW c \in OpenCtx,
           Tally(d, Kinds) = Tally(es, CodexKinds)
    PROVE  Tally(d \o RespChatOut(c, e), Kinds) = Tally(Append(es, e), CodexKinds)
  <1>1. PICK t : t = Tally(es, CodexKinds)
      OBVIOUS
  <1>2. PICK u : u = Tally(Append(es, e), CodexKinds)
      OBVIOUS
  <1>3. CodexKinds \in SUBSET Kinds /\ Kinds \in SUBSET Kinds /\ "text" \in CodexKinds
          /\ "tool_use" \in CodexKinds
        /\ "text" \in Kinds /\ "tool_use" \in Kinds /\ "thinking" \notin CodexKinds
             /\ "none" \notin Kinds /\ "none" \notin CodexKinds
      BY DEF CodexKinds, Kinds
  <1>4. /\ Announces(e) <=> e.type = "item_added" /\ e.kind = "function_call"
        /\ kindOf(e) = IF e.type = "text_delta" THEN "text" ELSE IF e.type = "args_delta"
             THEN "tool_use"
                       ELSE IF e.type = "reasoning_delta" THEN "thinking" ELSE "none"
        /\ e.index \in Nat
      BY RespKindOf
  <1>5. /\ Announces(e) => u = CallMade(t, e.index)
        /\ ~Announces(e) /\ kindOf(e) \notin CodexKinds => u = t
        /\ ~Announces(e) /\ kindOf(e) = "text" /\ "text" \in CodexKinds
             => u = Spoken(t, <<"text", 0>>)
        /\ ~Announces(e) /\ kindOf(e) = "tool_use" /\ "tool_use" \in CodexKinds
              => u = Spoken(t, <<"tool_use", t.at[e.index]>>)
    <2>1. Tallied(t, CodexKinds, e, u)
      BY <1>1, <1>2, <1>3, <1>4, TallyStep
    <2> QED BY <2>1, Zenon DEF Tallied
  <1>6. \A x \in ChatTypes, i \in Nat : ChatEv(x, i) \in ChatEvent /\ ChatEv(x, i).type = x
          /\ ChatEv(x, i).index = i
      BY DEF ChatEv, ChatEvent
  <1>8. /\ d \o << >> = d
        /\ \A f \in ChatEvent : d \o <<f>> = Append(d, f)
        /\ \A f, g \in ChatEvent : d \o <<f, g>> = Append(Append(d, f), g)
      BY OneMore
  <1>9. {"role", "content", "tool", "args", "finish", "done"} \subseteq ChatTypes /\ 0 \in Nat
          /\ 1 \in Nat
      BY DEF ChatTypes
  <1>10. Tally(d, Kinds) = t
      BY <1>1
  <1>11. CASE e.type = "text_delta"
    <2>1. u = Spoken(t, <<"text", 0>>)
      BY <1>3, <1>4, <1>5, <1>11
    <2>2. PICK f \in ChatEvent : f = ChatEv("content", e.index)
      BY <1>4, <1>6, <1>9
    <2>3. PICK g \in ChatEvent : g = ChatEv("role", 0)
      BY <1>6, <1>9
    <2>4. CASE c.message_start_sent
      <3>1. RespChatOut(c, e) = <<f>>
        BY <1>11, <2>2, <2>4, Zenon DEF RespChatOut
      <3>2. Tally(Append(d, f), Kinds) = Spoken(t, <<"text", 0>>)
        BY <1>4, <1>9, <1>10, <2>2, ChatTally
      <3> QED BY <1>2, <1>8, <2>1, <3>1, <3>2, Zenon
    <2>5. CASE ~c.message_start_sent
      <3>1. RespChatOut(c, e) = <<g, f>>
        BY <1>11, <2>2, <2>3, <2>5, Zenon DEF RespChatOut
      <3>2. Tally(Append(d, g), Kinds) = t
        <4>1. "role" \in ChatTypes /\ "role" \in {"role", "finish", "done"}
          BY <1>9
        <4> QED BY <1>9, <1>10, <2>3, <4>1, ChatTally
      <3>3. Append(d, g) \in Seq(ChatEvent)
        OBVIOUS
      <3>4. Tally(Append(Append(d, g), f), Kinds) = Spoken(t, <<"text", 0>>)
        BY <1>4, <1>9, <2>2, <3>2, <3>3, ChatTally
      <3> QED BY <1>2, <1>8, <2>1, <3>1, <3>4, Zenon
    <2> QED BY <2>4, <2>5
  <1>12. CASE e.type = "item_added" /\ e.kind = "function_call"
    <2>1. u = CallMade(t, e.index)
      BY <1>3, <1>4, <1>5, <1>12
    <2>2. PICK f \in ChatEvent : f = ChatEv("tool", e.index)
      BY <1>4, <1>6, <1>9
    <2>3. RespChatOut(c, e) = <<f>>
      BY <1>12, <2>2 DEF RespChatOut
    <2>4. Tally(Append(d, f), Kinds) = CallMade(t, e.index)
      BY <1>4, <1>9, <1>10, <2>2, ChatTally
    <2> QED BY <1>2, <1>8, <2>1, <2>3, <2>4, Zenon
  <1>13. CASE e.type = "args_delta"
    <2>1. u = Spoken(t, <<"tool_use", t.at[e.index]>>)
      BY <1>3, <1>4, <1>5, <1>13
    <2>2. PICK f \in ChatEvent : f = ChatEv("args", e.index)
      BY <1>4, <1>6, <1>9
    <2>3. RespChatOut(c, e) = <<f>>
      BY <1>13, <2>2 DEF RespChatOut
    <2>4. Tally(Append(d, f), Kinds) = Spoken(t, <<"tool_use", t.at[e.index]>>)
      BY <1>4, <1>9, <1>10, <2>2, ChatTally
    <2> QED BY <1>2, <1>8, <2>1, <2>3, <2>4, Zenon
  <1>14. CASE e.type \notin {"text_delta", "args_delta"}
           /\ ~(e.type = "item_added" /\ e.kind = "function_call")
    <2>1. u = t
      BY <1>3, <1>4, <1>5, <1>14
    <2>2. CASE e.type \in {"completed", "done"}
      <3>1. PICK x \in {"finish", "done"}, i \in {0, 1} : RespChatOut(c, e) = <<ChatEv(x, i)>>
        BY <2>2 DEF RespChatOut
      <3>2. x \in ChatTypes /\ i \in Nat /\ x \in {"role", "finish", "done"}
        BY <1>9, <3>1
      <3>3. Tally(Append(d, ChatEv(x, i)), Kinds) = t
        BY <1>10, <3>2, ChatTally
      <3>4. d \o <<ChatEv(x, i)>> = Append(d, ChatEv(x, i))
        BY <1>6, <1>8, <3>2, Zenon
      <3> QED BY <1>2, <2>1, <3>1, <3>3, <3>4, Zenon
    <2>3. CASE e.type \notin {"completed", "done"}
      <3>1. RespChatOut(c, e) = << >>
        BY <1>14, <2>3 DEF RespChatOut
      <3> QED BY <1>2, <1>8, <1>10, <2>1, <3>1, Zenon
    <2> QED BY <2>2, <2>3
  <1> QED BY <1>11, <1>12, <1>13, <1>14

\* Of a Claude stream, a chat client is told the text.
LEMMA ClaudeChatTally ==
    ASSUME NEW es \in Seq(ClaudeEvent), NEW e \in ClaudeEvent, NEW d \in Seq(ChatEvent),
           NEW c,
           Tally(d, Kinds).said = Tally(es, {"text"}).said
    PROVE  Tally(d \o OpenAI!claude_stream_to_openai(c, e).out, Kinds).said
             = Tally(Append(es, e), {"text"}).said
  <1>1. PICK t : t = Tally(es, {"text"})
      OBVIOUS
  <1>2. PICK u : u = Tally(Append(es, e), {"text"})
      OBVIOUS
  <1>3. PICK out : out = OpenAI!claude_stream_to_openai(c, e).out
      OBVIOUS
  <1>4. PICK w : w = Tally(d, Kinds)
      OBVIOUS
  <1>5. out = IF e.type = "content_block_delta" /\ e.kind = "text"
          THEN <<ChatEv("content", 0)>>
              ELSE IF e.type = "message_delta" /\ e.kind = "stop" THEN <<ChatEv("finish", 0)>>
              ELSE IF e.type = "message_stop" THEN <<ChatEv("done", 0)>> ELSE << >>
      BY <1>3, ClaudeChat
  <1>6. {"text"} \in SUBSET Kinds /\ "text" \in {"text"} /\ "tool_use" \notin {"text"}
          /\ "none" \notin {"text"}
      BY DEF Kinds
  <1>7. /\ Announces(e) <=> e.type = "content_block_start" /\ e.kind = "tool_use"
        /\ kindOf(e) = IF e.type = "content_block_delta" THEN e.kind ELSE "none"
        /\ e.index \in Nat
      BY ClaudeKindOf
  <1>8. /\ Announces(e) => u = CallMade(t, e.index)
        /\ ~Announces(e) /\ kindOf(e) \notin {"text"} => u = t
        /\ ~Announces(e) /\ kindOf(e) = "text" /\ "text" \in {"text"}
             => u = Spoken(t, <<"text", 0>>)
    <2>1. Tallied(t, {"text"}, e, u)
      BY <1>1, <1>2, <1>6, <1>7, TallyStep
    <2> QED BY <2>1, Zenon DEF Tallied
  <1>9. u.said = IF e.type = "content_block_delta" /\ e.kind = "text"
          THEN t.said \o << <<"text", 0>> >> ELSE t.said
    <2>1. CallMade(t, e.index).said = t.said
            /\ Spoken(t, <<"text", 0>>).said = t.said \o << <<"text", 0>> >>
      BY DEF CallMade, Spoken
    <2> QED BY ONLY <1>6, <1>7, <1>8, <2>1
  <1>10. /\ d \o << >> = d
         /\ \A x \in ChatTypes : d \o <<ChatEv(x, 0)>> = Append(d, ChatEv(x, 0))
    <2>1. \A x \in ChatTypes : ChatEv(x, 0) \in ChatEvent
      BY DEF ChatEv, ChatEvent
    <2> QED BY <2>1, OneMore
  <1>11. {"content", "finish", "done"} \subseteq ChatTypes /\ 0 \in Nat
      BY DEF ChatTypes
  <1>12. CASE e.type = "content_block_delta" /\ e.kind = "text"
    <2>1. Tally(Append(d, ChatEv("content", 0)), Kinds) = Spoken(w, <<"text", 0>>)
      BY <1>4, <1>11, ChatTally
    <2>2. Spoken(w, <<"text", 0>>).said = w.said \o << <<"text", 0>> >>
      BY DEF Spoken
    <2>3. d \o out = Append(d, ChatEv("content", 0))
      BY <1>5, <1>10, <1>11, <1>12
    <2> QED BY <1>1, <1>2, <1>3, <1>4, <1>9, <1>12, <2>1, <2>2, <2>3
  <1>13. CASE ~(e.type = "content_block_delta" /\ e.kind = "text")
    <2>1. Tally(Append(d, ChatEv("finish", 0)), Kinds) = w
            /\ Tally(Append(d, ChatEv("done", 0)), Kinds) = w
      BY <1>4, <1>11, ChatTally
    <2>2. d \o out \in {d, Append(d, ChatEv("finish", 0)), Append(d, ChatEv("done", 0))}
      BY <1>5, <1>10, <1>11, <1>13
    <2>3. Tally(d \o out, Kinds) = w
      BY <1>4, <2>1, <2>2
    <2> QED BY <1>1, <1>2, <1>3, <1>4, <1>9, <1>13, <2>3
  <1> QED BY <1>12, <1>13

-----------------------------------------------------------------------------

\* The results of the converters for Responses clients.
OpenResult == [ctx : OpenCtx, out : Seq(RespEvent)]

Heard(d, r) == Tally(d \o r.out, Kinds)

\* Events a Responses client learns no content from.
Silent(e) == e \in RespEvent /\ ~Announces(e) /\ kindOf(e) \notin Kinds

\* The Responses events that neither announce a call nor say anything.
LEMMA SilentAre ==
    ASSUME NEW type \in RespTypes \ {"text_delta", "args_delta", "reasoning_delta"},
           NEW kind \in RespKinds, NEW x \in Nat, NEW n \in Nat,
           ~(type = "item_added" /\ kind = "function_call")
    PROVE  Silent(OpenAI!resp(type, kind, x, n))
  <1>1. PICK e : e = OpenAI!resp(type, kind, x, n)
      OBVIOUS
  <1>2. e \in RespEvent /\ e.type = type /\ e.kind = kind
      BY <1>1 DEF OpenAI!resp, RespEvent
  <1>3. "none" \notin Kinds
      BY DEF Kinds
  <1>4. ~Announces(e) /\ kindOf(e) = "none"
      BY <1>2, RespKindOf
  <1> QED BY <1>1, <1>2, <1>3, <1>4 DEF Silent

\* One event more for a Responses client.
LEMMA HeardMore ==
    ASSUME NEW d \in Seq(RespEvent), NEW o \in Seq(RespEvent), NEW e \in RespEvent, NEW t,
           t = Tally(d \o o, Kinds),
           NEW u, u = Tally(d \o Append(o, e), Kinds)
    PROVE  t \in TallyType /\ u \in TallyType /\ Tallied(t, Kinds, e, u)
  <1>1. PICK g : g = d \o o
      OBVIOUS
  <1>2. g \in Seq(RespEvent) /\ d \o Append(o, e) = Append(g, e)
      BY <1>1
  <1>3. e.index \in Nat /\ Kinds \in SUBSET Kinds
      BY RespKindOf
  <1>4. u = Tally(Append(g, e), Kinds) /\ t = Tally(g, Kinds)
      BY <1>1, <1>2, Zenon
  <1> QED BY <1>2, <1>3, <1>4, TallyStep

\* A silent event more.
LEMMA SilentMore ==
    ASSUME NEW d \in Seq(RespEvent), NEW o \in Seq(RespEvent), NEW e, Silent(e)
    PROVE  Append(o, e) \in Seq(RespEvent)
             /\ Tally(d \o Append(o, e), Kinds) = Tally(d \o o, Kinds)
  <1>1. e \in RespEvent /\ ~Announces(e) /\ kindOf(e) \notin Kinds
      BY Zenon DEF Silent
  <1>2. PICK t : t = Tally(d \o o, Kinds)
      OBVIOUS
  <1>3. PICK u : u = Tally(d \o Append(o, e), Kinds)
      OBVIOUS
  <1>4. Tallied(t, Kinds, e, u)
      BY <1>1, <1>2, <1>3, HeardMore
  <1>5. u = t
      BY <1>1, <1>4, Zenon DEF Tallied
  <1> QED BY <1>1, <1>2, <1>3, <1>5

\* Two and three silent events.
LEMMA SilentTwo ==
    ASSUME NEW d \in Seq(RespEvent), NEW o \in Seq(RespEvent), NEW a, NEW b, Silent(a),
           Silent(b)
    PROVE  o \o <<a, b>> \in Seq(RespEvent)
             /\ Tally(d \o (o \o <<a, b>>), Kinds) = Tally(d \o o, Kinds)
  <1>1. a \in RespEvent /\ b \in RespEvent
      BY DEF Silent
  <1>2. PICK p : p = Append(o, a)
      OBVIOUS
  <1>3. p \in Seq(RespEvent) /\ Tally(d \o p, Kinds) = Tally(d \o o, Kinds)
      BY <1>2, SilentMore
  <1>4. Append(p, b) \in Seq(RespEvent)
          /\ Tally(d \o Append(p, b), Kinds) = Tally(d \o p, Kinds)
      BY <1>3, SilentMore
  <1>5. o \o <<a, b>> = Append(p, b)
      BY <1>1, <1>2
  <1> QED BY <1>3, <1>4, <1>5

\* Three silent events more.
LEMMA SilentThree ==
    ASSUME NEW d \in Seq(RespEvent), NEW o \in Seq(RespEvent), NEW a, NEW b, NEW c, Silent(a),
           Silent(b), Silent(c)
    PROVE  o \o <<a, b, c>> \in Seq(RespEvent)
             /\ Tally(d \o (o \o <<a, b, c>>), Kinds) = Tally(d \o o, Kinds)
  <1>1. a \in RespEvent /\ b \in RespEvent /\ c \in RespEvent
      BY DEF Silent
  <1>2. PICK p : p = o \o <<a, b>>
      OBVIOUS
  <1>3. p \in Seq(RespEvent) /\ Tally(d \o p, Kinds) = Tally(d \o o, Kinds)
      BY <1>2, SilentTwo
  <1>4. Append(p, c) \in Seq(RespEvent)
          /\ Tally(d \o Append(p, c), Kinds) = Tally(d \o p, Kinds)
      BY <1>3, SilentMore
  <1>5. o \o <<a, b, c>> = Append(p, c)
      BY <1>1, <1>2
  <1> QED BY <1>3, <1>4, <1>5

\* A result after another that says nothing more.
Quietly(d, r, s) == s \in OpenResult /\ Heard(d, s) = Heard(d, r)
    /\ s.ctx.tool_index = r.ctx.tool_index

StillOpen(r, s) == s.ctx.tool_block_started = r.ctx.tool_block_started

\* The parts of a result, and of what emit and emitAll make of it.
LEMMA ResultParts ==
    ASSUME NEW r \in OpenResult
    PROVE  /\ r = [ctx |-> r.ctx, out |-> r.out] /\ r.ctx \in OpenCtx
                /\ r.out \in Seq(RespEvent)
           /\ r.ctx.tool_index \in Nat /\ r.ctx.content_index \in Nat
                /\ r.ctx.tool_arguments \in Nat
           /\ \A e : OpenAI!emit(r, e) = [ctx |-> r.ctx, out |-> Append(r.out, e)]
           /\ \A es : OpenAI!emitAll(r, es) = [ctx |-> r.ctx, out |-> r.out \o es]
  <1>1. r = [ctx |-> r.ctx, out |-> r.out] /\ r.ctx \in OpenCtx /\ r.out \in Seq(RespEvent)
      BY DEF OpenResult
  <1>2. PICK c, o : c = r.ctx /\ o = r.out
      OBVIOUS
  <1>3. r = [ctx |-> c, out |-> o]
      BY <1>1, <1>2, Zenon
  <1>4. \A p : [r EXCEPT !.out = p] = [ctx |-> c, out |-> p]
      BY ONLY <1>3
  <1>5. \A e : OpenAI!emit(r, e) = [ctx |-> r.ctx, out |-> Append(r.out, e)]
      BY <1>2, <1>4, Zenon DEF OpenAI!emit
  <1>6. \A es : OpenAI!emitAll(r, es) = [ctx |-> r.ctx, out |-> r.out \o es]
      BY <1>2, <1>4, Zenon DEF OpenAI!emitAll
  <1>7. r.ctx.tool_index \in Nat /\ r.ctx.content_index \in Nat
          /\ r.ctx.tool_arguments \in Nat
      BY <1>1 DEF OpenCtx
  <1> QED BY <1>1, <1>5, <1>6, <1>7

\* The results with one or two fields of their context set.
LEMMA MessageSet ==
    ASSUME NEW m \in OpenResult, NEW b, NEW x
    PROVE  [m EXCEPT !.ctx.content_block_started = b, !.ctx.content_index = x]
             = [ctx |-> [m.ctx EXCEPT !.content_block_started = b, !.content_index = x],
                 out |-> m.out]
  <1>1. [m EXCEPT !.ctx.content_block_started = b, !.ctx.content_index = x]
          = [m EXCEPT !.ctx = [m.ctx EXCEPT !.content_block_started = b, !.content_index = x]]
      BY DEF OpenResult
  <1>2. \A c : [m EXCEPT !.ctx = c] = [ctx |-> c, out |-> m.out]
      BY DEF OpenResult
  <1> QED BY <1>1, <1>2, Zenon

\* Setting the two fields of the open call in the context of a result.
LEMMA CallSet ==
    ASSUME NEW m \in OpenResult, NEW b, NEW x
    PROVE  [m EXCEPT !.ctx.tool_block_started = b, !.ctx.tool_index = x]
             = [ctx |-> [m.ctx EXCEPT !.tool_block_started = b, !.tool_index = x],
                 out |-> m.out]
  <1>1. [m EXCEPT !.ctx.tool_block_started = b, !.ctx.tool_index = x]
          = [m EXCEPT !.ctx = [m.ctx EXCEPT !.tool_block_started = b, !.tool_index = x]]
      BY DEF OpenResult
  <1>2. \A c : [m EXCEPT !.ctx = c] = [ctx |-> c, out |-> m.out]
      BY DEF OpenResult
  <1> QED BY <1>1, <1>2, Zenon

\* Setting the fields of the call that is done in the context of a result.
LEMMA ArgumentsSet ==
    ASSUME NEW m \in OpenResult, NEW b, NEW x
    PROVE  [m EXCEPT !.ctx.tool_block_started = b, !.ctx.tool_arguments = x]
             = [ctx |-> [m.ctx EXCEPT !.tool_block_started = b, !.tool_arguments = x],
                 out |-> m.out]
  <1>1. [m EXCEPT !.ctx.tool_block_started = b, !.ctx.tool_arguments = x]
          = [m EXCEPT !.ctx = [m.ctx EXCEPT !.tool_block_started = b, !.tool_arguments = x]]
      BY DEF OpenResult
  <1>2. \A c : [m EXCEPT !.ctx = c] = [ctx |-> c, out |-> m.out]
      BY DEF OpenResult
  <1> QED BY <1>1, <1>2, Zenon

\* Setting one field in the context of a result.
LEMMA FieldSet ==
    ASSUME NEW m \in OpenResult, NEW x
    PROVE  /\ [m EXCEPT !.ctx.content_block_started = x]
                = [ctx |-> [m.ctx EXCEPT !.content_block_started = x], out |-> m.out]
           /\ [m EXCEPT !.ctx.tool_block_started = x]
                = [ctx |-> [m.ctx EXCEPT !.tool_block_started = x], out |-> m.out]
           /\ [m EXCEPT !.ctx.tool_arguments = x]
                = [ctx |-> [m.ctx EXCEPT !.tool_arguments = x], out |-> m.out]
           /\ [m EXCEPT !.ctx.current_tool_id = x]
                = [ctx |-> [m.ctx EXCEPT !.current_tool_id = x], out |-> m.out]
           /\ [m EXCEPT !.ctx.message_id = x]
                = [ctx |-> [m.ctx EXCEPT !.message_id = x], out |-> m.out]
           /\ [m EXCEPT !.ctx.message_start_sent = x]
                = [ctx |-> [m.ctx EXCEPT !.message_start_sent = x], out |-> m.out]
           /\ [m EXCEPT !.ctx.finish_reason_sent = x]
                = [ctx |-> [m.ctx EXCEPT !.finish_reason_sent = x], out |-> m.out]
  <1>1. [m EXCEPT !.ctx.content_block_started = x]
          = [ctx |-> [m.ctx EXCEPT !.content_block_started = x], out |-> m.out]
      BY DEF OpenResult
  <1>2. [m EXCEPT !.ctx.tool_block_started = x]
          = [ctx |-> [m.ctx EXCEPT !.tool_block_started = x], out |-> m.out]
      BY DEF OpenResult
  <1>3. [m EXCEPT !.ctx.tool_arguments = x]
          = [ctx |-> [m.ctx EXCEPT !.tool_arguments = x], out |-> m.out]
      BY DEF OpenResult
  <1>4. [m EXCEPT !.ctx.current_tool_id = x]
          = [ctx |-> [m.ctx EXCEPT !.current_tool_id = x], out |-> m.out]
      BY DEF OpenResult
  <1>5. [m EXCEPT !.ctx.message_id = x]
          = [ctx |-> [m.ctx EXCEPT !.message_id = x], out |-> m.out]
      BY DEF OpenResult
  <1>6. [m EXCEPT !.ctx.message_start_sent = x]
          = [ctx |-> [m.ctx EXCEPT !.message_start_sent = x], out |-> m.out]
      BY DEF OpenResult
  <1>7. [m EXCEPT !.ctx.finish_reason_sent = x]
          = [ctx |-> [m.ctx EXCEPT !.finish_reason_sent = x], out |-> m.out]
      BY DEF OpenResult
  <1> QED BY <1>1, <1>2, <1>3, <1>4, <1>5, <1>6, <1>7, Zenon

\* A context and its events make a result.
LEMMA Results ==
    ASSUME NEW c \in OpenCtx, NEW o \in Seq(RespEvent)
    PROVE  [ctx |-> c, out |-> o] \in OpenResult
  BY DEF OpenResult

\* A result with a silent output and a context that keeps the index of the call.
LEMMA QuietResult ==
    ASSUME NEW d, NEW r \in OpenResult, NEW c \in OpenCtx, c.tool_index = r.ctx.tool_index,
           NEW o \in Seq(RespEvent), Tally(d \o o, Kinds) = Tally(d \o r.out, Kinds),
           NEW s, s = [ctx |-> c, out |-> o]
    PROVE  Quietly(d, r, s) /\ s.ctx = c
  <1>1. s \in OpenResult /\ s.ctx = c /\ s.out = o
      BY DEF OpenResult
  <1> QED BY <1>1 DEF Quietly, Heard

\* Two quiet steps are a quiet step.
LEMMA QuietTwice ==
    ASSUME NEW d, NEW r, NEW s, NEW w, Quietly(d, r, s), Quietly(d, s, w)
    PROVE  Quietly(d, r, w)
  BY DEF Quietly

\* Doing nothing is quiet.
LEMMA QuietSame ==
    ASSUME NEW d, NEW r \in OpenResult
    PROVE  Quietly(d, r, r) /\ StillOpen(r, r)
  BY DEF Quietly, StillOpen

\* open_message says nothing.
LEMMA MessageOpensQuietly ==
    ASSUME NEW d \in Seq(RespEvent), NEW r \in OpenResult, NEW x \in Nat, NEW s,
           s = OpenAI!open_message(r, x)
    PROVE  Quietly(d, r, s) /\ StillOpen(r, s) /\ s.ctx.content_index = x
  <1>1. PICK a : a = OpenAI!resp("item_added", "message", x, 0)
      OBVIOUS
  <1>2. PICK b : b = OpenAI!resp("part_added", "text", x, 0)
      OBVIOUS
  <1>3. Silent(a) /\ Silent(b)
      BY <1>1, <1>2, SilentAre DEF RespTypes, RespKinds, ItemKinds
  <1>4. PICK o : o = r.out \o <<a, b>>
      OBVIOUS
  <1>5. r.ctx \in OpenCtx /\ r.out \in Seq(RespEvent)
          /\ OpenAI!emitAll(r, <<a, b>>) = [ctx |-> r.ctx, out |-> o]
      BY <1>4, ResultParts
  <1>6. o \in Seq(RespEvent) /\ Tally(d \o o, Kinds) = Tally(d \o r.out, Kinds)
      BY <1>3, <1>4, <1>5, SilentTwo
  <1>7. PICK c : c = [r.ctx EXCEPT !.content_block_started = TRUE, !.content_index = x]
      OBVIOUS
  <1>8. c \in OpenCtx /\ c.tool_index = r.ctx.tool_index
          /\ c.tool_block_started = r.ctx.tool_block_started /\ c.content_index = x
      BY <1>5, <1>7 DEF OpenCtx
  <1>9. s = [ctx |-> c, out |-> o]
    <2>1. PICK m : m = OpenAI!emitAll(r, <<a, b>>)
      OBVIOUS
    <2>2. s = [m EXCEPT !.ctx.content_block_started = TRUE, !.ctx.content_index = x]
      BY <1>1, <1>2, <2>1, Zenon DEF OpenAI!open_message
    <2>3. m \in OpenResult /\ m.ctx = r.ctx /\ m.out = o
      BY <1>5, <1>6, <2>1, Results
    <2>4. s = [ctx |-> [m.ctx EXCEPT !.content_block_started = TRUE, !.content_index = x],
               out |-> m.out]
      BY <2>2, <2>3, MessageSet, Zenon
    <2> QED BY <1>7, <2>3, <2>4, Zenon
  <1>10. Quietly(d, r, s) /\ s.ctx = c
      BY <1>6, <1>8, <1>9, QuietResult
  <1> QED BY <1>8, <1>10 DEF StillOpen

\* close_message says nothing.
LEMMA MessageClosesQuietly ==
    ASSUME NEW d \in Seq(RespEvent), NEW r \in OpenResult, NEW s, s = OpenAI!close_message(r)
    PROVE  Quietly(d, r, s) /\ StillOpen(r, s)
  <1>0. PICK x \in Nat : x = r.ctx.content_index
      BY ResultParts
  <1>1. PICK a : a = OpenAI!resp("text_done", "text", x, 0)
      OBVIOUS
  <1>2. PICK b : b = OpenAI!resp("part_done", "text", x, 0)
      OBVIOUS
  <1>3. PICK e : e = OpenAI!resp("item_done", "message", x, 0)
      OBVIOUS
  <1>4. Silent(a) /\ Silent(b) /\ Silent(e)
      BY <1>1, <1>2, <1>3, SilentAre DEF RespTypes, RespKinds, ItemKinds
  <1>5. PICK o : o = r.out \o <<a, b, e>>
      OBVIOUS
  <1>6. r.ctx \in OpenCtx /\ r.out \in Seq(RespEvent)
          /\ OpenAI!emitAll(r, <<a, b, e>>) = [ctx |-> r.ctx, out |-> o]
      BY <1>5, ResultParts
  <1>7. o \in Seq(RespEvent) /\ Tally(d \o o, Kinds) = Tally(d \o r.out, Kinds)
      BY <1>4, <1>5, <1>6, SilentThree
  <1>8. PICK c : c = [r.ctx EXCEPT !.content_block_started = FALSE]
      OBVIOUS
  <1>9. c \in OpenCtx /\ c.tool_index = r.ctx.tool_index
          /\ c.tool_block_started = r.ctx.tool_block_started
      BY <1>6, <1>8 DEF OpenCtx
  <1>10. s = [ctx |-> c, out |-> o]
    <2>1. PICK m : m = OpenAI!emitAll(r, <<a, b, e>>)
      OBVIOUS
    <2>2. s = [m EXCEPT !.ctx.content_block_started = FALSE]
      BY <1>0, <1>1, <1>2, <1>3, <2>1, Zenon DEF OpenAI!close_message
    <2>3. m \in OpenResult /\ m.ctx = r.ctx /\ m.out = o
      BY <1>6, <1>7, <2>1, Results
    <2>4. s = [ctx |-> [m.ctx EXCEPT !.content_block_started = FALSE], out |-> m.out]
      BY <2>2, <2>3, FieldSet, Zenon
    <2> QED BY <1>8, <2>3, <2>4, Zenon
  <1>11. Quietly(d, r, s) /\ s.ctx = c
      BY <1>7, <1>9, <1>10, QuietResult
  <1> QED BY <1>9, <1>11 DEF StillOpen

\* call_done says nothing.
LEMMA CallDoneQuietly ==
    ASSUME NEW d \in Seq(RespEvent), NEW r \in OpenResult, NEW s, s = OpenAI!call_done(r)
    PROVE  Quietly(d, r, s) /\ s.ctx = r.ctx
  <1>0. PICK x \in Nat : x = r.ctx.tool_index
      BY ResultParts
  <1>00. PICK n \in Nat : n = r.ctx.tool_arguments
      BY ResultParts
  <1>1. PICK a : a = OpenAI!resp("args_done", "args", x, n)
      OBVIOUS
  <1>2. PICK b : b = OpenAI!resp("item_done", "function_call", x, 0)
      OBVIOUS
  <1>3. Silent(a) /\ Silent(b)
      BY <1>1, <1>2, SilentAre DEF RespTypes, RespKinds, ItemKinds
  <1>4. PICK o : o = r.out \o <<a, b>>
      OBVIOUS
  <1>5. r.ctx \in OpenCtx /\ r.out \in Seq(RespEvent)
          /\ OpenAI!emitAll(r, <<a, b>>) = [ctx |-> r.ctx, out |-> o]
      BY <1>4, ResultParts
  <1>6. o \in Seq(RespEvent) /\ Tally(d \o o, Kinds) = Tally(d \o r.out, Kinds)
      BY <1>3, <1>4, <1>5, SilentTwo
  <1>7. s = [ctx |-> r.ctx, out |-> o]
      BY <1>0, <1>00, <1>1, <1>2, <1>5, Zenon DEF OpenAI!call_done
  <1> QED BY <1>5, <1>6, <1>7, QuietResult

\* complete says nothing.
LEMMA CompleteQuietly ==
    ASSUME NEW d \in Seq(RespEvent), NEW r \in OpenResult, NEW s, s = OpenAI!complete(r)
    PROVE  Quietly(d, r, s) /\ s.ctx = r.ctx
  <1>1. PICK a : a = OpenAI!resp("completed", "none", 0, 0)
      OBVIOUS
  <1>2. PICK b : b = OpenAI!resp("done", "none", 0, 0)
      OBVIOUS
  <1>3. Silent(a) /\ Silent(b)
      BY <1>1, <1>2, SilentAre DEF RespTypes, RespKinds, ItemKinds
  <1>4. PICK o : o = r.out \o <<a, b>>
      OBVIOUS
  <1>5. r.ctx \in OpenCtx /\ r.out \in Seq(RespEvent)
          /\ OpenAI!emitAll(r, <<a, b>>) = [ctx |-> r.ctx, out |-> o]
      BY <1>4, ResultParts
  <1>6. o \in Seq(RespEvent) /\ Tally(d \o o, Kinds) = Tally(d \o r.out, Kinds)
      BY <1>3, <1>4, <1>5, SilentTwo
  <1>7. s = [ctx |-> r.ctx, out |-> o]
      BY <1>1, <1>2, <1>5, Zenon DEF OpenAI!complete
  <1> QED BY <1>5, <1>6, <1>7, QuietResult

\* A context that differs in what the client does not hear of.
LEMMA ContextQuietly ==
    ASSUME NEW d \in Seq(RespEvent), NEW r \in OpenResult, NEW c \in OpenCtx,
           c.tool_index = r.ctx.tool_index, NEW s, s = [ctx |-> c, out |-> r.out]
    PROVE  Quietly(d, r, s) /\ s.ctx = c
  <1>1. r.out \in Seq(RespEvent)
      BY ResultParts
  <1> QED BY <1>1, QuietResult

\* The created event says nothing.
LEMMA CreatedQuietly ==
    ASSUME NEW d \in Seq(RespEvent), NEW r \in OpenResult, NEW c \in OpenCtx,
           c.tool_index = r.ctx.tool_index,
           NEW s, s = [ctx |-> c, out |-> Append(r.out, OpenAI!resp("created", "none", 0, 0))]
    PROVE  Quietly(d, r, s) /\ s.ctx = c
  <1>1. PICK a : a = OpenAI!resp("created", "none", 0, 0)
      OBVIOUS
  <1>2. Silent(a)
      BY <1>1, SilentAre DEF RespTypes, RespKinds, ItemKinds
  <1>3. PICK o : o = Append(r.out, a)
      OBVIOUS
  <1>4. o \in Seq(RespEvent) /\ Tally(d \o o, Kinds) = Tally(d \o r.out, Kinds)
      BY <1>2, <1>3, SilentMore, ResultParts
  <1>5. s = [ctx |-> c, out |-> o]
      BY <1>1, <1>3, Zenon
  <1> QED BY <1>4, <1>5, QuietResult

-----------------------------------------------------------------------------

CallTold(d, r, x, s) ==
    s \in OpenResult /\ Heard(d, s) = CallMade(Heard(d, r), x) /\ s.ctx.tool_index = x
        /\ s.ctx.tool_block_started = TRUE

\* open_call announces one call.
LEMMA CallOpensHeard ==
    ASSUME NEW d \in Seq(RespEvent), NEW r \in OpenResult, NEW x \in Nat, NEW s,
           s = OpenAI!open_call(r, x)
    PROVE  CallTold(d, r, x, s)
  <1>1. PICK e : e = OpenAI!resp("item_added", "function_call", x, 0)
      OBVIOUS
  <1>2. e \in RespEvent /\ e.type = "item_added" /\ e.kind = "function_call" /\ e.index = x
      BY <1>1 DEF OpenAI!resp, RespEvent, RespTypes, RespKinds, ItemKinds
  <1>3. Announces(e)
      BY <1>2, RespKindOf
  <1>4. PICK o : o = Append(r.out, e)
      OBVIOUS
  <1>5. r.ctx \in OpenCtx /\ r.out \in Seq(RespEvent)
          /\ OpenAI!emit(r, e) = [ctx |-> r.ctx, out |-> o]
      BY <1>4, ResultParts
  <1>6. o \in Seq(RespEvent)
          /\ Tallied(Tally(d \o r.out, Kinds), Kinds, e, Tally(d \o o, Kinds))
      BY <1>2, <1>4, <1>5, HeardMore
  <1>7. Tally(d \o o, Kinds) = CallMade(Tally(d \o r.out, Kinds), x)
      BY <1>2, <1>3, <1>6, Zenon DEF Tallied
  <1>8. PICK c : c = [r.ctx EXCEPT !.tool_block_started = TRUE, !.tool_index = x]
      OBVIOUS
  <1>9. c \in OpenCtx /\ c.tool_index = x /\ c.tool_block_started = TRUE
      BY <1>5, <1>8 DEF OpenCtx
  <1>10. s = [ctx |-> c, out |-> o]
    <2>1. PICK m : m = OpenAI!emit(r, e)
      OBVIOUS
    <2>2. s = [m EXCEPT !.ctx.tool_block_started = TRUE, !.ctx.tool_index = x]
      BY <1>1, <2>1, Zenon DEF OpenAI!open_call
    <2>3. m \in OpenResult /\ m.ctx = r.ctx /\ m.out = o
      BY <1>5, <1>6, <2>1, Results
    <2>4. s = [ctx |-> [m.ctx EXCEPT !.tool_block_started = TRUE, !.tool_index = x],
               out |-> m.out]
      BY <2>2, <2>3, CallSet, Zenon
    <2> QED BY <1>8, <2>3, <2>4, Zenon
  <1>11. s \in OpenResult /\ s.ctx = c /\ s.out = o
      BY <1>6, <1>9, <1>10 DEF OpenResult
  <1> QED BY <1>7, <1>9, <1>11 DEF CallTold, Heard

\* args_delta says a piece of the arguments of the call of the context.
LEMMA ArgsHeard ==
    ASSUME NEW d \in Seq(RespEvent), NEW r \in OpenResult, NEW s, s = OpenAI!args_delta(r)
    PROVE  /\ s \in OpenResult
                /\ Heard(d, s)
                = Spoken(Heard(d, r), <<"tool_use", Heard(d, r).at[r.ctx.tool_index]>>)
           /\ s.ctx.tool_index = r.ctx.tool_index /\ StillOpen(r, s)
  <1>0. PICK x \in Nat : x = r.ctx.tool_index
      BY ResultParts
  <1>1. PICK e : e = OpenAI!resp("args_delta", "args", x, 0)
      OBVIOUS
  <1>2. e \in RespEvent /\ e.type = "args_delta" /\ e.kind = "args" /\ e.index = x
      BY <1>1 DEF OpenAI!resp, RespEvent, RespTypes, RespKinds, ItemKinds
  <1>3. ~Announces(e) /\ kindOf(e) = "tool_use" /\ "tool_use" \in Kinds
      BY <1>2, RespKindOf DEF Kinds
  <1>4. PICK o : o = Append(r.out, e)
      OBVIOUS
  <1>5. r.ctx \in OpenCtx /\ r.out \in Seq(RespEvent)
          /\ OpenAI!emit(r, e) = [ctx |-> r.ctx, out |-> o]
      BY <1>4, ResultParts
  <1>6. o \in Seq(RespEvent)
          /\ Tallied(Tally(d \o r.out, Kinds), Kinds, e, Tally(d \o o, Kinds))
      BY <1>2, <1>4, <1>5, HeardMore
  <1>7. Tally(d \o o, Kinds)
          = Spoken(Tally(d \o r.out, Kinds), <<"tool_use", Tally(d \o r.out, Kinds).at[x]>>)
      BY <1>2, <1>3, <1>6, Zenon DEF Tallied
  <1>8. PICK c : c = [r.ctx EXCEPT !.tool_arguments = r.ctx.tool_arguments + 1]
      OBVIOUS
  <1>9. c \in OpenCtx /\ c.tool_index = x /\ c.tool_block_started = r.ctx.tool_block_started
    <2>1. PICK k \in Nat : k = r.ctx.tool_arguments
      BY ResultParts
    <2>2. PICK n \in Nat : n = r.ctx.tool_arguments + 1
      BY <2>1
    <2>3. PICK q \in OpenCtx : q = r.ctx
      BY <1>5
    <2>4. c = [q EXCEPT !.tool_arguments = n] /\ q.tool_index = x
      BY <1>0, <1>8, <2>2, <2>3
    <2>5. c \in OpenCtx /\ c.tool_index = q.tool_index
            /\ c.tool_block_started = q.tool_block_started
      BY ONLY <2>4, n \in Nat, q \in OpenCtx DEF OpenCtx
    <2> QED BY <2>3, <2>4, <2>5
  <1>10. s = [ctx |-> c, out |-> o]
    <2>1. PICK m : m = OpenAI!emit(r, e)
      OBVIOUS
    <2>2. s = [m EXCEPT !.ctx.tool_arguments = m.ctx.tool_arguments + 1]
      BY <1>0, <1>1, <2>1, Zenon DEF OpenAI!args_delta
    <2>3. m \in OpenResult /\ m.ctx = r.ctx /\ m.out = o
      BY <1>5, <1>6, <2>1, Results
    <2>4. s = [m EXCEPT !.ctx.tool_arguments = r.ctx.tool_arguments + 1]
      BY <2>2, <2>3, Zenon
    <2>5. s = [ctx |-> [m.ctx EXCEPT !.tool_arguments = r.ctx.tool_arguments + 1],
               out |-> m.out]
      BY <2>3, <2>4, FieldSet, Zenon
    <2> QED BY <1>8, <2>3, <2>5, Zenon
  <1>11. s \in OpenResult /\ s.ctx = c /\ s.out = o
      BY <1>6, <1>9, <1>10 DEF OpenResult
  <1> QED BY <1>0, <1>7, <1>9, <1>11 DEF Heard, StillOpen

\* A text_delta says a piece of text.
LEMMA TextHeard ==
    ASSUME NEW d \in Seq(RespEvent), NEW r \in OpenResult, NEW x \in Nat, NEW s,
           s = OpenAI!emit(r, OpenAI!resp("text_delta", "text", x, 0))
    PROVE  s \in OpenResult /\ Heard(d, s) = Spoken(Heard(d, r), <<"text", 0>>)
             /\ s.ctx = r.ctx
  <1>1. PICK e : e = OpenAI!resp("text_delta", "text", x, 0)
      OBVIOUS
  <1>2. e \in RespEvent /\ e.type = "text_delta" /\ e.kind = "text" /\ e.index = x
      BY <1>1 DEF OpenAI!resp, RespEvent, RespTypes, RespKinds, ItemKinds
  <1>3. ~Announces(e) /\ kindOf(e) = "text" /\ "text" \in Kinds
      BY <1>2, RespKindOf DEF Kinds
  <1>4. PICK o : o = Append(r.out, e)
      OBVIOUS
  <1>5. r.ctx \in OpenCtx /\ r.out \in Seq(RespEvent)
          /\ OpenAI!emit(r, e) = [ctx |-> r.ctx, out |-> o]
      BY <1>4, ResultParts
  <1>6. o \in Seq(RespEvent)
          /\ Tallied(Tally(d \o r.out, Kinds), Kinds, e, Tally(d \o o, Kinds))
      BY <1>2, <1>4, <1>5, HeardMore
  <1>7. Tally(d \o o, Kinds) = Spoken(Tally(d \o r.out, Kinds), <<"text", 0>>)
      BY <1>3, <1>6, Zenon DEF Tallied
  <1>8. s = [ctx |-> r.ctx, out |-> o]
      BY <1>1, <1>5, Zenon
  <1>9. s \in OpenResult /\ s.ctx = r.ctx /\ s.out = o
      BY <1>5, <1>6, <1>8 DEF OpenResult
  <1> QED BY <1>7, <1>9 DEF Heard

\* The item of the call a Claude upstream is sending is the one open.
KeepsCall(v, c) == v.kind = "tool_use"
    => c.tool_block_started = TRUE /\ c.tool_index = v.blocks - 1

\* claude_block_start and claude_block_delta.
StartHeard(d, r, k, x, s) ==
    /\ s \in OpenResult
    /\ k = "tool_use"
         => Heard(d, s) = CallMade(Heard(d, r), x) /\ s.ctx.tool_index = x
         /\ s.ctx.tool_block_started = TRUE
    /\ k # "tool_use" => Heard(d, s) = Heard(d, r)

DeltaHeard(d, r, k, x, s) ==
    /\ s \in OpenResult
    /\ k = "text" => Heard(d, s) = Spoken(Heard(d, r), <<"text", 0>>)
    /\ k = "thinking" => Heard(d, s) = Heard(d, r)
    /\ k = "tool_use" => Heard(d, s) = Spoken(Heard(d, r), <<"tool_use", Heard(d, r).at[x]>>)
    /\ s.ctx.tool_block_started = r.ctx.tool_block_started
         /\ s.ctx.tool_index = r.ctx.tool_index

\* claude_block_start announces the call of a tool_use block, and else says
\* nothing.
LEMMA BlockStartHeard ==
    ASSUME NEW d \in Seq(RespEvent), NEW r \in OpenResult, NEW k \in Kinds, NEW x \in Nat,
           NEW e, e = ClaudeEv("content_block_start", k, x),
           NEW s, s = OpenAI!claude_block_start(r, e)
    PROVE  StartHeard(d, r, k, x, s)
  <1>1. e.kind = k /\ e.index = x /\ k \in {"text", "thinking", "tool_use"}
      BY DEF ClaudeEv, Kinds
  <1>2. s = IF k = "text" THEN OpenAI!open_message(r, x)
            ELSE IF k = "tool_use"
                THEN [OpenAI!open_call(r, x) EXCEPT !.ctx.current_tool_id = TRUE] ELSE r
      BY <1>1 DEF OpenAI!claude_block_start
  <1>3. CASE k = "text"
    <2>1. Quietly(d, r, s)
      BY <1>2, <1>3, MessageOpensQuietly
    <2> QED BY <1>3, <2>1 DEF Quietly, StartHeard
  <1>4. CASE k = "tool_use"
    <2>1. PICK m : m = OpenAI!open_call(r, x)
      OBVIOUS
    <2>2. m \in OpenResult /\ Heard(d, m) = CallMade(Heard(d, r), x) /\ m.ctx.tool_index = x
            /\ m.ctx.tool_block_started = TRUE
      <3>1. CallTold(d, r, x, m)
        BY <2>1, CallOpensHeard
      <3> QED BY <3>1, Zenon DEF CallTold
    <2>3. s = [m EXCEPT !.ctx.current_tool_id = TRUE]
      BY <1>2, <1>4, <2>1
    <2>4. PICK c : c = [m.ctx EXCEPT !.current_tool_id = TRUE]
      OBVIOUS
    <2>5. m.ctx \in OpenCtx
      BY <2>2, ResultParts
    <2>6. c \in OpenCtx /\ c.tool_index = m.ctx.tool_index
            /\ c.tool_block_started = m.ctx.tool_block_started
      BY <2>4, <2>5 DEF OpenCtx
    <2>7. s = [ctx |-> c, out |-> m.out]
      BY <2>2, <2>3, <2>4, FieldSet, Zenon
    <2>8. Quietly(d, m, s) /\ s.ctx = c
      BY <2>2, <2>6, <2>7, ContextQuietly
    <2>9. s \in OpenResult /\ Heard(d, s) = Heard(d, m)
      BY <2>8, Zenon DEF Quietly
    <2> QED BY <1>4, <2>2, <2>6, <2>8, <2>9 DEF StartHeard
  <1>5. CASE k = "thinking"
      BY <1>2, <1>5 DEF StartHeard
  <1> QED BY <1>1, <1>3, <1>4, <1>5

\* claude_block_delta says what the delta says.
LEMMA BlockDeltaHeard ==
    ASSUME NEW d \in Seq(RespEvent), NEW r \in OpenResult, NEW k \in Kinds, NEW x \in Nat,
           NEW e, e = ClaudeEv("content_block_delta", k, x),
           k = "tool_use" => r.ctx.tool_block_started = TRUE /\ r.ctx.tool_index = x,
           NEW s, s = OpenAI!claude_block_delta(r, e)
    PROVE  DeltaHeard(d, r, k, x, s)
  <1>1. e.kind = k /\ e.index = x /\ k \in {"text", "thinking", "tool_use"}
      BY DEF ClaudeEv, Kinds
  <1>2. PICK m : m = IF r.ctx.message_id THEN r
                     ELSE [OpenAI!emit(r, OpenAI!resp("created", "none", 0, 0)) EXCEPT !.ctx.message_id = TRUE]
      OBVIOUS
  <1>3. PICK p : p = IF m.ctx.content_block_started THEN m ELSE OpenAI!open_message(m, x)
      OBVIOUS
  <1>4. PICK q : q = IF m.ctx.tool_block_started THEN m ELSE OpenAI!open_call(m, x)
      OBVIOUS
  <1>5. s = CASE k
          = "text" -> OpenAI!emit(p, OpenAI!resp("text_delta", "text", p.ctx.content_index, 0))
              [] k = "tool_use" -> OpenAI!args_delta(q)
              [] OTHER -> m
      BY <1>1, <1>2, <1>3, <1>4, Zenon DEF OpenAI!claude_block_delta
  <1>6. Quietly(d, r, m) /\ StillOpen(r, m)
    <2>1. CASE r.ctx.message_id
      BY <1>2, <2>1, QuietSame
    <2>2. CASE ~r.ctx.message_id
      <3>1. PICK a : a = OpenAI!emit(r, OpenAI!resp("created", "none", 0, 0))
        OBVIOUS
      <3>2. r.ctx \in OpenCtx /\ r.out \in Seq(RespEvent)
              /\ a = [ctx |-> r.ctx,
                      out |-> Append(r.out, OpenAI!resp("created", "none", 0, 0))]
        BY <3>1, ResultParts
      <3>3. PICK c : c = [r.ctx EXCEPT !.message_id = TRUE]
        OBVIOUS
      <3>4. c \in OpenCtx /\ c.tool_index = r.ctx.tool_index
              /\ c.tool_block_started = r.ctx.tool_block_started
        BY <3>2, <3>3 DEF OpenCtx
      <3>5. Quietly(d, r, a) /\ a.ctx = r.ctx
        BY <3>2, CreatedQuietly
      <3>6. a \in OpenResult /\ a.out = Append(r.out, OpenAI!resp("created", "none", 0, 0))
        BY <3>2, <3>5 DEF Quietly
      <3>7. m = [a EXCEPT !.ctx.message_id = TRUE]
        BY <1>2, <2>2, <3>1, Zenon
      <3>8. m = [ctx |-> c, out |-> a.out]
        <4>1. m = [ctx |-> [a.ctx EXCEPT !.message_id = TRUE], out |-> a.out]
          BY <3>6, <3>7, FieldSet, Zenon
        <4> QED BY <3>3, <3>5, <4>1, Zenon
      <3>9. Quietly(d, r, m) /\ m.ctx = c
        BY <3>4, <3>6, <3>8, CreatedQuietly
      <3> QED BY <3>4, <3>9 DEF StillOpen
    <2> QED BY <2>1, <2>2
  <1>7. /\ m \in OpenResult /\ Heard(d, m) = Heard(d, r)
        /\ m.ctx.tool_block_started = r.ctx.tool_block_started
             /\ m.ctx.tool_index = r.ctx.tool_index
      BY <1>6, Zenon DEF Quietly, StillOpen
  <1>8. CASE k = "text"
    <2>1. Quietly(d, m, p) /\ StillOpen(m, p)
      <3>1. CASE m.ctx.content_block_started
        BY <1>3, <1>7, <3>1, QuietSame
      <3>2. CASE ~m.ctx.content_block_started
        BY <1>3, <1>7, <3>2, MessageOpensQuietly
      <3> QED BY <3>1, <3>2
    <2>2. /\ p \in OpenResult /\ Heard(d, p) = Heard(d, m)
          /\ p.ctx.tool_block_started = m.ctx.tool_block_started
               /\ p.ctx.tool_index = m.ctx.tool_index
      BY <2>1, Zenon DEF Quietly, StillOpen
    <2>3. PICK y \in Nat : y = p.ctx.content_index
      BY <2>2, ResultParts
    <2>4. s = OpenAI!emit(p, OpenAI!resp("text_delta", "text", y, 0))
      BY <1>5, <1>8, <2>3
    <2>5. s \in OpenResult /\ Heard(d, s) = Spoken(Heard(d, p), <<"text", 0>>)
            /\ s.ctx = p.ctx
      BY <2>2, <2>4, TextHeard
    <2> QED BY <1>7, <1>8, <2>2, <2>5 DEF DeltaHeard
  <1>9. CASE k = "tool_use"
    <2>1. q = m
      BY <1>4, <1>7, <1>9
    <2>2. s = OpenAI!args_delta(m)
      BY <1>5, <1>9, <2>1
    <2>3. /\ s \in OpenResult
               /\ Heard(d, s)
               = Spoken(Heard(d, m), <<"tool_use", Heard(d, m).at[m.ctx.tool_index]>>)
          /\ s.ctx.tool_index = m.ctx.tool_index /\ StillOpen(m, s)
      BY <1>7, <2>2, ArgsHeard
    <2> QED BY <1>7, <1>9, <2>3 DEF StillOpen, DeltaHeard
  <1>10. CASE k = "thinking"
    <2>1. s = m
      BY <1>5, <1>10
    <2> QED BY <1>7, <1>10, <2>1 DEF DeltaHeard
  <1> QED BY <1>1, <1>8, <1>9, <1>10

\* claude_block_stop.
LEMMA BlockStopQuietly ==
    ASSUME NEW d \in Seq(RespEvent), NEW r \in OpenResult, NEW e, NEW s,
           s = OpenAI!claude_block_stop(r, e)
    PROVE  Quietly(d, r, s)
  <1>1. CASE r.ctx.tool_block_started /\ e.index = r.ctx.tool_index
    <2>1. PICK m : m = OpenAI!call_done(r)
      OBVIOUS
    <2>2. Quietly(d, r, m) /\ m.ctx = r.ctx
      BY <2>1, CallDoneQuietly
    <2>3. m \in OpenResult /\ r.ctx \in OpenCtx
      BY <2>2, ResultParts DEF Quietly
    <2>4. PICK c : c = [m.ctx EXCEPT !.tool_block_started = FALSE, !.tool_arguments = 0]
      OBVIOUS
    <2>5. c \in OpenCtx /\ c.tool_index = m.ctx.tool_index
      BY <2>2, <2>3, <2>4 DEF OpenCtx
    <2>6. s = [m EXCEPT !.ctx.tool_block_started = FALSE, !.ctx.tool_arguments = 0]
      BY <1>1, <2>1 DEF OpenAI!claude_block_stop
    <2>7. s = [ctx |-> c, out |-> m.out]
      BY <2>3, <2>4, <2>6, ArgumentsSet, Zenon
    <2>8. Quietly(d, m, s)
      BY <2>3, <2>5, <2>7, ContextQuietly
    <2> QED BY <2>2, <2>8, QuietTwice
  <1>2. CASE ~(r.ctx.tool_block_started /\ e.index = r.ctx.tool_index)
               /\ r.ctx.content_block_started /\ e.index = r.ctx.content_index
    <2>1. s = OpenAI!close_message(r)
      BY <1>2 DEF OpenAI!claude_block_stop
    <2> QED BY <2>1, MessageClosesQuietly
  <1>3. CASE ~(r.ctx.tool_block_started /\ e.index = r.ctx.tool_index)
               /\ ~(r.ctx.content_block_started /\ e.index = r.ctx.content_index)
    <2>1. s = r
      BY <1>3 DEF OpenAI!claude_block_stop
    <2> QED BY <2>1, QuietSame
  <1> QED BY <1>1, <1>2, <1>3

\* What is sent a Responses client of the events of a Claude upstream.
ClaudeResp(d, es, c) ==
    Tally(d, Kinds) = Tally(es, CodexKinds) /\ KeepsCall(CView(es), c)

\* claude_stream_to_openai_responses: the client is told what the upstream
\* sent.
LEMMA ClaudeRespTally ==
    ASSUME NEW es, CValid(es), NEW e \in ClaudeEvent, VMay(CView(es), e),
           CView(Append(es, e)) = VAfter(CView(es), e),
           NEW d \in Seq(RespEvent), NEW c \in OpenCtx, ClaudeResp(d, es, c),
           NEW s, s = OpenAI!claude_stream_to_openai_responses(c, e)
    PROVE  s \in OpenResult /\ ClaudeResp(d \o s.out, Append(es, e), s.ctx)
  <1>1. PICK r : r = [ctx |-> c, out |-> << >>]
      OBVIOUS
  <1>2. r \in OpenResult /\ r.ctx = c /\ r.out = << >>
      BY <1>1 DEF OpenResult
  <1>3. PICK t : t = Tally(es, CodexKinds)
      OBVIOUS
  <1>4. PICK u : u = Tally(Append(es, e), CodexKinds)
      OBVIOUS
  <1>5. PICK v : v = CView(es)
      OBVIOUS
  <1>6. Heard(d, r) = t /\ KeepsCall(v, c)
    <2>1. d \o << >> = d
      BY OneMore
    <2> QED BY <1>2, <1>3, <1>5, <2>1 DEF Heard, ClaudeResp
  <1>7. v \in ViewType /\ (v.kind # "none" => v.blocks > 0) /\ es \in Seq(ClaudeEvent)
          /\ v.blocks \in Nat
      BY <1>5, ViewOfValid DEF ViewType
  <1>8. /\ Announces(e) <=> e.type = "content_block_start" /\ e.kind = "tool_use"
        /\ kindOf(e) = IF e.type = "content_block_delta" THEN e.kind ELSE "none"
        /\ e.index \in Nat
      BY ClaudeKindOf
  <1>9. CodexKinds \in SUBSET Kinds /\ "text" \in CodexKinds /\ "tool_use" \in CodexKinds
          /\ "thinking" \notin CodexKinds /\ "none" \notin CodexKinds
      BY DEF CodexKinds, Kinds
  <1>10. /\ Announces(e) => u = CallMade(t, e.index)
         /\ ~Announces(e) /\ kindOf(e) \notin CodexKinds => u = t
         /\ ~Announces(e) /\ kindOf(e) = "text" /\ "text" \in CodexKinds
              => u = Spoken(t, <<"text", 0>>)
         /\ ~Announces(e) /\ kindOf(e) = "tool_use" /\ "tool_use" \in CodexKinds
               => u = Spoken(t, <<"tool_use", t.at[e.index]>>)
    <2>1. Tallied(t, CodexKinds, e, u)
      BY <1>3, <1>4, <1>7, <1>8, <1>9, TallyStep
    <2> QED BY <2>1, Zenon DEF Tallied
  <1>11. /\ VAfter(v, e).kind = IF e.type = "content_block_start" THEN e.kind
                                ELSE IF e.type = "content_block_stop" THEN "none" ELSE v.kind
         /\ VAfter(v, e).blocks = IF e.type = "content_block_start" THEN v.blocks + 1
              ELSE v.blocks
      BY DEF VAfter
  <1>12. VMay(v, e) /\ CView(Append(es, e)) = VAfter(v, e)
      BY <1>5
  <1>13. SUFFICES s \in OpenResult /\ Heard(d, s) = u /\ KeepsCall(VAfter(v, e), s.ctx)
      BY <1>4, <1>12, Zenon DEF ClaudeResp, Heard
  <1>14. s = CASE e.type
           = "message_start" -> [OpenAI!emit(r, OpenAI!resp("created", "none", 0, 0)) EXCEPT !.ctx.message_id = TRUE]
               [] e.type = "content_block_start" -> OpenAI!claude_block_start(r, e)
               [] e.type = "content_block_delta" -> OpenAI!claude_block_delta(r, e)
               [] e.type = "content_block_stop" -> OpenAI!claude_block_stop(r, e)
               [] e.type = "message_stop" -> OpenAI!complete(IF c.tool_block_started
                   THEN OpenAI!call_done(r) ELSE r)
               [] OTHER -> r
      BY <1>1, Zenon DEF OpenAI!claude_stream_to_openai_responses
  <1>15. CASE e.type = "message_start"
    <2>1. u = t
      BY <1>8, <1>9, <1>10, <1>15
    <2>2. PICK a : a = OpenAI!emit(r, OpenAI!resp("created", "none", 0, 0))
      OBVIOUS
    <2>3. a = [ctx |-> r.ctx, out |-> Append(r.out, OpenAI!resp("created", "none", 0, 0))]
      BY <1>2, <2>2, ResultParts
    <2>4. Quietly(d, r, a) /\ a.ctx = r.ctx
      BY <1>2, <2>3, CreatedQuietly
    <2>5. a \in OpenResult
      BY <2>4 DEF Quietly
    <2>6. PICK b : b = [c EXCEPT !.message_id = TRUE]
      OBVIOUS
    <2>7. b \in OpenCtx /\ b.tool_index = c.tool_index
            /\ b.tool_block_started = c.tool_block_started
      BY <2>6 DEF OpenCtx
    <2>8. s = [a EXCEPT !.ctx.message_id = TRUE]
      BY <1>14, <1>15, <2>2
    <2>9. s = [ctx |-> [a.ctx EXCEPT !.message_id = TRUE], out |-> a.out]
      BY <2>5, <2>8, FieldSet, Zenon
    <2>10. s = [ctx |-> b, out |-> a.out]
      BY <1>2, <2>4, <2>6, <2>9, Zenon
    <2>11. Quietly(d, a, s) /\ s.ctx = b
      BY <1>2, <2>4, <2>5, <2>7, <2>10, ContextQuietly
    <2>12. s \in OpenResult /\ Heard(d, s) = t
      BY <1>6, <2>4, <2>11 DEF Quietly
    <2>13. KeepsCall(VAfter(v, e), b)
      BY <1>6, <1>11, <1>15, <2>7 DEF KeepsCall
    <2> QED BY <2>1, <2>11, <2>12, <2>13
  <1>16. CASE e.type = "content_block_start"
    <2>1. PICK k \in Kinds : e = ClaudeEv("content_block_start", k, v.blocks)
      BY <1>12, <1>16 DEF VMay, ClaudeEv
    <2>2. e.kind = k /\ e.index = v.blocks
      BY <2>1 DEF ClaudeEv
    <2>3. s = OpenAI!claude_block_start(r, e)
      BY <1>14, <1>16
    <2>4. /\ s \in OpenResult
          /\ k = "tool_use"
               => Heard(d, s) = CallMade(Heard(d, r), v.blocks) /\ s.ctx.tool_index = v.blocks
               /\ s.ctx.tool_block_started = TRUE
          /\ k # "tool_use" => Heard(d, s) = Heard(d, r)
      <3>1. StartHeard(d, r, k, v.blocks, s)
        BY <1>2, <1>7, <2>1, <2>3, BlockStartHeard
      <3> QED BY <3>1, Zenon DEF StartHeard
    <2>5. Heard(d, s) = u
      BY <1>6, <1>8, <1>9, <1>10, <1>16, <2>2, <2>4
    <2>6. KeepsCall(VAfter(v, e), s.ctx)
      BY <1>7, <1>11, <1>16, <2>2, <2>4 DEF KeepsCall
    <2> QED BY <2>4, <2>5, <2>6
  <1>17. CASE e.type = "content_block_delta"
    <2>1. e = ClaudeEv("content_block_delta", v.kind, v.blocks - 1) /\ v.kind # "none"
      BY <1>12, <1>17 DEF VMay, ClaudeEv
    <2>2. e.kind = v.kind /\ e.index = v.blocks - 1 /\ v.kind \in Kinds
            /\ v.blocks - 1 \in Nat
      BY <1>7, <2>1 DEF ClaudeEv, ViewType
    <2>3. s = OpenAI!claude_block_delta(r, e)
      BY <1>14, <1>17
    <2>4. v.kind = "tool_use"
            => r.ctx.tool_block_started = TRUE /\ r.ctx.tool_index = v.blocks - 1
      BY <1>2, <1>6 DEF KeepsCall
    <2>5. /\ s \in OpenResult
          /\ v.kind = "text" => Heard(d, s) = Spoken(Heard(d, r), <<"text", 0>>)
          /\ v.kind = "thinking" => Heard(d, s) = Heard(d, r)
          /\ v.kind = "tool_use"
               => Heard(d, s)
               = Spoken(Heard(d, r), <<"tool_use", Heard(d, r).at[v.blocks - 1]>>)
          /\ s.ctx.tool_block_started = r.ctx.tool_block_started
               /\ s.ctx.tool_index = r.ctx.tool_index
      <3>1. PICK k \in Kinds, x \in Nat : k = v.kind /\ x = v.blocks - 1
        BY <2>2
      <3>2. DeltaHeard(d, r, k, x, s)
        BY <1>2, <2>1, <2>3, <2>4, <3>1, BlockDeltaHeard
      <3> QED BY <3>1, <3>2, Zenon DEF DeltaHeard
    <2>6. v.kind \in {"text", "thinking", "tool_use"}
      BY <2>2 DEF Kinds
    <2>7. Heard(d, s) = u
      BY <1>6, <1>8, <1>9, <1>10, <1>17, <2>2, <2>5, <2>6
    <2>8. KeepsCall(VAfter(v, e), s.ctx)
      BY <1>2, <1>6, <1>11, <1>17, <2>5 DEF KeepsCall
    <2> QED BY <2>5, <2>7, <2>8
  <1>18. CASE e.type = "content_block_stop"
    <2>1. u = t
      BY <1>8, <1>9, <1>10, <1>18
    <2>2. s = OpenAI!claude_block_stop(r, e)
      BY <1>14, <1>18
    <2>3. Quietly(d, r, s)
      BY <1>2, <2>2, BlockStopQuietly
    <2>4. KeepsCall(VAfter(v, e), s.ctx)
      BY <1>11, <1>18 DEF KeepsCall
    <2> QED BY <1>6, <2>1, <2>3, <2>4 DEF Quietly
  <1>19. CASE e.type = "message_stop"
    <2>1. u = t /\ v.kind = "none"
      BY <1>8, <1>9, <1>10, <1>12, <1>19 DEF VMay, ClaudeEv
    <2>2. PICK m : m = IF c.tool_block_started THEN OpenAI!call_done(r) ELSE r
      OBVIOUS
    <2>3. Quietly(d, r, m)
      <3>1. CASE c.tool_block_started
        BY <1>2, <2>2, <3>1, CallDoneQuietly
      <3>2. CASE ~c.tool_block_started
        BY <1>2, <2>2, <3>2, QuietSame
      <3> QED BY <3>1, <3>2
    <2>4. s = OpenAI!complete(m)
      BY <1>14, <1>19, <2>2
    <2>5. Quietly(d, m, s)
      BY <2>3, <2>4, CompleteQuietly DEF Quietly
    <2>6. Quietly(d, r, s)
      BY <2>3, <2>5, QuietTwice
    <2>7. KeepsCall(VAfter(v, e), s.ctx)
      BY <1>11, <1>19, <2>1 DEF KeepsCall
    <2> QED BY <1>6, <2>1, <2>6, <2>7 DEF Quietly
  <1>20. CASE e.type = "message_delta"
    <2>1. u = t
      BY <1>8, <1>9, <1>10, <1>20
    <2>2. s = r
      BY <1>14, <1>20
    <2>3. KeepsCall(VAfter(v, e), c)
      BY <1>6, <1>11, <1>20 DEF KeepsCall
    <2> QED BY <1>2, <1>6, <2>1, <2>2, <2>3
  <1>21. e.type \in ClaudeTypes
      BY DEF ClaudeEvent
  <1> QED BY <1>15, <1>16, <1>17, <1>18, <1>19, <1>20, <1>21 DEF ClaudeTypes

\* Setting a flag of the context says nothing.
LEMMA FlagsQuietly ==
    ASSUME NEW d \in Seq(RespEvent), NEW m \in OpenResult, NEW b \in BOOLEAN
    PROVE  /\ Quietly(d, m, [m EXCEPT !.ctx.content_block_started = b])
           /\ Quietly(d, m, [m EXCEPT !.ctx.tool_block_started = b])
           /\ Quietly(d, m, [m EXCEPT !.ctx.message_start_sent = b])
           /\ Quietly(d, m, [m EXCEPT !.ctx.finish_reason_sent = b])
  <1>1. m.ctx \in OpenCtx
      BY ResultParts
  <1>2. Quietly(d, m, [m EXCEPT !.ctx.content_block_started = b])
    <2>1. PICK c : c = [m.ctx EXCEPT !.content_block_started = b]
      OBVIOUS
    <2>2. c \in OpenCtx /\ c.tool_index = m.ctx.tool_index
      BY <1>1, <2>1 DEF OpenCtx
    <2>3. PICK s : s = [m EXCEPT !.ctx.content_block_started = b]
      OBVIOUS
    <2>4. s = [ctx |-> c, out |-> m.out]
      BY <2>1, <2>3, FieldSet, Zenon
    <2>5. Quietly(d, m, s)
      BY <2>2, <2>4, ContextQuietly
    <2> QED BY <2>3, <2>5, Zenon
  <1>3. Quietly(d, m, [m EXCEPT !.ctx.tool_block_started = b])
    <2>1. PICK c : c = [m.ctx EXCEPT !.tool_block_started = b]
      OBVIOUS
    <2>2. c \in OpenCtx /\ c.tool_index = m.ctx.tool_index
      BY <1>1, <2>1 DEF OpenCtx
    <2>3. PICK s : s = [m EXCEPT !.ctx.tool_block_started = b]
      OBVIOUS
    <2>4. s = [ctx |-> c, out |-> m.out]
      BY <2>1, <2>3, FieldSet, Zenon
    <2>5. Quietly(d, m, s)
      BY <2>2, <2>4, ContextQuietly
    <2> QED BY <2>3, <2>5, Zenon
  <1>4. Quietly(d, m, [m EXCEPT !.ctx.message_start_sent = b])
    <2>1. PICK c : c = [m.ctx EXCEPT !.message_start_sent = b]
      OBVIOUS
    <2>2. c \in OpenCtx /\ c.tool_index = m.ctx.tool_index
      BY <1>1, <2>1 DEF OpenCtx
    <2>3. PICK s : s = [m EXCEPT !.ctx.message_start_sent = b]
      OBVIOUS
    <2>4. s = [ctx |-> c, out |-> m.out]
      BY <2>1, <2>3, FieldSet, Zenon
    <2>5. Quietly(d, m, s)
      BY <2>2, <2>4, ContextQuietly
    <2> QED BY <2>3, <2>5, Zenon
  <1>5. Quietly(d, m, [m EXCEPT !.ctx.finish_reason_sent = b])
    <2>1. PICK c : c = [m.ctx EXCEPT !.finish_reason_sent = b]
      OBVIOUS
    <2>2. c \in OpenCtx /\ c.tool_index = m.ctx.tool_index
      BY <1>1, <2>1 DEF OpenCtx
    <2>3. PICK s : s = [m EXCEPT !.ctx.finish_reason_sent = b]
      OBVIOUS
    <2>4. s = [ctx |-> c, out |-> m.out]
      BY <2>1, <2>3, FieldSet, Zenon
    <2>5. Quietly(d, m, s)
      BY <2>2, <2>4, ContextQuietly
    <2> QED BY <2>3, <2>5, Zenon
  <1> QED BY <1>2, <1>3, <1>4, <1>5, Zenon

\* A Responses client that has been told of n calls, the last of them in the
\* item of the context, and has been told said.
Stage(d, r, n, said) ==
    /\ r \in OpenResult /\ Heard(d, r) \in TallyType /\ Heard(d, r).count = n
         /\ Heard(d, r).said = said
    /\ r.ctx.tool_index = n
    /\ n > 0 => Heard(d, r).at[n] = n

\* A quiet step keeps what a Responses client has been told.
LEMMA StageQuietly ==
    ASSUME NEW d, NEW r, NEW s, NEW n, NEW said, Stage(d, r, n, said), Quietly(d, r, s)
    PROVE  Stage(d, s, n, said)
  BY DEF Stage, Quietly

\* What a piece said adds to a tally.
LEMMA SpokenIs ==
    ASSUME NEW t \in TallyType, NEW p \in Pieces
    PROVE  /\ Spoken(t, p) \in TallyType /\ Spoken(t, p).count = t.count
                /\ Spoken(t, p).at = t.at
           /\ Spoken(t, p).said = t.said \o <<p>>
  <1>1. t.count \in Nat /\ t.at \in [Nat -> Nat] /\ t.said \in Seq(Pieces)
      BY DEF TallyType
  <1>2. t.said \o <<p>> \in Seq(Pieces)
      BY <1>1
  <1> QED BY <1>1, <1>2 DEF Spoken, TallyType

Counted(t, x, u) ==
    u \in TallyType /\ u.count = t.count + 1 /\ u.at[x] = t.count + 1 /\ u.said = t.said

\* What a call announced adds to a tally.
LEMMA CallMadeIs ==
    ASSUME NEW t \in TallyType, NEW x \in Nat
    PROVE  Counted(t, x, CallMade(t, x))
  <1>1. t.count \in Nat /\ t.at \in [Nat -> Nat] /\ t.said \in Seq(Pieces)
      BY DEF TallyType
  <1>2. PICK k \in Nat : k = t.count + 1
      BY <1>1
  <1>3. PICK f : f = [y \in Nat |-> IF y = x THEN k ELSE t.at[y]]
      OBVIOUS
  <1>4. f \in [Nat -> Nat] /\ f[x] = k
      BY <1>1, <1>2, <1>3
  <1>5. CallMade(t, x) = [count |-> k, at |-> f, said |-> t.said]
      BY <1>2, <1>3, Zenon DEF CallMade
  <1>6. PICK z : z = t.said
      OBVIOUS
  <1>7. PICK u : u = [count |-> k, at |-> f, said |-> z]
      OBVIOUS
  <1>8. u.count = k /\ u.at = f /\ u.said = z
      BY ONLY <1>7
  <1>9. u \in [count : Nat, at : [Nat -> Nat], said : Seq(Pieces)]
    <2>1. z \in Seq(Pieces)
      BY <1>1, <1>6
    <2> QED BY ONLY <1>2, <1>4, <1>7, <2>1, k \in Nat
  <1>10. CallMade(t, x) = u
      BY <1>5, <1>6, <1>7, Zenon
  <1>11. Counted(t, x, u)
      BY <1>2, <1>4, <1>6, <1>8, <1>9, Zenon DEF Counted, TallyType
  <1> QED BY <1>10, <1>11, Zenon

\* chat_text.
LEMMA ChatTextStage ==
    ASSUME NEW d \in Seq(RespEvent), NEW r, NEW n \in Nat, NEW said, Stage(d, r, n, said),
           NEW s, s = OpenAI!chat_text(r)
    PROVE  Stage(d, s, n, said \o << <<"text", 0>> >>)
  <1>1. PICK m : m = IF r.ctx.content_block_started THEN r ELSE OpenAI!open_message(r, 0)
      OBVIOUS
  <1>2. r \in OpenResult
      BY DEF Stage
  <1>3. Quietly(d, r, m)
    <2>1. CASE r.ctx.content_block_started
      BY <1>1, <1>2, <2>1, QuietSame
    <2>2. CASE ~r.ctx.content_block_started
      BY <1>1, <1>2, <2>2, MessageOpensQuietly
    <2> QED BY <2>1, <2>2
  <1>4. Stage(d, m, n, said)
      BY <1>3, StageQuietly
  <1>5. m \in OpenResult /\ Heard(d, m) \in TallyType
      BY <1>4 DEF Stage
  <1>6. PICK y \in Nat : y = m.ctx.content_index
      BY <1>5, ResultParts
  <1>7. s = OpenAI!emit(m, OpenAI!resp("text_delta", "text", y, 0))
      BY <1>1, <1>6, Zenon DEF OpenAI!chat_text
  <1>8. s \in OpenResult /\ Heard(d, s) = Spoken(Heard(d, m), <<"text", 0>>) /\ s.ctx = m.ctx
      BY <1>5, <1>7, TextHeard
  <1>9. <<"text", 0>> \in Pieces
      BY DEF Pieces, Kinds
  <1>10. PICK t : t = Heard(d, m)
      OBVIOUS
  <1>11. PICK u : u = Heard(d, s)
      OBVIOUS
  <1>12. u \in TallyType /\ u.count = t.count /\ u.at = t.at
           /\ u.said = t.said \o << <<"text", 0>> >>
      BY <1>5, <1>8, <1>9, <1>10, <1>11, SpokenIs
  <1> QED BY <1>4, <1>8, <1>10, <1>11, <1>12 DEF Stage

\* chat_call_start, for the next call.
LEMMA ChatCallStage ==
    ASSUME NEW d \in Seq(RespEvent), NEW r, NEW n \in Nat, NEW said, Stage(d, r, n, said),
           NEW tc, tc.index = n,
           NEW s, s = OpenAI!chat_call_start(r, tc)
    PROVE  Stage(d, s, n + 1, said)
  <1>1. r \in OpenResult
      BY DEF Stage
  <1>2. PICK y \in Nat : y = r.ctx.content_index
      BY <1>1, ResultParts
  <1>3. PICK a : a = OpenAI!resp("text_done", "text", y, 0)
      OBVIOUS
  <1>4. PICK b : b = OpenAI!resp("item_done", "message", y, 0)
      OBVIOUS
  <1>5. PICK q : q = OpenAI!emitAll(r, <<a, b>>)
      OBVIOUS
  <1>6. PICK m : m = IF ~r.ctx.content_block_started THEN r
          ELSE [q EXCEPT !.ctx.content_block_started = FALSE]
      OBVIOUS
  <1>7. PICK x \in Nat : x = n + 1
      OBVIOUS
  <1>8. s = IF m.ctx.tool_block_started /\ m.ctx.tool_index = x THEN m
            ELSE [OpenAI!open_call(m, x) EXCEPT !.ctx.tool_arguments = 0,
                  !.ctx.current_tool_id = TRUE]
      BY <1>2, <1>3, <1>4, <1>5, <1>6, <1>7, Zenon DEF OpenAI!chat_call_start
  <1>9. Quietly(d, r, m)
    <2>1. CASE ~r.ctx.content_block_started
      BY <1>1, <1>6, <2>1, QuietSame
    <2>2. CASE r.ctx.content_block_started
      <3>1. Silent(a) /\ Silent(b)
        BY <1>3, <1>4, SilentAre DEF RespTypes, RespKinds, ItemKinds
      <3>2. PICK o : o = r.out \o <<a, b>>
        OBVIOUS
      <3>3. r.ctx \in OpenCtx /\ r.out \in Seq(RespEvent) /\ q = [ctx |-> r.ctx, out |-> o]
        BY <1>1, <1>5, <3>2, ResultParts
      <3>4. o \in Seq(RespEvent) /\ Tally(d \o o, Kinds) = Tally(d \o r.out, Kinds)
        BY <3>1, <3>2, <3>3, SilentTwo
      <3>5. Quietly(d, r, q)
        BY <1>1, <3>3, <3>4, QuietResult
      <3>6. q \in OpenResult /\ FALSE \in BOOLEAN
        BY <3>5 DEF Quietly
      <3>7. Quietly(d, q, m)
        BY <1>6, <2>2, <3>6, FlagsQuietly, Zenon
      <3> QED BY <3>5, <3>7, QuietTwice
    <2> QED BY <2>1, <2>2
  <1>10. Stage(d, m, n, said)
      BY <1>9, StageQuietly
  <1>11. m \in OpenResult /\ m.ctx.tool_index # x /\ Heard(d, m) \in TallyType
           /\ Heard(d, m).count = n /\ Heard(d, m).said = said
      BY <1>7, <1>10 DEF Stage
  <1>12. PICK w : w = OpenAI!open_call(m, x)
      OBVIOUS
  <1>13. w \in OpenResult /\ Heard(d, w) = CallMade(Heard(d, m), x) /\ w.ctx.tool_index = x
    <2>1. CallTold(d, m, x, w)
      BY <1>11, <1>12, CallOpensHeard
    <2> QED BY <2>1, Zenon DEF CallTold
  <1>14. s = [w EXCEPT !.ctx.tool_arguments = 0, !.ctx.current_tool_id = TRUE]
      BY <1>8, <1>11, <1>12, Zenon
  <1>15. PICK c : c = [w.ctx EXCEPT !.tool_arguments = 0, !.current_tool_id = TRUE]
      OBVIOUS
  <1>16. w.ctx \in OpenCtx
      BY <1>13, ResultParts
  <1>17. c \in OpenCtx /\ c.tool_index = w.ctx.tool_index
      BY <1>15, <1>16 DEF OpenCtx
  <1>18. s = [ctx |-> c, out |-> w.out]
    <2>1. [w EXCEPT !.ctx.tool_arguments = 0, !.ctx.current_tool_id = TRUE]
            = [w EXCEPT !.ctx = [w.ctx EXCEPT !.tool_arguments = 0, !.current_tool_id = TRUE]]
      BY <1>13 DEF OpenResult
    <2>2. [w EXCEPT !.ctx = c] = [ctx |-> c, out |-> w.out]
      BY <1>13 DEF OpenResult
    <2> QED BY <1>14, <1>15, <2>1, <2>2, Zenon
  <1>19. Quietly(d, w, s)
      BY <1>13, <1>17, <1>18, ContextQuietly
  <1>20. PICK t \in TallyType : t = Heard(d, m)
      BY <1>11
  <1>21. PICK u : u = Heard(d, w)
      OBVIOUS
  <1>22. u \in TallyType /\ u.count = n + 1 /\ u.at[x] = n + 1 /\ u.said = said
    <2>1. Counted(t, x, u)
      BY <1>13, <1>20, <1>21, CallMadeIs, Zenon
    <2> QED BY <1>11, <1>20, <2>1, Zenon DEF Counted
  <1>23. Stage(d, w, n + 1, said)
      BY <1>7, <1>13, <1>21, <1>22 DEF Stage
  <1> QED BY <1>19, <1>23, StageQuietly

\* What is said of a stage is a sequence of pieces.
LEMMA StageSaid ==
    ASSUME NEW d, NEW r, NEW n, NEW said, Stage(d, r, n, said)
    PROVE  said \in Seq(Pieces) /\ said \o << >> = said /\ r \in OpenResult
  <1>1. PICK t \in TallyType : t.said = said
      BY DEF Stage
  <1>2. said \in Seq(Pieces)
      BY <1>1 DEF TallyType
  <1> QED BY <1>2 DEF Stage

\* chat_tool_call: a call with an id is the next one, and the arguments of a
\* chunk are those of the latest.
LEMMA ChatToolStage ==
    ASSUME NEW d \in Seq(RespEvent), NEW r, NEW n \in Nat, NEW said, Stage(d, r, n, said),
           NEW tc,
           NEW k \in Nat, k > 0, tc.id => tc.index = n /\ k = n + 1, ~tc.id => k = n,
           NEW s, s = OpenAI!chat_tool_call(r, tc)
    PROVE  Stage(d, s, k, said \o (IF tc.args THEN << <<"tool_use", k>> >> ELSE << >>))
  <1>1. PICK m : m = IF tc.id THEN OpenAI!chat_call_start(r, tc) ELSE r
      OBVIOUS
  <1>2. s = IF tc.args THEN OpenAI!args_delta(m) ELSE m
      BY <1>1, Zenon DEF OpenAI!chat_tool_call
  <1>3. Stage(d, m, k, said)
    <2>1. CASE tc.id
      <3>1. m = OpenAI!chat_call_start(r, tc) /\ tc.index = n /\ k = n + 1
        BY <1>1, <2>1
      <3>2. Stage(d, m, n + 1, said)
        BY <3>1, ChatCallStage
      <3> QED BY <3>1, <3>2
    <2>2. CASE ~tc.id
      BY <1>1, <2>2
    <2> QED BY <2>1, <2>2
  <1>4. CASE ~tc.args
    <2>1. said \o << >> = said
      BY <1>3, StageSaid
    <2> QED BY <1>2, <1>3, <1>4, <2>1
  <1>5. CASE tc.args
    <2>1. PICK t : t = Heard(d, m)
      OBVIOUS
    <2>2. PICK u : u = Heard(d, s)
      OBVIOUS
    <2>3. m \in OpenResult /\ t \in TallyType /\ t.count = k /\ t.said = said
            /\ m.ctx.tool_index = k /\ t.at[k] = k
      BY <1>3, <2>1 DEF Stage
    <2>4. s = OpenAI!args_delta(m)
      BY <1>2, <1>5
    <2>5. /\ s \in OpenResult
               /\ Heard(d, s)
               = Spoken(Heard(d, m), <<"tool_use", Heard(d, m).at[m.ctx.tool_index]>>)
          /\ s.ctx.tool_index = m.ctx.tool_index
      BY <2>3, <2>4, ArgsHeard
    <2>6. PICK p : p = <<"tool_use", k>>
      OBVIOUS
    <2>7. u = Spoken(t, p) /\ p \in Pieces
      <3>1. u = Spoken(t, p)
        BY <2>1, <2>2, <2>3, <2>5, <2>6, Zenon
      <3>2. p \in Pieces
        BY <2>6 DEF Pieces, Kinds
      <3> QED BY <3>1, <3>2
    <2>8. /\ Spoken(t, p) \in TallyType /\ Spoken(t, p).count = t.count
               /\ Spoken(t, p).at = t.at
          /\ Spoken(t, p).said = t.said \o <<p>>
      BY <2>3, <2>7, SpokenIs
    <2>9. u \in TallyType /\ u.count = k /\ u.said = said \o <<p>> /\ u.at[k] = k
      BY <2>3, <2>7, <2>8, Zenon
    <2>10. Stage(d, s, k, said \o <<p>>)
      BY <2>2, <2>3, <2>5, <2>9, Zenon DEF Stage
    <2> QED BY <1>5, <2>6, <2>10, Zenon
  <1> QED BY <1>4, <1>5

\* chat_complete and chat_done say nothing.
LEMMA ChatCompleteQuietly ==
    ASSUME NEW d \in Seq(RespEvent), NEW r \in OpenResult, NEW s, s = OpenAI!chat_complete(r)
    PROVE  Quietly(d, r, s)
  <1>1. PICK q : q = OpenAI!call_done(r)
      OBVIOUS
  <1>2. PICK t : t = IF r.ctx.tool_block_started
          THEN [q EXCEPT !.ctx.tool_block_started = FALSE] ELSE r
      OBVIOUS
  <1>3. PICK m : m = IF t.ctx.content_block_started THEN OpenAI!close_message(t) ELSE t
      OBVIOUS
  <1>4. PICK w : w = OpenAI!complete(m)
      OBVIOUS
  <1>5. s = IF r.ctx.finish_reason_sent THEN r ELSE [w EXCEPT !.ctx.finish_reason_sent = TRUE]
      BY <1>1, <1>2, <1>3, <1>4, Zenon DEF OpenAI!chat_complete
  <1>6. TRUE \in BOOLEAN /\ FALSE \in BOOLEAN
      OBVIOUS
  <1>7. Quietly(d, r, r)
      BY QuietSame
  <1>8. Quietly(d, r, t)
    <2>1. CASE r.ctx.tool_block_started
      <3>1. Quietly(d, r, q)
        BY <1>1, CallDoneQuietly
      <3>2. q \in OpenResult
        BY <3>1, Zenon DEF Quietly
      <3>3. Quietly(d, q, t)
        BY <1>2, <1>6, <2>1, <3>2, FlagsQuietly, Zenon
      <3> QED BY <3>1, <3>3, QuietTwice
    <2>2. CASE ~r.ctx.tool_block_started
      BY <1>2, <1>7, <2>2
    <2> QED BY <2>1, <2>2
  <1>9. t \in OpenResult
      BY <1>8, Zenon DEF Quietly
  <1>10. Quietly(d, t, m)
    <2>1. CASE t.ctx.content_block_started
      BY <1>3, <1>9, <2>1, MessageClosesQuietly
    <2>2. CASE ~t.ctx.content_block_started
      BY <1>3, <1>9, <2>2, QuietSame
    <2> QED BY <2>1, <2>2
  <1>11. m \in OpenResult
      BY <1>10, Zenon DEF Quietly
  <1>12. Quietly(d, m, w)
      BY <1>4, <1>11, CompleteQuietly
  <1>13. w \in OpenResult
      BY <1>12, Zenon DEF Quietly
  <1>14. Quietly(d, w, [w EXCEPT !.ctx.finish_reason_sent = TRUE])
      BY <1>6, <1>13, FlagsQuietly, Zenon
  <1>15. Quietly(d, r, [w EXCEPT !.ctx.finish_reason_sent = TRUE])
    <2>1. Quietly(d, r, m)
      BY <1>8, <1>10, QuietTwice
    <2>2. Quietly(d, r, w)
      BY <1>12, <2>1, QuietTwice
    <2> QED BY <1>14, <2>2, QuietTwice
  <1> QED BY <1>5, <1>7, <1>15, Zenon

\* What one chunk of a conforming chat upstream says to a Responses client,
\* n calls told of before and k after it.
Chunked(n, k, chunk) ==
    /\ n \in Nat /\ k \in Nat /\ chunk \in OneCall
    /\ chunk.tools = << >> => k = n
    /\ chunk.tools # << >> =>
          /\ k > 0 /\ chunk.tools[1].index + 1 = k
          /\ chunk.tools[1].id => chunk.tools[1].index = n /\ k = n + 1
          /\ ~chunk.tools[1].id => k = n

\* openai_chat_stream_to_responses.
LEMMA ChatChunkStage ==
    ASSUME NEW d \in Seq(RespEvent), NEW c \in OpenCtx, NEW chunk, NEW n, NEW k,
           Chunked(n, k, chunk), NEW said,
           Stage(d, [ctx |-> c, out |-> << >>], n, said),
           NEW s, s = OpenAI!openai_chat_stream_to_responses(c, chunk)
    PROVE  Stage(d, s, k, said \o contentOfChunk(chunk, CodexKinds))
  <1>0. n \in Nat /\ k \in Nat /\ chunk \in UpChunk /\ chunk.tools \in Seq(UpCall)
          /\ Len(chunk.tools) <= 1
      BY DEF Chunked, OneCall, UpChunk
  <1>1. PICK b : b = [ctx |-> c, out |-> << >>]
      OBVIOUS
  <1>2. b \in OpenResult /\ b.ctx = c /\ b.out = << >>
      BY <1>1 DEF OpenResult
  <1>3. PICK e : e = [c EXCEPT !.message_id = TRUE]
      OBVIOUS
  <1>4. e \in OpenCtx /\ e.tool_index = c.tool_index
      BY <1>3 DEF OpenCtx
  <1>5. PICK r : r = [ctx |-> e, out |-> << >>]
      OBVIOUS
  <1>6. Quietly(d, b, r)
      BY <1>2, <1>4, <1>5, ContextQuietly
  <1>7. r \in OpenResult /\ r.ctx = e /\ r.out = << >>
      BY <1>4, <1>5 DEF OpenResult
  <1>8. PICK a : a = OpenAI!emit(r, OpenAI!resp("created", "none", 0, 0))
      OBVIOUS
  <1>9. Quietly(d, r, a)
    <2>1. a = [ctx |-> e, out |-> Append(r.out, OpenAI!resp("created", "none", 0, 0))]
      BY <1>7, <1>8, ResultParts
    <2> QED BY <1>4, <1>7, <2>1, CreatedQuietly
  <1>10. PICK start : start = IF c.message_start_sent THEN r
           ELSE [a EXCEPT !.ctx.message_start_sent = TRUE]
      OBVIOUS
  <1>11. Quietly(d, r, start)
    <2>1. CASE c.message_start_sent
      BY <1>7, <1>10, <2>1, QuietSame
    <2>2. CASE ~c.message_start_sent
      <3>1. a \in OpenResult /\ TRUE \in BOOLEAN
        BY <1>9 DEF Quietly
      <3>2. Quietly(d, a, start)
        BY <1>10, <2>2, <3>1, FlagsQuietly, Zenon
      <3> QED BY <1>9, <3>2, QuietTwice
    <2> QED BY <2>1, <2>2
  <1>12. Stage(d, r, n, said)
      BY <1>1, <1>6, StageQuietly
  <1>13. Stage(d, start, n, said)
      BY <1>11, <1>12, StageQuietly
  <1>14. PICK z : z = IF chunk.text THEN OpenAI!chat_text(start) ELSE start
      OBVIOUS
  <1>15. PICK p : p = IF chunk.text THEN << <<"text", 0>> >> ELSE << >>
      OBVIOUS
  <1>16. said \in Seq(Pieces) /\ said \o << >> = said
      BY <1>13, StageSaid
  <1>17. Stage(d, z, n, said \o p)
    <2>1. CASE chunk.text
      BY <1>0, <1>13, <1>14, <1>15, <2>1, ChatTextStage
    <2>2. CASE ~chunk.text
      BY <1>13, <1>14, <1>15, <1>16, <2>2
    <2> QED BY <2>1, <2>2
  <1>18. PICK q : q = IF chunk.tools # << >> /\ chunk.tools[1].args
           THEN << <<"tool_use", chunk.tools[1].index + 1>> >> ELSE << >>
      OBVIOUS
  <1>19. PICK y : y = ChatCalledBy(z, chunk.tools)
      OBVIOUS
  <1>20. Stage(d, y, k, (said \o p) \o q)
    <2>1. CASE chunk.tools = << >>
      <3>1. DOMAIN chunk.tools = {} /\ k = n /\ q = << >>
        BY <1>0, <1>18, <2>1 DEF Chunked
      <3>2. y = z
        BY <1>19, <3>1, ChatCallsFold
      <3>3. (said \o p) \o << >> = said \o p
        BY <1>17, StageSaid
      <3> QED BY <1>17, <3>1, <3>2, <3>3
    <2>2. CASE chunk.tools # << >>
      <3>1. Len(chunk.tools) = 1
        BY <1>0, <2>2, LenOne
      <3>2. DOMAIN chunk.tools = {1} /\ DOMAIN chunk.tools # {}
        <4>1. DOMAIN chunk.tools = 1..1 /\ 1..1 = {1}
          BY <1>0, <3>1
        <4> QED BY <4>1
      <3>3. y = OpenAI!chat_tool_call(z, chunk.tools[1])
        BY <1>19, <3>2, ChatCallsFold
      <3>4. PICK tc : tc = chunk.tools[1]
        OBVIOUS
      <3>5. /\ k > 0 /\ tc.index + 1 = k
            /\ tc.id => tc.index = n /\ k = n + 1
            /\ ~tc.id => k = n
        BY <2>2, <3>4, Zenon DEF Chunked
      <3>6. q = IF tc.args THEN << <<"tool_use", k>> >> ELSE << >>
        BY <1>18, <2>2, <3>4, <3>5
      <3>7. y = OpenAI!chat_tool_call(z, tc)
        BY <3>3, <3>4
      <3>8. PICK sp : sp = said \o p
        OBVIOUS
      <3>9. Stage(d, z, n, sp)
        BY <1>17, <3>8
      <3>10. Stage(d, y, k, sp \o (IF tc.args THEN << <<"tool_use", k>> >> ELSE << >>))
        BY <1>0, <3>5, <3>7, <3>9, ChatToolStage
      <3> QED BY <3>6, <3>8, <3>10
    <2> QED BY <2>1, <2>2
  <1>21. PICK w : w = OpenAI!chat_complete(y)
      OBVIOUS
  <1>22. Stage(d, w, k, (said \o p) \o q)
    <2>1. y \in OpenResult
      BY <1>20, StageSaid
    <2>2. Quietly(d, y, w)
      BY <1>21, <2>1, ChatCompleteQuietly
    <2> QED BY <1>20, <2>2, StageQuietly
  <1>23. (said \o p) \o q = said \o contentOfChunk(chunk, CodexKinds)
    <2>1. "text" \in CodexKinds /\ "thinking" \notin CodexKinds
      BY DEF CodexKinds
    <2>2. contentOfChunk(chunk, CodexKinds) = (<< >> \o p) \o q
      <3>1. contentOfChunk(chunk, CodexKinds) =
                (IF chunk.reasoning /\ "thinking" \in CodexKinds THEN << <<"thinking", 0>> >>
                    ELSE << >>)
                \o (IF chunk.text /\ "text" \in CodexKinds THEN << <<"text", 0>> >>
                    ELSE << >>)
                \o (IF chunk.tools # << >> /\ chunk.tools[1].args
                    THEN << <<"tool_use", chunk.tools[1].index + 1>> >> ELSE << >>)
        BY <1>0, ChunkContentOf
      <3> QED BY <1>15, <1>18, <2>1, <3>1, Zenon
    <2>3. p \in Seq(Pieces)
      <3>1. <<"text", 0>> \in Pieces
        BY DEF Pieces, Kinds
      <3> QED BY <1>15, <3>1
    <2>4. q \in Seq(Pieces)
      <3>1. ASSUME chunk.tools # << >>
            PROVE <<"tool_use", chunk.tools[1].index + 1>> \in Pieces
        <4>1. chunk.tools[1].index + 1 = k
          BY <3>1 DEF Chunked
        <4> QED BY <1>0, <4>1 DEF Pieces, Kinds
      <3> QED BY <1>18, <3>1
    <2>5. << >> \o p = p
      BY <2>3
    <2>6. (said \o p) \o q = said \o (p \o q)
      BY <1>16, <2>3, <2>4, ConcatAssociative
    <2> QED BY <2>2, <2>5, <2>6
  <1>24. s = IF ~(chunk.text \/ chunk.reasoning \/ chunk.finish \/ chunk.tools # << >>
           \/ ~chunk.usage) THEN r
             ELSE IF chunk.finish THEN w ELSE y
    <2>1. y = OpenAI!chat_tool_calls(z, chunk.tools)
      BY <1>19, Zenon DEF ChatCalledBy
    <2> QED BY <1>3, <1>5, <1>8, <1>10, <1>14, <1>21, <2>1,
          Zenon DEF OpenAI!openai_chat_stream_to_responses
  <1>25. CASE ~(chunk.text \/ chunk.reasoning \/ chunk.finish \/ chunk.tools # << >>
           \/ ~chunk.usage)
    <2>1. k = n /\ p = << >> /\ q = << >>
      BY <1>15, <1>18, <1>25 DEF Chunked
    <2>2. (said \o << >>) \o << >> = said
      BY <1>16
    <2>3. Stage(d, s, n, said)
      BY <1>12, <1>24, <1>25
    <2> QED BY <1>23, <2>1, <2>2, <2>3
  <1>26. CASE chunk.text \/ chunk.reasoning \/ chunk.finish \/ chunk.tools # << >>
           \/ ~chunk.usage
    <2>1. s = w \/ s = y
      BY <1>24, <1>26
    <2> QED BY <1>20, <1>22, <1>23, <2>1
  <1> QED BY <1>25, <1>26

\* Nothing has been said before the first event.
LEMMA TallyEmpty ==
    /\ \A kinds : Tally(<< >>, kinds).said = << >>
         /\ Tally(<< >>, kinds) = Tally(<< >>, Kinds)
    /\ Tally(<< >>, Kinds) \in TallyType /\ Tally(<< >>, Kinds).count = 0
    /\ CallsOf(<< >>) = 0 /\ \A kinds : contentOfChunks(<< >>, kinds) = << >>
  <1>1. \A kinds : contentOf(<< >>, kinds) = << >>
      BY DEF contentOf, FlattenSeq
  <1>2. \A kinds : Tally(<< >>, kinds).said = contentOf(<< >>, kinds)
      BY DEF Tally
  <1>3. \A kinds : Tally(<< >>, kinds) = Tally(<< >>, Kinds)
      BY <1>1, Zenon DEF Tally
  <1>4. Tally(<< >>, Kinds) \in TallyType
    <2>1. << >> \in Seq(RespEvent) /\ Kinds \in SUBSET Kinds
      OBVIOUS
    <2> QED BY <2>1, TallyTyped, Zenon DEF TallyType
  <1>5. Tally(<< >>, Kinds).count = 0
    <2>1. announcedIn(<< >>) = {}
      BY DEF announcedIn
    <2>2. Tally(<< >>, Kinds).count = CallCount(<< >>)
      BY DEF Tally
    <2> QED BY <2>1, <2>2, FS_EmptySet DEF CallCount
  <1>6. CallsOf(<< >>) = 0
    <2>1. DOMAIN << >> = 1..0 /\ 0 \in Nat
      OBVIOUS
    <2> QED BY <2>1, CallsFold
  <1>7. \A kinds : contentOfChunks(<< >>, kinds) = << >>
      BY DEF contentOfChunks, FlattenSeq
  <1> QED BY <1>1, <1>2, <1>3, <1>4, <1>5, <1>6, <1>7

\* What a Responses client has been told of the chunks of a chat upstream.
ChatResp(d, r, es) ==
    /\ Stage(d, r, CallsOf(es), contentOfChunks(es, CodexKinds))
    /\ es # << >> /\ es[Len(es)].tools # << >> => CallsOf(es) > 0

\* The content of the clients of the four converters to the Codex protocols.
CodexInv ==
    /\ conv.name = "cx_chat_claude"
         => Tally(delivered \o wire, Kinds).said = Tally(sent, {"text"}).said
    /\ conv.name = "cx_chat_openai2"
         => Tally(delivered \o wire, Kinds) = Tally(sent, CodexKinds)
    /\ conv.client = "responses"
         => delivered \in Seq(RespEvent) /\ wire \in Seq(RespEvent) /\ ctx \in OpenCtx
    /\ conv.name = "cx_resp_claude" => ClaudeResp(delivered \o wire, sent, ctx)
    /\ conv.name = "cx_resp_openai" => ChatResp(delivered, [ctx |-> ctx, out |-> wire], sent)

\* At the start of a stream nothing has been sent and nothing told.
LEMMA CodexInit == Init => CodexInv
  <1> SUFFICES ASSUME Init PROVE CodexInv
      OBVIOUS
  <1>1. conv \in Converters /\ sent = << >> /\ wire = << >> /\ delivered = << >>
          /\ ctx = NewContext(conv)
      BY Zenon DEF Init
  <1>2. << >> \o << >> = << >> /\ << >> \in Seq(RespEvent)
      OBVIOUS
  <1>3. conv.client = "responses" => ctx = OpenAI!NewContext /\ ctx \in OpenCtx
      BY <1>1, ConverterIs, OpenNew DEF NewContext
  <1>4. ClaudeResp(<< >>, << >>, ctx)
    <2>1. CView(<< >>).kind = "none"
      BY CValidEmpty
    <2> QED BY <2>1, TallyEmpty, Zenon DEF ClaudeResp, KeepsCall
  <1>5. ASSUME conv.client = "responses"
        PROVE ChatResp(<< >>, [ctx |-> ctx, out |-> << >>], << >>)
    <2>1. PICK r : r = [ctx |-> ctx, out |-> << >>]
      OBVIOUS
    <2>2. r \in OpenResult /\ r.ctx = ctx /\ r.out = << >>
      BY <1>2, <1>3, <1>5, <2>1 DEF OpenResult
    <2>3. ctx.tool_index = 0
      BY <1>3, <1>5 DEF OpenAI!NewContext
    <2>4. Heard(<< >>, r) = Tally(<< >>, Kinds)
      BY <1>2, <2>2, Zenon DEF Heard
    <2>5. Stage(<< >>, r, 0, << >>)
      BY <2>2, <2>3, <2>4, TallyEmpty DEF Stage
    <2> QED BY <2>1, <2>5, TallyEmpty DEF ChatResp
  <1>6. conv.name = "cx_resp_openai" => conv.client = "responses"
      BY <1>1, ConverterIs
  <1>7. delivered \o wire = << >>
      BY <1>1, <1>2
  <1>8. conv.name = "cx_resp_openai" => ChatResp(delivered, [ctx |-> ctx, out |-> wire], sent)
      BY <1>1, <1>5, <1>6, Zenon
  <1>9. Tally(delivered \o wire, Kinds).said = Tally(sent, {"text"}).said
          /\ Tally(delivered \o wire, Kinds) = Tally(sent, CodexKinds)
      BY <1>1, <1>7, TallyEmpty, Zenon
  <1>10. ClaudeResp(delivered \o wire, sent, ctx)
      BY <1>1, <1>4, <1>7, Zenon
  <1>11. conv.client = "responses"
           => delivered \in Seq(RespEvent) /\ wire \in Seq(RespEvent) /\ ctx \in OpenCtx
      BY <1>1, <1>2, <1>3
  <1> QED BY <1>8, <1>9, <1>10, <1>11, Zenon DEF CodexInv

\* A chunk for a Responses client.
LEMMA ChatRespConverts ==
    ASSUME SentInv, ChunksInv, CodexInv, conv.name = "cx_resp_openai", ConvertEvent
    PROVE  CodexInv'
  <1>1. /\ wire = << >> /\ conv' = conv /\ style' = style /\ delivered' = delivered
        /\ ctx' = convert(conv.name, sent'[Len(sent')]).ctx
             /\ wire' = convert(conv.name, sent'[Len(sent')]).out
      BY Zenon DEF ConvertEvent, apply
  <1>2. conv.from = "chat" /\ conv.from # "claude" /\ conv.from # "responses"
          /\ conv.client = "responses"
        /\ style \in {"conforming", "single"} /\ style # "any"
      BY ConverterIs DEF SentInv
  <1>3. PICK chunk \in Chunk : SendsChunk(chunk)
      BY <1>2 DEF ConvertEvent
  <1>4. sent \in Seq(OneCall) /\ sent \in Seq(UpChunk)
      BY <1>2 DEF ChunksInv
  <1>5. PICK m \in UpChunk :
              /\ sent' = Append(sent, m) /\ sent'[Len(sent')] = m
              /\ m \in OneCall
              /\ m.tools # << >> =>
                    /\ m.tools[1].index
                         = LET n == CallsOf(sent) + (IF m.tools[1].id THEN 1 ELSE 0)
                                          IN IF n = 0 THEN 0 ELSE n - 1
                    /\ ~m.tools[1].id => sent # << >> /\ sent[Len(sent)].tools # << >>
      BY <1>2, <1>3, ChunkStep
  <1>6. PICK n : n = CallsOf(sent)
      OBVIOUS
  <1>7. PICK k : k = CallsOf(sent')
      OBVIOUS
  <1>8. n \in Nat /\ k = n + callsIn(m.tools)
      BY <1>4, <1>5, <1>6, <1>7, CallsAppend
  <1>9. callsIn(m.tools) = IF m.tools # << >> /\ m.tools[1].id THEN 1 ELSE 0
    <2>1. m.tools \in Seq(UpCall) /\ Len(m.tools) <= 1
      BY <1>5 DEF OneCall, UpChunk
    <2> QED BY <2>1, CallsInOne
  <1>10. delivered \in Seq(RespEvent) /\ ctx \in OpenCtx
      BY <1>2 DEF CodexInv
  <1>11. PICK said : said = contentOfChunks(sent, CodexKinds)
      OBVIOUS
  <1>12. /\ Stage(delivered, [ctx |-> ctx, out |-> << >>], n, said)
         /\ sent # << >> /\ sent[Len(sent)].tools # << >> => n > 0
      BY <1>1, <1>6, <1>11, Zenon DEF CodexInv, ChatResp
  <1>13. Chunked(n, k, m)
    <2>1. CASE m.tools = << >>
      BY <1>5, <1>8, <1>9, <2>1 DEF Chunked
    <2>2. CASE m.tools # << >>
      <3>1. PICK tc : tc = m.tools[1]
        OBVIOUS
      <3>2. k = n + (IF tc.id THEN 1 ELSE 0)
        BY <1>8, <1>9, <2>2, <3>1
      <3>3. tc.index = (IF k = 0 THEN 0 ELSE k - 1)
        BY <1>5, <1>6, <2>2, <3>1, <3>2
      <3>4. ~tc.id => n > 0
        BY <1>5, <1>12, <2>2, <3>1
      <3>5. k \in Nat /\ k > 0 /\ tc.index + 1 = k /\ (tc.id => tc.index = n /\ k = n + 1)
              /\ (~tc.id => k = n)
        BY <1>8, <3>2, <3>3, <3>4
      <3> QED BY <1>5, <1>8, <2>2, <3>1, <3>5 DEF Chunked
    <2> QED BY <2>1, <2>2
  <1>14. PICK s : s = OpenAI!openai_chat_stream_to_responses(ctx, m)
      OBVIOUS
  <1>15. ctx' = s.ctx /\ wire' = s.out
    <2>1. convert("cx_resp_openai", m) = OpenAI!openai_chat_stream_to_responses(ctx, m)
      BY DEF convert
    <2> QED BY <1>1, <1>5, <1>14, <2>1
  <1>16. Stage(delivered, s, k, said \o contentOfChunk(m, CodexKinds))
      BY <1>10, <1>12, <1>13, <1>14, ChatChunkStage
  <1>17. s \in OpenResult
      BY <1>16, StageSaid
  <1>18. s = [ctx |-> ctx', out |-> wire'] /\ ctx' \in OpenCtx /\ wire' \in Seq(RespEvent)
      BY <1>15, <1>17, ResultParts
  <1>19. contentOfChunks(sent', CodexKinds) = said \o contentOfChunk(m, CodexKinds)
      BY <1>4, <1>5, <1>11, ContentOfChunksAppend
  <1>20. m.tools # << >> => k > 0
      BY <1>13, Zenon DEF Chunked
  <1>21. sent'[Len(sent')].tools # << >> => CallsOf(sent') > 0
      BY <1>5, <1>7, <1>20
  <1>22. ChatResp(delivered, s, sent')
      BY <1>7, <1>16, <1>19, <1>21, Zenon DEF ChatResp
  <1>23. ChatResp(delivered', [ctx |-> ctx', out |-> wire'], sent')
      BY <1>1, <1>18, <1>22, Zenon
  <1>24. conv'.name = "cx_resp_openai" /\ conv'.client = "responses"
      BY <1>1, <1>2
  <1> QED BY <1>1, <1>10, <1>18, <1>23, <1>24 DEF CodexInv

\* An event of the other upstreams.
LEMMA CodexConverts ==
    ASSUME SentInv, ChunksInv, ChatInv, CodexInv, conv.client # "claude", ConvertEvent
    PROVE  CodexInv'
  <1>1. /\ wire = << >> /\ conv' = conv /\ delivered' = delivered
        /\ ctx' = convert(conv.name, sent'[Len(sent')]).ctx
             /\ wire' = convert(conv.name, sent'[Len(sent')]).out
      BY Zenon DEF ConvertEvent, apply
  <1>2. conv \in Converters
      BY DEF SentInv
  <1>3. CASE conv.name = "cx_chat_claude"
    <2>1. conv.from = "claude" /\ conv.from # "chat" /\ conv.from # "responses"
            /\ CValid(sent) /\ conv.client = "chat" /\ conv.client # "responses"
      BY <1>2, <1>3, ConverterIs DEF SentInv
    <2>2. SendsClaudeEvent
      BY <2>1 DEF ConvertEvent
    <2>3. PICK e \in ClaudeEvent : sent' = Append(sent, e) /\ sent'[Len(sent')] = e
      BY <2>1, <2>2, ClaudeStep
    <2>4. wire' = OpenAI!claude_stream_to_openai(ctx, e).out
      BY <1>1, <1>3, <2>3 DEF convert
    <2>5. delivered \in Seq(ChatEvent) /\ sent \in Seq(ClaudeEvent)
      BY <2>1 DEF ChatInv, CValid, CShape
    <2>6. Tally(delivered, Kinds).said = Tally(sent, {"text"}).said
      BY <1>1, <1>3, <2>5, OneMore DEF CodexInv
    <2>7. Tally(delivered \o OpenAI!claude_stream_to_openai(ctx, e).out, Kinds).said
            = Tally(Append(sent, e), {"text"}).said
      BY <2>5, <2>6, ClaudeChatTally
    <2>8. Tally(delivered' \o wire', Kinds).said = Tally(sent', {"text"}).said
      BY <1>1, <2>3, <2>4, <2>7, Zenon
    <2>9. conv'.name = "cx_chat_claude" /\ conv'.client # "responses"
      BY <1>1, <1>3, <2>1
    <2> QED BY <2>8, <2>9 DEF CodexInv
  <1>4. CASE conv.name = "cx_chat_openai2"
    <2>1. conv.from = "responses" /\ conv.from # "chat" /\ conv.from # "claude"
            /\ RValid(UpIndexes, sent) /\ VRType(RView(sent))
          /\ conv.client = "chat" /\ conv.client # "responses"
      BY <1>2, <1>4, ConverterIs DEF SentInv
    <2>2. SendsResponsesEvent
      BY <2>1 DEF ConvertEvent
    <2>3. PICK e \in RespEvent : sent' = Append(sent, e) /\ sent'[Len(sent')] = e
      BY <2>1, <2>2, RespStep
    <2>4. wire' = OpenAI!openai_responses_stream_to_chat(ctx, e).out
      BY <1>1, <1>4, <2>3 DEF convert
    <2>5. delivered \in Seq(ChatEvent) /\ sent \in Seq(RespEvent) /\ ctx \in OpenCtx
      <3>1. delivered \in Seq(ChatEvent) /\ ctx \in OpenCtx
        BY <1>4, <2>1 DEF ChatInv, RespChatInv
      <3>2. sent \in Seq(RespEvent)
        BY <2>1 DEF RValid, RShape
      <3> QED BY <3>1, <3>2
    <2>6. Tally(delivered, Kinds) = Tally(sent, CodexKinds)
      BY <1>1, <1>4, <2>5, OneMore DEF CodexInv
    <2>7. wire' = RespChatOut(ctx, e)
      BY <2>4, <2>5, RespChat
    <2>8. Tally(delivered \o RespChatOut(ctx, e), Kinds) = Tally(Append(sent, e), CodexKinds)
      BY <2>5, <2>6, RespChatTally
    <2>9. Tally(delivered' \o wire', Kinds) = Tally(sent', CodexKinds)
      BY <1>1, <2>3, <2>7, <2>8, Zenon
    <2>10. conv'.name = "cx_chat_openai2" /\ conv'.client # "responses"
      BY <1>1, <1>4, <2>1
    <2> QED BY <2>9, <2>10 DEF CodexInv
  <1>5. CASE conv.name = "cx_resp_claude"
    <2>1. conv.from = "claude" /\ conv.from # "chat" /\ conv.from # "responses"
            /\ CValid(sent) /\ conv.client = "responses"
      BY <1>2, <1>5, ConverterIs DEF SentInv
    <2>2. SendsClaudeEvent
      BY <2>1 DEF ConvertEvent
    <2>3. PICK e \in ClaudeEvent :
              /\ VMay(CView(sent), e) /\ sent' = Append(sent, e) /\ sent'[Len(sent')] = e
              /\ CView(sent') = VAfter(CView(sent), e)
      BY <2>1, <2>2, ClaudeStep
    <2>4. PICK s : s = OpenAI!claude_stream_to_openai_responses(ctx, e)
      OBVIOUS
    <2>5. ctx' = s.ctx /\ wire' = s.out
      BY <1>1, <1>5, <2>3, <2>4 DEF convert
    <2>6. delivered \in Seq(RespEvent) /\ ctx \in OpenCtx
      BY <2>1 DEF CodexInv
    <2>7. ClaudeResp(delivered, sent, ctx)
      <3>1. delivered \o wire = delivered
        BY <1>1, <2>6, OneMore
      <3> QED BY <1>5, <3>1 DEF CodexInv
    <2>8. CView(Append(sent, e)) = VAfter(CView(sent), e)
      BY <2>3
    <2>9. s \in OpenResult /\ ClaudeResp(delivered \o s.out, Append(sent, e), s.ctx)
      BY <2>1, <2>3, <2>4, <2>6, <2>7, <2>8, ClaudeRespTally
    <2>10. ClaudeResp(delivered' \o wire', sent', ctx')
      BY <1>1, <2>3, <2>5, <2>9, Zenon
    <2>11. ctx' \in OpenCtx /\ wire' \in Seq(RespEvent) /\ delivered' \in Seq(RespEvent)
      BY <1>1, <2>5, <2>6, <2>9, ResultParts
    <2>12. conv'.name = "cx_resp_claude" /\ conv'.client = "responses"
      BY <1>1, <1>5, <2>1
    <2> QED BY <2>10, <2>11, <2>12 DEF CodexInv
  <1>6. CASE conv.name = "cx_resp_openai"
      BY <1>6, ChatRespConverts
  <1> QED BY <1>2, <1>3, <1>4, <1>5, <1>6, ConverterIs

\* "[DONE]" for a Responses client.
LEMMA CodexDone ==
    ASSUME SentInv, CodexInv, conv.name = "cx_resp_openai", ConvertDone
    PROVE  CodexInv'
  <1>1. /\ wire = << >> /\ conv' = conv /\ delivered' = delivered /\ sent' = sent
        /\ ctx' = OpenAI!chat_done(ctx).ctx /\ wire' = OpenAI!chat_done(ctx).out
      BY DEF ConvertDone, apply
  <1>2. conv.client = "responses"
      BY ConverterIs DEF SentInv
  <1>3. delivered \in Seq(RespEvent) /\ ctx \in OpenCtx
      BY <1>2 DEF CodexInv
  <1>4. PICK r : r = [ctx |-> ctx, out |-> << >>]
      OBVIOUS
  <1>5. r \in OpenResult
      BY <1>3, <1>4 DEF OpenResult
  <1>6. PICK s : s = OpenAI!chat_complete(r)
      OBVIOUS
  <1>7. ctx' = s.ctx /\ wire' = s.out
      BY <1>1, <1>4, <1>6, Zenon DEF OpenAI!chat_done
  <1>8. Quietly(delivered, r, s)
      BY <1>3, <1>5, <1>6, ChatCompleteQuietly
  <1>9. ChatResp(delivered, r, sent)
      BY <1>1, <1>4, Zenon DEF CodexInv
  <1>10. Stage(delivered, s, CallsOf(sent), contentOfChunks(sent, CodexKinds))
    <2>1. Stage(delivered, r, CallsOf(sent), contentOfChunks(sent, CodexKinds))
      BY <1>9, Zenon DEF ChatResp
    <2> QED BY <1>8, <2>1, StageQuietly
  <1>11. s \in OpenResult
      BY <1>8, Zenon DEF Quietly
  <1>12. s = [ctx |-> ctx', out |-> wire'] /\ ctx' \in OpenCtx /\ wire' \in Seq(RespEvent)
      BY <1>7, <1>11, ResultParts
  <1>13. ChatResp(delivered, s, sent)
      BY <1>9, <1>10, Zenon DEF ChatResp
  <1>14. ChatResp(delivered', [ctx |-> ctx', out |-> wire'], sent')
      BY <1>1, <1>12, <1>13, Zenon
  <1>15. conv'.name = "cx_resp_openai" /\ conv'.client = "responses"
      BY <1>1, <1>2
  <1> QED BY <1>1, <1>3, <1>12, <1>14, <1>15 DEF CodexInv

\* What one event delivered leaves as it was.
LEMMA CodexDelivers ==
    ASSUME SentInv, ChatInv, CodexInv, conv.client # "claude", Deliver
    PROVE  CodexInv'
  <1>1. conv \in Converters /\ style # "any"
      BY ConverterIs DEF SentInv
  <1>2. /\ wire # << >> /\ Moves(delivered, wire, delivered', wire') /\ ctx' = ctx
             /\ sent' = sent /\ conv' = conv
      BY <1>1 DEF Deliver, Moves
  <1>3. CASE conv.client = "chat"
    <2>1. delivered \in Seq(ChatEvent) /\ wire \in Seq(ChatEvent)
      BY <1>3 DEF ChatInv
    <2>2. delivered' \o wire' = delivered \o wire
      BY <1>2, <2>1, Moved
    <2>3. conv.name \in {"cx_chat_claude", "cx_chat_openai2"} /\ conv.client # "responses"
            /\ conv'.name = conv.name /\ conv'.client = conv.client
      BY <1>1, <1>2, <1>3, ConverterIs
    <2>4. conv'.name = "cx_chat_claude"
            => Tally(delivered' \o wire', Kinds).said = Tally(sent', {"text"}).said
      BY <1>2, <2>2, <2>3, Zenon DEF CodexInv
    <2>5. conv'.name = "cx_chat_openai2"
            => Tally(delivered' \o wire', Kinds) = Tally(sent', CodexKinds)
      BY <1>2, <2>2, <2>3, Zenon DEF CodexInv
    <2>6. conv'.client # "responses" /\ conv'.name # "cx_resp_claude"
            /\ conv'.name # "cx_resp_openai"
      BY <2>3
    <2> QED BY <2>4, <2>5, <2>6 DEF CodexInv
  <1>4. CASE conv.client = "responses"
    <2>1. delivered \in Seq(RespEvent) /\ wire \in Seq(RespEvent) /\ ctx \in OpenCtx
      BY <1>4 DEF CodexInv
    <2>2. delivered' \in Seq(RespEvent) /\ wire' \in Seq(RespEvent)
            /\ delivered' \o wire' = delivered \o wire
      BY <1>2, <2>1, Moved
    <2>3. conv'.name = conv.name /\ conv'.client = conv.client
            /\ conv.name \in {"cx_resp_claude", "cx_resp_openai"}
      BY <1>1, <1>2, <1>4, ConverterIs
    <2>4. conv'.name = "cx_resp_claude" => ClaudeResp(delivered' \o wire', sent', ctx')
      BY <1>2, <2>2, <2>3, Zenon DEF CodexInv
    <2>5. ASSUME conv.name = "cx_resp_openai"
          PROVE ChatResp(delivered', [ctx |-> ctx', out |-> wire'], sent')
      <3>1. PICK r : r = [ctx |-> ctx, out |-> wire]
        OBVIOUS
      <3>2. PICK s : s = [ctx |-> ctx, out |-> wire']
        OBVIOUS
      <3>3. r.ctx = ctx /\ r.out = wire /\ s.ctx = ctx /\ s.out = wire' /\ s \in OpenResult
        BY <2>1, <2>2, <3>1, <3>2 DEF OpenResult
      <3>4. Heard(delivered', s) = Heard(delivered, r)
        BY <2>2, <3>3, Zenon DEF Heard
      <3>5. ChatResp(delivered, r, sent)
        BY <2>5, <3>1, Zenon DEF CodexInv
      <3>6. ASSUME NEW n, NEW said, Stage(delivered, r, n, said)
            PROVE Stage(delivered', s, n, said)
        BY <3>3, <3>4, <3>6, Zenon DEF Stage
      <3>7. ChatResp(delivered', s, sent)
        BY <3>5, <3>6, Zenon DEF ChatResp
      <3> QED BY <1>2, <3>2, <3>7, Zenon
    <2>6. conv'.name # "cx_chat_claude" /\ conv'.name # "cx_chat_openai2"
      BY <2>3
    <2> QED BY <1>2, <2>1, <2>2, <2>3, <2>4, <2>5, <2>6 DEF CodexInv
  <1> QED BY <1>1, <1>3, <1>4, ConverterIs

\* Every step keeps what the clients of the Codex converters have been told.
LEMMA CodexInvNext == SentInv /\ ChunksInv /\ ChatInv /\ CodexInv /\ [Next]_vars => CodexInv'
  <1> SUFFICES ASSUME SentInv, ChunksInv, ChatInv, CodexInv, [Next]_vars PROVE CodexInv'
      OBVIOUS
  <1>0. conv' = conv /\ conv \in Converters
      BY Zenon DEF Next, vars, ConvertEvent, ConvertDone, EndStream, Deliver, SentInv
  <1>1. CASE conv.client = "claude"
    <2>1. conv'.name \in {"cc_openai", "cc_openai2"} /\ conv'.client # "responses"
      BY <1>0, <1>1, ConverterIs
    <2> QED BY <2>1 DEF CodexInv
  <1>2. CASE conv.client # "claude"
    <2>0. conv.name \notin {"cc_openai", "cc_openai2"}
            /\ (conv.from = "chat" => conv.name = "cx_resp_openai")
      BY <1>0, <1>2, ConverterIs
    <2>1. CASE ConvertEvent
      BY <1>2, <2>1, CodexConverts
    <2>2. CASE ConvertDone
      <3>1. conv.name = "cx_resp_openai"
        BY <2>0, <2>2, Zenon DEF ConvertDone
      <3> QED BY <2>2, <3>1, CodexDone
    <2>3. CASE EndStream
      <3>1. wire = << >> /\ ctx' = finalize(conv.name).ctx /\ wire' = finalize(conv.name).out
              /\ sent' = sent /\ delivered' = delivered
        BY <2>3, Zenon DEF EndStream, apply
      <3>2. finalize(conv.name) = [ctx |-> ctx, out |-> << >>]
        BY <2>0 DEF finalize
      <3>3. ctx' = ctx /\ wire' = wire
        BY <3>1, <3>2
      <3> QED BY <1>0, <3>1, <3>3, Zenon DEF CodexInv
    <2>4. CASE Deliver
      BY <1>2, <2>4, CodexDelivers
    <2>5. CASE UNCHANGED vars
      <3>1. conv' = conv /\ sent' = sent /\ ctx' = ctx /\ wire' = wire
              /\ delivered' = delivered
        BY <2>5 DEF vars
      <3> QED BY <3>1, Zenon DEF CodexInv
    <2> QED BY <2>1, <2>2, <2>3, <2>4, <2>5, Zenon DEF Next
  <1> QED BY <1>1, <1>2

\* The clients of the Codex converters have been told what their upstreams
\* sent.
LEMMA CodexIsInvariant == Spec => []CodexInv
  <1>1. Init => CodexInv /\ ChatInv
      BY CodexInit, ChatInit
  <1>2. SentInv /\ ChatInv /\ [Next]_vars => ChatInv'
      BY ChatInvNext
  <1>3. SentInv /\ ChunksInv /\ ChatInv /\ CodexInv /\ [Next]_vars => CodexInv'
      BY CodexInvNext
  <1> QED BY <1>1, <1>2, <1>3, SentIsInvariant, ChunksIsInvariant, PTL DEF Spec

\* The invariants of the six converters together say that every delta of a
\* kind they carry is relayed.
LEMMA RelayedHolds ==
    ASSUME SentInv, ToClaudeInv, ItemsInv, ChatInv, CodexInv
    PROVE  DeltasRelayed
  <1> SUFFICES ASSUME style # "any", wire = << >>
               PROVE  contentOf(delivered, Kinds) = IF conv.from = "chat"
                        THEN contentOfChunks(sent, carriedKinds)
                                                    ELSE contentOf(sent, carriedKinds)
      BY Zenon DEF DeltasRelayed
  <1>1. conv \in Converters
      BY DEF SentInv
  <1>2. CASE conv.client = "claude"
    <2>1. style = "conforming" /\ carriedKinds = Kinds
      BY <1>1, <1>2, ConverterIs DEF SentInv, carriedKinds, droppedKinds
    <2>2. ClaudeSaid
      BY ClaudeSaidHolds
    <2>3. contentOf(delivered \o wire, Kinds) = IF conv.from = "chat"
            THEN contentOfChunks(sent, Kinds) ELSE contentOf(sent, Kinds)
      BY <1>2, <2>1, <2>2, Zenon DEF ClaudeSaid
    <2>4. delivered \o wire = delivered
      <3>1. delivered \in Seq(ClaudeEvent)
        BY <1>2, <2>1, ClaudeValid
      <3> QED BY <3>1, OneMore
    <2> QED BY <2>1, <2>3, <2>4, Zenon
  <1>3. \A es, kinds : Tally(es, kinds).said = contentOf(es, kinds)
      BY DEF Tally
  <1>4. CASE conv.client = "chat"
    <2>1. delivered \o wire = delivered
      BY <1>4, OneMore DEF ChatInv
    <2>2. conv.from # "chat" /\ conv.client # "claude"
            /\ conv.name \in {"cx_chat_claude", "cx_chat_openai2"}
      BY <1>1, <1>4, ConverterIs
    <2>3. CASE conv.name = "cx_chat_claude"
      <3>1. carriedKinds = {"text"}
        BY <2>2, <2>3 DEF carriedKinds, droppedKinds, Kinds
      <3>2. Tally(delivered, Kinds).said = Tally(sent, {"text"}).said
        BY <2>1, <2>3, Zenon DEF CodexInv
      <3> QED BY <1>3, <2>2, <3>1, <3>2, Zenon
    <2>4. CASE conv.name = "cx_chat_openai2"
      <3>1. carriedKinds = CodexKinds
        BY <2>2, <2>4 DEF carriedKinds, droppedKinds, CodexKinds, Kinds
      <3>2. Tally(delivered, Kinds) = Tally(sent, CodexKinds)
        BY <2>1, <2>4, Zenon DEF CodexInv
      <3> QED BY <1>3, <2>2, <3>1, <3>2, Zenon
    <2> QED BY <2>2, <2>3, <2>4
  <1>5. CASE conv.client = "responses"
    <2>1. delivered \o wire = delivered
      BY <1>5, OneMore DEF CodexInv
    <2>2. conv.client # "claude" /\ conv.name # "cx_chat_claude"
            /\ conv.name \in {"cx_resp_claude", "cx_resp_openai"}
      BY <1>1, <1>5, ConverterIs
    <2>3. carriedKinds = CodexKinds
      BY <2>2 DEF carriedKinds, droppedKinds, CodexKinds, Kinds
    <2>4. CASE conv.name = "cx_resp_claude"
      <3>1. conv.from # "chat"
        BY <1>1, <2>4, ConverterIs
      <3>2. Tally(delivered, Kinds) = Tally(sent, CodexKinds)
        BY <2>1, <2>4, Zenon DEF CodexInv, ClaudeResp
      <3> QED BY <1>3, <2>3, <3>1, <3>2, Zenon
    <2>5. CASE conv.name = "cx_resp_openai"
      <3>1. conv.from = "chat"
        BY <1>1, <2>5, ConverterIs
      <3>2. PICK r : r = [ctx |-> ctx, out |-> wire]
        OBVIOUS
      <3>3. r.out = wire
        BY <3>2
      <3>4. Heard(delivered, r).said = contentOfChunks(sent, CodexKinds)
        BY <2>5, <3>2, Zenon DEF CodexInv, ChatResp, Stage
      <3>5. Heard(delivered, r) = Tally(delivered, Kinds)
        BY <2>1, <3>3, Zenon DEF Heard
      <3> QED BY <1>3, <2>3, <3>1, <3>4, <3>5, Zenon
    <2> QED BY <2>2, <2>4, <2>5
  <1> QED BY <1>1, <1>2, <1>4, <1>5, ConverterIs

\* Each of the six converters relays every delta, of the kinds it carries, of
\* a conforming upstream once, in order, and to the tool call it belongs to,
\* and nothing else.  Thinking is carried to Claude clients only, and the
\* calls of a Claude upstream are not carried to a chat client.
THEOREM CarriedDeltasRelayed == Spec => []DeltasRelayed
  <1>1. SentInv /\ ToClaudeInv /\ ItemsInv /\ ChatInv /\ CodexInv => DeltasRelayed
      BY RelayedHolds
  <1>2. Init => ChatInv
      BY ChatInit
  <1>3. SentInv /\ ChatInv /\ [Next]_vars => ChatInv'
      BY ChatInvNext
  <1> QED BY <1>1, <1>2, <1>3, SentIsInvariant, ToClaudeIsInvariant, ItemsIsInvariant,
        CodexIsInvariant, PTL DEF Spec
=============================================================================
