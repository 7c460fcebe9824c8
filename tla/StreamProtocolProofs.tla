------------------------ MODULE StreamProtocolProofs ------------------------
(***************************************************************************)
(* The converters against the protocols: what an upstream may have sent,   *)
(* what a client may be sent, and the converters of a chat upstream and    *)
(* those for a chat client.                                                *)
(*                                                                         *)
(* The protocols speak of whole streams of events. A stream is summarised  *)
(* by a view of it (ViewOf of a Claude stream, RView of a Responses        *)
(* stream): what is open, how many blocks or items there were, whether it  *)
(* started and stopped. One lemma per protocol says that a stream stays    *)
(* well formed when it is extended by an event its view allows; the rest   *)
(* of the proof works on views, one emitted event at a time.               *)
(*                                                                         *)
(* The converters fold over the tool calls of a chunk. What such a fold    *)
(* returns is proved by induction on the number of calls, through the      *)
(* least counterexample of a set of naturals.                              *)
(***************************************************************************)
EXTENDS StreamTransformer, ReasoningEffort, FiniteSetTheorems, SequenceTheorems,
        WellFoundedInduction, TLAPS

-----------------------------------------------------------------------------
(* Folds over sequences, flattening, and counting.                         *)

\* A non-empty set of naturals has a least element.
LEMMA Least ==
    ASSUME NEW T, T \subseteq Nat, T # {}
    PROVE  \E x \in T : \A y \in T : x <= y
<1>. DEFINE R == {ss \in Nat \X Nat : ss[1] < ss[2]}
<1>0. R = OpToRel(<, Nat)
  BY Zenon DEF OpToRel
<1>1. IsWellFoundedOn(R, Nat)
  BY <1>0, NatLessThanWellFounded, Zenon
<1>. HIDE DEF R
<1>2. PICK x \in T : \A y \in T : ~(<<y, x>> \in R)
  BY <1>1, WFMin
<1>3. ASSUME NEW y \in T, y < x PROVE FALSE
  <2>1. y \in Nat /\ x \in Nat
    OBVIOUS
  <2>2. <<y, x>> \in R
    BY <1>3, <2>1 DEF R
  <2>3. QED
    BY <1>2, <2>2
<1>4. QED
  BY <1>3

\* Induction over the naturals, with a set for the predicate.
LEMMA NatInduct ==
    ASSUME NEW S, 0 \in S, \A n \in Nat : n \in S => n + 1 \in S
    PROVE  \A n \in Nat : n \in S
<1>. SUFFICES ASSUME NEW n \in Nat, n \notin S PROVE FALSE
  OBVIOUS
<1>. DEFINE T == {k \in Nat : k \notin S}
<1>1. PICK x \in T : \A y \in T : x <= y
  BY Least
<1>2. x # 0 /\ x - 1 \in Nat /\ x - 1 \notin T
  BY <1>1
<1>3. QED
  BY <1>2

\* The maximum of a set of positions that holds the last one.
LEMMA MaxTop == ASSUME NEW m \in Nat, NEW s \in SUBSET (1..(m+1)), m+1 \in s
                PROVE Max(s) = m+1
<1>1. \A x \in s : (\A y \in s : x >= y) <=> x = m+1
  OBVIOUS
<1> QED BY <1>1 DEF Max

CalledBy(base, calls) == ToClaude!emit_tool_calls(base, calls)

\* The fold of emit_tool_call over the tool calls of a chunk.
CallFold(h, base, seq, n) ==
    /\ h[0] = base
    /\ \A k \in 1..n : h[k] = ToClaude!emit_tool_call(h[k - 1], seq[k])
    /\ CalledBy(base, seq) = h[n]

\* The fold of emit_tool_call over the tool calls of a chunk, position by
\* position.
LEMMA ToolCallsFold ==
    ASSUME NEW base, NEW seq, NEW n \in Nat, DOMAIN seq = 1..n
    PROVE  \E h : CallFold(h, base, seq, n)
  <1> DEFINE op(r, k) == ToClaude!emit_tool_call(r, seq[k])
             fix(g, m) == g = [s \in SUBSET (1..m) |->
                                 IF s = {} THEN base ELSE op(g[s \ {Max(s)}], Max(s))]
             S == {m \in Nat : \E g : fix(g, m)}
  <1>1. CalledBy(base, seq) = (CHOOSE g : fix(g, n))[1..n]
      BY Zenon DEF CalledBy, ToClaude!emit_tool_calls, ToClaude!MapThenFoldSet, ToClaude!Max,
         Max
  <1>2. \A r, k : op(r, k) = ToClaude!emit_tool_call(r, seq[k])
      OBVIOUS
  <1> HIDE DEF op, fix
  <1>3. 0 \in S
    <2> DEFINE g == [s \in SUBSET (1..0) |-> base]
    <2>1. ASSUME NEW s \in SUBSET (1..0) PROVE s = {}
      BY 1..0 = {}
    <2>2. fix(g, 0)
      BY <2>1 DEF fix
    <2> QED BY <2>2
  <1>4. ASSUME NEW m \in Nat, m \in S PROVE m + 1 \in S
    <2>1. PICK g : fix(g, m)
      BY <1>4
    <2> DEFINE h == [s \in SUBSET (1..(m + 1)) |->
                       IF m + 1 \in s THEN op(g[s \ {m + 1}], m + 1) ELSE g[s]]
    <2>2. ASSUME NEW s \in SUBSET (1..(m + 1)), m + 1 \in s
          PROVE  s # {} /\ h[s] = op(h[s \ {Max(s)}], Max(s))
      <3>1. Max(s) = m + 1
        BY <2>2, MaxTop
      <3>2. s \ {m + 1} \in SUBSET (1..(m + 1)) /\ m + 1 \notin s \ {m + 1}
        OBVIOUS
      <3>3. h[s \ {m + 1}] = g[s \ {m + 1}]
        BY <3>2
      <3> QED BY <3>1, <3>3, <2>2
    <2>3. ASSUME NEW s \in SUBSET (1..(m + 1)), m + 1 \notin s
          PROVE  h[s] = IF s = {} THEN base ELSE op(h[s \ {Max(s)}], Max(s))
      <3>1. s \in SUBSET (1..m) /\ h[s] = g[s]
        BY <2>3
      <3>2. g[s] = IF s = {} THEN base ELSE op(g[s \ {Max(s)}], Max(s))
        BY <2>1, <3>1 DEF fix
      <3>3. s \ {Max(s)} \in SUBSET (1..(m + 1)) /\ m + 1 \notin s \ {Max(s)}
        BY <2>3
      <3>4. h[s \ {Max(s)}] = g[s \ {Max(s)}]
        BY <3>3
      <3> QED BY <3>1, <3>2, <3>4
    <2>4. fix(h, m + 1)
      BY <2>2, <2>3 DEF fix
    <2> QED BY <2>4
  <1>5. n \in S
    <2> HIDE DEF S
    <2> QED BY <1>3, <1>4, NatInduct
  <1>6. PICK f : f = (CHOOSE g : fix(g, n)) /\ fix(f, n)
      BY <1>5
  <1> DEFINE h == [k \in 0..n |-> f[1..k]]
  <1>7. h[0] = base
    <2>1. 1..0 = {} /\ {} \in SUBSET (1..n) /\ h[0] = f[1..0]
      OBVIOUS
    <2> QED BY <1>6, <2>1 DEF fix
  <1>8. ASSUME NEW k \in 1..n PROVE h[k] = op(h[k - 1], k)
    <2>1. PICK m \in Nat : k = m + 1
      <3>1. k - 1 \in Nat /\ k = (k - 1) + 1
        OBVIOUS
      <3> QED BY <3>1
    <2>2. 1..(m + 1) \subseteq 1..n /\ 1 \in 1..(m + 1) /\ m + 1 \in 1..(m + 1)
      BY <2>1
    <2>3. 1..(m + 1) \in SUBSET (1..n) /\ 1..(m + 1) # {}
            /\ 1..(m + 1) \in SUBSET (1..(m + 1))
      BY <2>2
    <2>4. Max(1..(m + 1)) = m + 1
      BY <2>2, <2>3, MaxTop
    <2>5. f[1..(m + 1)] = op(f[(1..(m + 1)) \ {m + 1}], m + 1)
      BY <1>6, <2>3, <2>4 DEF fix
    <2>6. (1..(m + 1)) \ {m + 1} = 1..m
      OBVIOUS
    <2>7. h[m + 1] = f[1..(m + 1)] /\ h[m] = f[1..m] /\ k - 1 = m
      BY <2>1
    <2> HIDE DEF h
    <2> QED BY <2>1, <2>5, <2>6, <2>7
  <1>9. h[n] = f[1..n]
      OBVIOUS
  <1> HIDE DEF h
  <1>10. CallFold(h, base, seq, n)
      BY <1>1, <1>2, <1>6, <1>7, <1>8, <1>9 DEF CallFold
  <1> QED BY <1>10

\* The tool calls announced by chunks.
CallsOf(es) == FoldLeft(LAMBDA n, c : n + callsIn(c.tools), 0, es)

\* The fold of callsSoFar.
LEMMA CallsFold ==
    ASSUME NEW seq, NEW n \in Nat, DOMAIN seq = 1..n
    PROVE  \E h : /\ h[0] = 0
                  /\ \A k \in 1..n : h[k] = h[k - 1] + callsIn(seq[k].tools)
                  /\ CallsOf(seq) = h[n]
  <1> DEFINE op(r, k) == r + callsIn(seq[k].tools)
             fix(g, m) == g = [s \in SUBSET (1..m) |->
                                 IF s = {} THEN 0 ELSE op(g[s \ {Max(s)}], Max(s))]
             S == {m \in Nat : \E g : fix(g, m)}
  <1>1. CallsOf(seq) = (CHOOSE g : fix(g, n))[1..n]
      BY Zenon DEF CallsOf, FoldLeft, MapThenFoldSet
  <1>2. \A r, k : op(r, k) = r + callsIn(seq[k].tools)
      OBVIOUS
  <1> HIDE DEF op, fix
  <1>3. 0 \in S
    <2> DEFINE g == [s \in SUBSET (1..0) |-> 0]
    <2>1. ASSUME NEW s \in SUBSET (1..0) PROVE s = {}
      BY 1..0 = {}
    <2>2. fix(g, 0)
      BY <2>1 DEF fix
    <2> QED BY <2>2
  <1>4. ASSUME NEW m \in Nat, m \in S PROVE m + 1 \in S
    <2>1. PICK g : fix(g, m)
      BY <1>4
    <2> DEFINE h == [s \in SUBSET (1..(m + 1)) |->
                       IF m + 1 \in s THEN op(g[s \ {m + 1}], m + 1) ELSE g[s]]
    <2>2. ASSUME NEW s \in SUBSET (1..(m + 1)), m + 1 \in s
          PROVE  s # {} /\ h[s] = op(h[s \ {Max(s)}], Max(s))
      <3>1. Max(s) = m + 1
        BY <2>2, MaxTop
      <3>2. s \ {m + 1} \in SUBSET (1..(m + 1)) /\ m + 1 \notin s \ {m + 1}
        OBVIOUS
      <3>3. h[s \ {m + 1}] = g[s \ {m + 1}]
        BY <3>2
      <3> QED BY <3>1, <3>3, <2>2
    <2>3. ASSUME NEW s \in SUBSET (1..(m + 1)), m + 1 \notin s
          PROVE  h[s] = IF s = {} THEN 0 ELSE op(h[s \ {Max(s)}], Max(s))
      <3>1. s \in SUBSET (1..m) /\ h[s] = g[s]
        BY <2>3
      <3>2. g[s] = IF s = {} THEN 0 ELSE op(g[s \ {Max(s)}], Max(s))
        BY <2>1, <3>1 DEF fix
      <3>3. s \ {Max(s)} \in SUBSET (1..(m + 1)) /\ m + 1 \notin s \ {Max(s)}
        BY <2>3
      <3>4. h[s \ {Max(s)}] = g[s \ {Max(s)}]
        BY <3>3
      <3> QED BY <3>1, <3>2, <3>4
    <2>4. fix(h, m + 1)
      BY <2>2, <2>3 DEF fix
    <2> QED BY <2>4
  <1>5. n \in S
    <2> HIDE DEF S
    <2> QED BY <1>3, <1>4, NatInduct
  <1>6. PICK f : f = (CHOOSE g : fix(g, n)) /\ fix(f, n)
      BY <1>5
  <1> DEFINE h == [k \in 0..n |-> f[1..k]]
  <1>7. h[0] = 0
    <2>1. 1..0 = {} /\ {} \in SUBSET (1..n) /\ h[0] = f[1..0]
      OBVIOUS
    <2> QED BY <1>6, <2>1 DEF fix
  <1>8. ASSUME NEW k \in 1..n PROVE h[k] = op(h[k - 1], k)
    <2>1. PICK m \in Nat : k = m + 1
      <3>1. k - 1 \in Nat /\ k = (k - 1) + 1
        OBVIOUS
      <3> QED BY <3>1
    <2>2. 1..(m + 1) \subseteq 1..n /\ 1 \in 1..(m + 1) /\ m + 1 \in 1..(m + 1)
      BY <2>1
    <2>3. 1..(m + 1) \in SUBSET (1..n) /\ 1..(m + 1) # {}
            /\ 1..(m + 1) \in SUBSET (1..(m + 1))
      BY <2>2
    <2>4. Max(1..(m + 1)) = m + 1
      BY <2>2, <2>3, MaxTop
    <2>5. f[1..(m + 1)] = op(f[(1..(m + 1)) \ {m + 1}], m + 1)
      BY <1>6, <2>3, <2>4 DEF fix
    <2>6. (1..(m + 1)) \ {m + 1} = 1..m
      OBVIOUS
    <2>7. h[m + 1] = f[1..(m + 1)] /\ h[m] = f[1..m] /\ k - 1 = m
      BY <2>1
    <2> HIDE DEF h
    <2> QED BY <2>1, <2>5, <2>6, <2>7
  <1>9. h[n] = f[1..n]
      OBVIOUS
  <1> HIDE DEF h
  <1> QED BY <1>1, <1>2, <1>6, <1>7, <1>8, <1>9

ChatCalledBy(base, calls) == OpenAI!chat_tool_calls(base, calls)

\* The fold of chat_tool_call over at most one tool call.
LEMMA ChatCallsFold ==
    ASSUME NEW base, NEW seq, DOMAIN seq = {} \/ DOMAIN seq = {1}
    PROVE  ChatCalledBy(base, seq) = IF DOMAIN seq = {} THEN base
             ELSE OpenAI!chat_tool_call(base, seq[1])
  <1> DEFINE op(r, k) == OpenAI!chat_tool_call(r, seq[k])
             D == DOMAIN seq
             fix(g) == g = [s \in SUBSET D |-> IF s = {} THEN base
                            ELSE op(g[s \ {Max(s)}], Max(s))]
             f == CHOOSE g : fix(g)
             g1 == [s \in SUBSET D |-> IF s = {} THEN base ELSE op(base, 1)]
  <1>1. ChatCalledBy(base, seq) = f[D]
      BY Zenon DEF ChatCalledBy, OpenAI!chat_tool_calls, OpenAI!MapThenFoldSet, OpenAI!Max,
         Max
  <1>2. op(base, 1) = OpenAI!chat_tool_call(base, seq[1])
      OBVIOUS
  <1> HIDE DEF op
  <1>3. Max({1}) = 1
      BY 1..(0 + 1) = {1}, {1} \in SUBSET (1..(0 + 1)), MaxTop
  <1>4. ASSUME NEW s \in SUBSET D, s # {}
        PROVE s = {1} /\ Max(s) = 1 /\ s \ {Max(s)} = {} /\ {} \in SUBSET D
      BY <1>3, <1>4
  <1>5. fix(g1)
    <2>1. ASSUME NEW s \in SUBSET D
          PROVE g1[s] = IF s = {} THEN base ELSE op(g1[s \ {Max(s)}], Max(s))
      BY <1>4
    <2> QED BY <2>1
  <1>6. fix(f)
    <2> HIDE DEF fix, g1
    <2> QED BY <1>5
  <1> HIDE DEF f
  <1>7. f[{}] = base
      BY <1>6
  <1>8. CASE D = {}
      BY <1>1, <1>7, <1>8
  <1>9. CASE D = {1}
    <2>1. {1} \in SUBSET D /\ {1} # {}
      BY <1>9
    <2>2. f[{1}] = op(f[{1} \ {Max({1})}], Max({1}))
      BY <1>6, <2>1
    <2>3. {1} \ {1} = {}
      OBVIOUS
    <2>4. f[{1}] = op(base, 1)
      BY <1>3, <1>7, <2>2, <2>3
    <2> HIDE DEF fix
    <2>5. D # {}
      BY <1>9
    <2> QED BY <1>1, <1>2, <1>9, <2>4, <2>5
  <1> QED BY <1>8, <1>9

\* close_all_open_indices when at most one block is open.
LEMMA CloseAllOpen ==
    ASSUME NEW r, NEW x \in Nat, r.ctx.open_indices = {} \/ r.ctx.open_indices = {x}
    PROVE  RespToClaude!close_all_open_indices(r)
             = IF r.ctx.open_indices = {} THEN r ELSE RespToClaude!close_open_index(r, x)
  <1> DEFINE op(s, i) == RespToClaude!close_open_index(s, i)
             D == r.ctx.open_indices
             fix(g) == g = [s \in SUBSET D |-> IF s = {} THEN r
                            ELSE op(g[s \ {Max(s)}], Max(s))]
             f == CHOOSE g : fix(g)
             g1 == [s \in SUBSET D |-> IF s = {} THEN r ELSE op(r, x)]
  <1>1. RespToClaude!close_all_open_indices(r) = f[D]
      BY Zenon DEF RespToClaude!close_all_open_indices, RespToClaude!MapThenFoldSet,
         RespToClaude!Max, Max
  <1>2. op(r, x) = RespToClaude!close_open_index(r, x)
      OBVIOUS
  <1> HIDE DEF op
  <1>3. Max({x}) = x
      BY DEF Max
  <1>4. ASSUME D = {} \/ D = {x} PROVE f[D] = IF D = {} THEN r ELSE op(r, x)
    <2>4. ASSUME NEW s \in SUBSET D, s # {}
          PROVE s = {x} /\ Max(s) = x /\ s \ {Max(s)} = {} /\ {} \in SUBSET D
      BY <1>3, <1>4, <2>4
    <2> HIDE DEF D
    <2>5. fix(g1)
      <3>1. ASSUME NEW s \in SUBSET D
            PROVE g1[s] = IF s = {} THEN r ELSE op(g1[s \ {Max(s)}], Max(s))
        BY <2>4
      <3> QED BY <3>1
    <2>6. fix(f)
      <3> HIDE DEF fix, g1
      <3> QED BY <2>5
    <2> HIDE DEF f
    <2>7. f[{}] = r
      BY <2>6
    <2>8. CASE D = {}
      BY <2>7, <2>8
    <2>9. CASE D = {x}
      <3>1. {x} \in SUBSET D /\ {x} # {} /\ {x} \ {x} = {}
        BY <2>9
      <3>2. f[{x}] = op(f[{x} \ {Max({x})}], Max({x}))
        BY <2>6, <3>1
      <3>4. f[{x}] = op(r, x)
        BY <1>3, <2>7, <3>1, <3>2
      <3> HIDE DEF fix
      <3> QED BY <2>9, <3>1, <3>4
    <2> QED BY <1>4, <2>8, <2>9
  <1> HIDE DEF f
  <1> QED BY <1>1, <1>2, <1>4

\* The partial results of FlattenSeq.
Flattens(g, q, n) == g = [i \in 1..n |-> IF i = 1 THEN q[i] ELSE g[i - 1] \o q[i]]

\* FlattenSeq's recursive function exists for every length.
LEMMA FlattensExists ==
    ASSUME NEW q
    PROVE  \A n \in Nat : \E g : Flattens(g, q, n)
  <1> DEFINE S == {n \in Nat : \E g : Flattens(g, q, n)}
  <1>1. 0 \in S
    <2>1. Flattens([i \in 1..0 |-> 0], q, 0)
      BY DEF Flattens
    <2> QED BY <2>1
  <1>2. ASSUME NEW n \in Nat, n \in S PROVE n + 1 \in S
    <2>1. PICK g : Flattens(g, q, n)
      BY <1>2
    <2> DEFINE h == [i \in 1..(n + 1) |-> IF i = n + 1
                        THEN (IF i = 1 THEN q[i] ELSE g[n] \o q[i]) ELSE g[i]]
    <2>2. ASSUME NEW i \in 1..(n + 1)
          PROVE  h[i] = IF i = 1 THEN q[i] ELSE h[i - 1] \o q[i]
      <3>1. CASE i = n + 1
        <4>1. i # 1 => h[i - 1] = g[n]
          BY <3>1
        <4> QED BY <3>1, <4>1
      <3>2. CASE i # n + 1
        <4>1. i \in 1..n /\ h[i] = g[i]
          BY <3>2
        <4>2. i # 1 => h[i - 1] = g[i - 1]
          BY <3>2
        <4>3. g[i] = IF i = 1 THEN q[i] ELSE g[i - 1] \o q[i]
          BY <2>1, <4>1 DEF Flattens
        <4> QED BY <4>1, <4>2, <4>3
      <3> QED BY <3>1, <3>2
    <2>3. Flattens(h, q, n + 1)
      BY <2>2 DEF Flattens
    <2> QED BY <2>3
  <1> HIDE DEF S
  <1>3. \A n \in Nat : n \in S
      BY <1>1, <1>2, NatInduct
  <1> QED BY <1>3 DEF S

\* Two flattenings agree where their sequences do.
LEMMA FlattensUnique ==
    ASSUME NEW S, NEW n \in Nat, NEW m \in Nat, m <= n, NEW p, NEW q,
           \A i \in 1..m : p[i] = q[i] /\ p[i] \in Seq(S),
           NEW g, NEW h, Flattens(g, p, m), Flattens(h, q, n)
    PROVE  \A i \in 1..m : g[i] = h[i] /\ g[i] \in Seq(S)
  <1> DEFINE T == {k \in Nat : k \in 1..m => g[k] = h[k] /\ g[k] \in Seq(S)}
  <1>1. 0 \in T
      OBVIOUS
  <1>2. ASSUME NEW k \in Nat, k \in T PROVE k + 1 \in T
    <2> SUFFICES ASSUME k + 1 \in 1..m PROVE g[k + 1] = h[k + 1] /\ g[k + 1] \in Seq(S)
      OBVIOUS
    <2>1. g[k + 1] = IF k + 1 = 1 THEN p[k + 1] ELSE g[(k + 1) - 1] \o p[k + 1]
      BY DEF Flattens
    <2>2. h[k + 1] = IF k + 1 = 1 THEN q[k + 1] ELSE h[(k + 1) - 1] \o q[k + 1]
      <3>1. k + 1 \in 1..n
        OBVIOUS
      <3> QED BY <3>1 DEF Flattens
    <2>3. (k + 1) - 1 = k /\ (k + 1 # 1 => k \in 1..m)
      OBVIOUS
    <2>4. p[k + 1] = q[k + 1] /\ p[k + 1] \in Seq(S)
      OBVIOUS
    <2>5. k + 1 # 1 => g[k] = h[k] /\ g[k] \in Seq(S)
      BY <1>2, <2>3
    <2> HIDE DEF T
    <2>6. CASE k = 0
      BY <2>1, <2>2, <2>4, <2>6
    <2>7. CASE k # 0
      <3>0. k + 1 # 1
        BY <2>7
      <3>1. g[k + 1] = g[k] \o p[k + 1] /\ h[k + 1] = h[k] \o q[k + 1]
        BY <2>1, <2>2, <2>3, <3>0, Zenon
      <3>2. g[k] = h[k] /\ g[k] \in Seq(S)
        BY <2>5, <3>0
      <3>3. g[k] \o p[k + 1] \in Seq(S)
        BY <2>4, <3>2
      <3>4. g[k + 1] = h[k + 1]
        BY <3>1, <3>2, <2>4, Zenon
      <3>5. g[k + 1] \in Seq(S)
        BY <3>1, <3>3, Zenon
      <3> QED BY <3>4, <3>5
    <2> QED BY <2>6, <2>7
  <1> HIDE DEF T
  <1>3. \A k \in Nat : k \in T
      BY <1>1, <1>2, NatInduct
  <1> QED BY <1>3 DEF T

\* FlattenSeq of a sequence that is not empty, by its recursive function.
LEMMA FlattenIs ==
    ASSUME NEW q, Len(q) # 0
    PROVE  FlattenSeq(q) = (CHOOSE g : Flattens(g, q, Len(q)))[Len(q)]
  BY Zenon DEF FlattenSeq, Flattens

\* Flattening one sequence more appends it.
LEMMA FlattenAppend ==
    ASSUME NEW S, NEW q \in Seq(Seq(S)), NEW s \in Seq(S)
    PROVE  /\ FlattenSeq(q) \in Seq(S)
           /\ FlattenSeq(Append(q, s)) = FlattenSeq(q) \o s
  <1> DEFINE n == Len(q)
             p == Append(q, s)
             g == CHOOSE f : Flattens(f, q, n)
             h == CHOOSE f : Flattens(f, p, n + 1)
  <1>0. n \in Nat /\ n + 1 \in Nat /\ Len(p) = n + 1 /\ n + 1 # 0
      OBVIOUS
  <1>1. Flattens(g, q, n) /\ Flattens(h, p, n + 1)
      BY <1>0, FlattensExists
  <1>2. \A i \in 1..n : q[i] = p[i] /\ q[i] \in Seq(S)
      OBVIOUS
  <1>2a. p[n + 1] = s
      OBVIOUS
  <1>3. FlattenSeq(p) = h[n + 1]
      BY <1>0, FlattenIs, Zenon
  <1>4. h[n + 1] = IF n + 1 = 1 THEN p[n + 1] ELSE h[(n + 1) - 1] \o p[n + 1]
    <2>1. n + 1 \in 1..(n + 1)
      BY <1>0
    <2> HIDE DEF h, p, n
    <2> QED BY <1>1, <2>1, Zenon DEF Flattens
  <1>5. CASE n = 0
    <2>1. q = << >> /\ FlattenSeq(q) = q
      BY <1>5 DEF FlattenSeq
    <2>2. FlattenSeq(p) = s
      BY <1>2a, <1>3, <1>4, <1>5
    <2> HIDE DEF h, n
    <2>3. << >> \o s = s /\ << >> \in Seq(S)
      OBVIOUS
    <2> QED BY <2>1, <2>2, <2>3, Zenon
  <1>6. CASE n # 0
    <2>1. FlattenSeq(q) = g[n]
      BY <1>6, FlattenIs
    <2>2. n \in 1..n /\ (n + 1) - 1 = n /\ n + 1 # 1 /\ n <= n + 1
      BY <1>0, <1>6
    <2> HIDE DEF g, h, p, n
    <2>3. g[n] = h[n] /\ g[n] \in Seq(S)
      BY <1>0, <1>1, <1>2, <2>2, FlattensUnique
    <2>4. h[n + 1] = h[n] \o s
      BY <1>2a, <1>4, <2>2, Zenon
    <2>5. FlattenSeq(p) = FlattenSeq(q) \o s /\ FlattenSeq(q) \in Seq(S)
      BY <1>3, <2>1, <2>3, <2>4, Zenon
    <2> USE DEF p
    <2> QED BY <2>5, Zenon
  <1> QED BY <1>5, <1>6

-----------------------------------------------------------------------------
(* Streams of the Claude protocol and their views.                         *)

ClaudeTypes == {"message_start", "content_block_start", "content_block_delta",
                "content_block_stop", "message_delta", "message_stop"}

ClaudeKinds == Kinds \cup {"none", "stop", "usage"}

ClaudeEvent == [type : ClaudeTypes, kind : ClaudeKinds, index : Nat]

ClaudeEv(type, kind, index) == [type |-> type, kind |-> kind, index |-> index]

\* The size of a set of positions, and of that set with the next position.
LEMMA CountStep ==
    ASSUME NEW n \in Nat, NEW A \in SUBSET (1..n)
    PROVE  /\ Cardinality(A) \in Nat
           /\ Cardinality(A \cup {n + 1}) = Cardinality(A) + 1
           /\ Cardinality(A) <= n
  <1>1. IsFiniteSet(1..n) /\ Cardinality(1..n) = n
      BY FS_Interval
  <1>2. IsFiniteSet(A) /\ Cardinality(A) <= n
      BY <1>1, FS_Subset
  <1>3. n + 1 \notin A
      OBVIOUS
  <1> QED BY <1>2, <1>3, FS_AddElement, FS_CardinalityType

Pieces == Kinds \X Nat

pieceOf(es, kinds, i) ==
    LET k == kindOf(es[i]) IN
    IF k \notin kinds THEN << >> ELSE << <<k, IF k = "tool_use" THEN callOf(es, i) ELSE 0>> >>

announcedIn(es) == {j \in 1..Len(es) : Announces(es[j])}

\* The calls of a prefix.
LEMMA CallOfPrefix ==
    ASSUME NEW E, NEW es \in Seq(E), NEW e \in E, NEW i \in 1..Len(es)
    PROVE  callOf(Append(es, e), i) = callOf(es, i) /\ callOf(es, i) \in Nat
  <1> DEFINE fs == Append(es, e)
             A(q) == {j \in 1..i : Announces(q[j]) /\ \E k \in j..i : Announces(q[k])
                 /\ q[k].index = q[i].index}
  <1>1. Len(es) \in Nat /\ i \in Nat /\ \A j \in 1..i : fs[j] = es[j]
      OBVIOUS
  <1>2. \A j \in 1..i : i \in 1..i /\ j..i \subseteq 1..i
      BY <1>1
  <1> HIDE DEF fs
  <1>3. A(fs) = A(es)
      BY <1>1, <1>2
  <1>4. A(es) \in SUBSET (1..i)
      OBVIOUS
  <1>5. Cardinality(A(es)) \in Nat
      BY <1>1, <1>4, CountStep
  <1> QED BY <1>3, <1>5 DEF callOf, fs

\* What one more event adds to the content.
LEMMA ContentAppend ==
    ASSUME NEW E, NEW kinds \in SUBSET Kinds, NEW es \in Seq(E), NEW e \in E
    PROVE  /\ contentOf(es, kinds) \in Seq(Pieces)
           /\ contentOf(Append(es, e), kinds) = contentOf(es, kinds)
                \o pieceOf(Append(es, e), kinds, Len(es) + 1)
  <1> DEFINE fs == Append(es, e)
             n == Len(es) + 1
             q == [i \in 1..Len(es) |-> pieceOf(es, kinds, i)]
             p == [i \in 1..Len(fs) |-> pieceOf(fs, kinds, i)]
  <1>1. fs \in Seq(E) /\ Len(fs) = n /\ Len(es) \in Nat /\ n \in Nat /\ fs[n] = e
          /\ n \in 1..n
      OBVIOUS
  <1>2. ASSUME NEW es1 \in Seq(E), NEW i \in 1..Len(es1)
        PROVE  pieceOf(es1, kinds, i) \in Seq(Pieces)
    <2>1. callOf(es1, i) \in Nat
      BY CallOfPrefix
    <2>3. \A k \in Kinds, m \in Nat : << <<k, m>> >> \in Seq(Pieces)
      BY DEF Pieces
    <2>4. << >> \in Seq(Pieces)
      OBVIOUS
    <2> HIDE DEF Pieces
    <2>5. CASE kindOf(es1[i]) \notin kinds
      BY <2>4, <2>5 DEF pieceOf
    <2>6. CASE kindOf(es1[i]) \in kinds /\ kindOf(es1[i]) = "tool_use"
      <3>1. << <<kindOf(es1[i]), callOf(es1, i)>> >> \in Seq(Pieces)
        BY <2>1, <2>3, <2>6
      <3>2. pieceOf(es1, kinds, i) = << <<kindOf(es1[i]), callOf(es1, i)>> >>
        BY <2>6 DEF pieceOf
      <3> QED BY <3>1, <3>2, Zenon
    <2>7. CASE kindOf(es1[i]) \in kinds /\ kindOf(es1[i]) # "tool_use"
      <3>1. << <<kindOf(es1[i]), 0>> >> \in Seq(Pieces)
        BY <2>3, <2>7
      <3>2. pieceOf(es1, kinds, i) = << <<kindOf(es1[i]), 0>> >>
        BY <2>7 DEF pieceOf
      <3> QED BY <3>1, <3>2, Zenon
    <2> QED BY <2>5, <2>6, <2>7
  <1>3. \A i \in 1..Len(es) : pieceOf(fs, kinds, i) = pieceOf(es, kinds, i)
    <2> TAKE i \in 1..Len(es)
    <2>1. callOf(fs, i) = callOf(es, i)
      BY CallOfPrefix
    <2>2. fs[i] = es[i]
      OBVIOUS
    <2> HIDE DEF fs
    <2> QED BY <2>1, <2>2 DEF pieceOf
  <1>4. q \in Seq(Seq(Pieces)) /\ Len(q) = Len(es)
      BY <1>1, <1>2
  <1>5. pieceOf(fs, kinds, n) \in Seq(Pieces)
      BY <1>1, <1>2
  <1> HIDE DEF fs
  <1>6. p = Append(q, pieceOf(fs, kinds, n))
    <2>1. Append(q, pieceOf(fs, kinds, n)) \in Seq(Seq(Pieces))
            /\ Len(Append(q, pieceOf(fs, kinds, n))) = n
      BY <1>4, <1>5
    <2>2. ASSUME NEW i \in 1..n
          PROVE Append(q, pieceOf(fs, kinds, n))[i] = pieceOf(fs, kinds, i)
      BY <1>1, <1>3, <1>4, <1>5
    <2>3. Append(q, pieceOf(fs, kinds, n))
            = [i \in 1..n |-> Append(q, pieceOf(fs, kinds, n))[i]]
      BY <2>1
    <2> QED BY <1>1, <2>2, <2>3
  <1>7. FlattenSeq(q) \in Seq(Pieces)
          /\ FlattenSeq(p) = FlattenSeq(q) \o pieceOf(fs, kinds, n)
      BY <1>4, <1>5, <1>6, FlattenAppend
  <1>8. contentOf(es, kinds) = FlattenSeq(q) /\ contentOf(fs, kinds) = FlattenSeq(p)
      BY Zenon DEF contentOf, pieceOf
  <1> QED BY <1>7, <1>8, Zenon DEF fs

\* A piece of the arguments of the call announced last belongs to it.
LEMMA CallOfLast ==
    ASSUME NEW fs, NEW n \in Nat, Len(fs) = n, n > 0, NEW k \in 1..n, Announces(fs[k]),
           fs[k].index = fs[n].index, \A j \in announcedIn(fs) : j <= k
    PROVE  callOf(fs, n) = Cardinality(announcedIn(fs))
  <1>1. ASSUME NEW j \in 1..n, Announces(fs[j])
        PROVE  \E m \in j..n : Announces(fs[m]) /\ fs[m].index = fs[n].index
    <2>1. j <= k
      BY <1>1 DEF announcedIn
    <2> QED BY <2>1
  <1>2. {j \in 1..n : Announces(fs[j]) /\ \E m \in j..n : Announces(fs[m])
          /\ fs[m].index = fs[n].index}
          = announcedIn(fs)
      BY <1>1 DEF announcedIn
  <1> QED BY <1>2 DEF callOf

CHas(es, type) == \E i \in 1..Len(es) : es[i].type = type

CReason(es) == \E i \in 1..Len(es) : es[i].kind = "stop"

CBlocks(es) == {i \in 1..Len(es) : es[i].type = "content_block_start"}

CCalls(es) == {i \in 1..Len(es) : es[i].type = "content_block_start"
    /\ es[i].kind = "tool_use"}

COpenAt(es, i) == \A j \in i..Len(es) :
                     ~(es[j].type = "content_block_stop" /\ es[j].index = es[i].index)

COpen(es) == {i \in CBlocks(es) : COpenAt(es, i)}

ClaudeMay(es, e) ==
    \/ es = << >> /\ e = ClaudeEv("message_start", "none", 0)
    \/ /\ CHas(es, "message_start") /\ ~CHas(es, "message_stop") /\ COpen(es) = {}
       /\ \E k \in Kinds : e = ClaudeEv("content_block_start", k, Cardinality(CBlocks(es)))
    \/ \E i \in COpen(es) : e = ClaudeEv("content_block_delta", es[i].kind, es[i].index)
    \/ \E i \in COpen(es) : e = ClaudeEv("content_block_stop", "none", es[i].index)
    \/ /\ CHas(es, "message_start") /\ ~CHas(es, "message_stop")
       /\ \E k \in {"stop", "usage"} : e = ClaudeEv("message_delta", k, 0)
    \/ /\ CHas(es, "message_start") /\ COpen(es) = {}
       /\ e = ClaudeEv("message_stop", "none", 0)

CView(es) ==
    [started |-> CHas(es, "message_start"), stopped |-> CHas(es, "message_stop"),
     reason |-> CReason(es), calls |-> Cardinality(CCalls(es)),
     blocks |-> Cardinality(CBlocks(es)), said |-> contentOf(es, Kinds),
     kind |-> IF COpen(es) = {} THEN "none" ELSE es[CHOOSE i \in COpen(es) : TRUE].kind]

CShape(es) ==
    /\ es \in Seq(ClaudeEvent)
    /\ es # << >> => CHas(es, "message_start")
    /\ \A i \in COpen(es) : es[i].index + 1 = Cardinality(CBlocks(es))
    /\ \A i \in COpen(es), j \in CBlocks(es) : j <= i
    /\ \A i \in CBlocks(es) : es[i].kind \in Kinds

VMay(v, e) ==
    \/ ~v.started /\ e = ClaudeEv("message_start", "none", 0)
    \/ /\ v.started /\ ~v.stopped /\ v.kind = "none"
       /\ \E k \in Kinds : e = ClaudeEv("content_block_start", k, v.blocks)
    \/ v.kind # "none" /\ e = ClaudeEv("content_block_delta", v.kind, v.blocks - 1)
    \/ v.kind # "none" /\ e = ClaudeEv("content_block_stop", "none", v.blocks - 1)
    \/ v.started /\ ~v.stopped
         /\ \E k \in {"stop", "usage"} : e = ClaudeEv("message_delta", k, 0)
    \/ v.started /\ v.kind = "none" /\ e = ClaudeEv("message_stop", "none", 0)

VAfter(v, e) ==
    [started |-> v.started \/ e.type = "message_start",
     stopped |-> v.stopped \/ e.type = "message_stop",
     reason |-> v.reason \/ e.kind = "stop",
     calls |-> IF e.type = "content_block_start" /\ e.kind = "tool_use" THEN v.calls + 1
         ELSE v.calls,
     blocks |-> IF e.type = "content_block_start" THEN v.blocks + 1 ELSE v.blocks,
     said |-> IF e.type = "content_block_delta"
                THEN Append(v.said, <<e.kind, IF e.kind = "tool_use" THEN v.calls ELSE 0>>)
                    ELSE v.said,
     kind |-> IF e.type = "content_block_start" THEN e.kind
              ELSE IF e.type = "content_block_stop" THEN "none" ELSE v.kind]

\* What one more Claude event changes in a stream.
LEMMA CAppend ==
    ASSUME NEW es \in Seq(ClaudeEvent), NEW e \in ClaudeEvent
    PROVE  LET fs == Append(es, e) n == Len(es) + 1 IN
           /\ fs \in Seq(ClaudeEvent) /\ Len(fs) = n /\ fs[n] = e /\ fs # << >>
           /\ \A i \in 1..Len(es) : fs[i] = es[i]
           /\ \A t : CHas(fs, t) <=> CHas(es, t) \/ e.type = t
           /\ CReason(fs) <=> CReason(es) \/ e.kind = "stop"
           /\ CBlocks(fs) = IF e.type = "content_block_start" THEN CBlocks(es) \cup {n}
                ELSE CBlocks(es)
           /\ CCalls(fs) = IF e.type = "content_block_start" /\ e.kind = "tool_use"
                             THEN CCalls(es) \cup {n} ELSE CCalls(es)
           /\ COpen(fs) = IF e.type = "content_block_start" THEN COpen(es) \cup {n}
                          ELSE {i \in COpen(es) : ~(e.type = "content_block_stop"
                              /\ e.index = es[i].index)}
  <1> DEFINE fs == Append(es, e)
             n == Len(es) + 1
  <1>1. fs \in Seq(ClaudeEvent) /\ Len(fs) = n /\ fs[n] = e /\ fs # << >> /\ Len(es) \in Nat
      OBVIOUS
  <1>2. \A i \in 1..Len(es) : fs[i] = es[i]
      OBVIOUS
  <1>3. 1..n = 1..Len(es) \cup {n} /\ n \notin 1..Len(es)
      BY <1>1
  <1> HIDE DEF fs
  <1>4. \A t : CHas(fs, t) <=> CHas(es, t) \/ e.type = t
      BY <1>1, <1>2, <1>3 DEF CHas
  <1>5. CReason(fs) <=> CReason(es) \/ e.kind = "stop"
      BY <1>1, <1>2, <1>3 DEF CReason
  <1>6. CBlocks(fs) = IF e.type = "content_block_start" THEN CBlocks(es) \cup {n}
          ELSE CBlocks(es)
      BY <1>1, <1>2, <1>3 DEF CBlocks
  <1>7. CCalls(fs) = IF e.type = "content_block_start" /\ e.kind = "tool_use"
                             THEN CCalls(es) \cup {n} ELSE CCalls(es)
      BY <1>1, <1>2, <1>3 DEF CCalls
  <1>8. ASSUME NEW i \in 1..Len(es)
        PROVE COpenAt(fs, i)
                 <=> COpenAt(es, i)
                 /\ ~(e.type = "content_block_stop" /\ e.index = es[i].index)
    <2>1. i..n = i..Len(es) \cup {n} /\ i..Len(es) \subseteq 1..Len(es)
      BY <1>1
    <2> QED BY <1>1, <1>2, <2>1 DEF COpenAt
  <1>9. e.type = "content_block_start" => COpenAt(fs, n)
    <2>1. n..n = {n}
      BY <1>1
    <2> QED BY <1>1, <2>1 DEF COpenAt
  <1>10. COpen(fs) = IF e.type = "content_block_start" THEN COpen(es) \cup {n}
                          ELSE {i \in COpen(es) : ~(e.type = "content_block_stop"
                              /\ e.index = es[i].index)}
    <2>1. CBlocks(es) \subseteq 1..Len(es)
      BY DEF CBlocks
    <2>2. \A i \in CBlocks(es) : COpenAt(fs, i)
            <=> COpenAt(es, i) /\ ~(e.type = "content_block_stop" /\ e.index = es[i].index)
      BY <1>8, <2>1
    <2> HIDE DEF n
    <2> QED BY <1>6, <2>2, <1>9 DEF COpen
  <1> QED BY <1>1, <1>2, <1>4, <1>5, <1>6, <1>7, <1>10 DEF fs

ViewType == [started : BOOLEAN, stopped : BOOLEAN, reason : BOOLEAN, calls : Nat,
             blocks : Nat, said : Seq(Pieces),
             kind : Kinds \cup {"none"}]

\* The tool calls a Claude stream announces are its tool_use blocks.
LEMMA CAnnounced ==
    ASSUME NEW es \in Seq(ClaudeEvent)
    PROVE  announcedIn(es) = CCalls(es)
  <1>1. \A x \in ClaudeEvent : Announces(x)
          <=> x.type = "content_block_start" /\ x.kind = "tool_use"
      BY DEF Announces, ClaudeEvent, ClaudeTypes
  <1>2. \A i \in 1..Len(es) : es[i] \in ClaudeEvent
      OBVIOUS
  <1> QED BY <1>1, <1>2 DEF announcedIn, CCalls

\* The content of a Claude stream is a sequence of pieces.
LEMMA CContentTyped ==
    ASSUME NEW es \in Seq(ClaudeEvent)
    PROVE  contentOf(es, Kinds) \in Seq(Pieces)
  <1>1. ClaudeEv("message_stop", "none", 0) \in ClaudeEvent
      BY DEF ClaudeEv, ClaudeEvent, ClaudeTypes, ClaudeKinds
  <1> QED BY <1>1, Kinds \in SUBSET Kinds, ContentAppend

\* The view of a well-formed Claude stream says which block is open and how
\* many there are.
LEMMA CViewOf ==
    ASSUME NEW es, CShape(es)
    PROVE  /\ CView(es) \in ViewType
           /\ CView(es).kind = "none" <=> COpen(es) = {}
           /\ \A i \in COpen(es) : /\ es[i].kind = CView(es).kind
                                   /\ es[i].index = CView(es).blocks - 1
           /\ CView(es).blocks = Cardinality(CBlocks(es))
           /\ CView(es).kind # "none" => CView(es).blocks > 0
           /\ CView(es).blocks <= Len(es)
  <1>1. es \in Seq(ClaudeEvent) /\ Len(es) \in Nat
      BY DEF CShape
  <1>2. CBlocks(es) \in SUBSET (1..Len(es)) /\ CCalls(es) \in SUBSET (1..Len(es))
      BY DEF CBlocks, CCalls
  <1>3. /\ Cardinality(CBlocks(es)) \in Nat /\ Cardinality(CCalls(es)) \in Nat
        /\ Cardinality(CBlocks(es)) <= Len(es)
      BY <1>1, <1>2, CountStep
  <1>4. COpen(es) \subseteq CBlocks(es)
      BY DEF COpen
  <1>5. \A i \in COpen(es) : es[i].kind \in Kinds
          /\ es[i].index + 1 = Cardinality(CBlocks(es))
                              /\ es[i].index \in Nat
    <2>1. \A i \in 1..Len(es) : es[i] \in ClaudeEvent /\ es[i].index \in Nat
      <3>1. \A i \in 1..Len(es) : es[i] \in ClaudeEvent
        BY <1>1
      <3> QED BY <3>1 DEF ClaudeEvent
    <2> QED BY <1>2, <1>4, <2>1 DEF CShape
  <1>6. ASSUME NEW i \in COpen(es)
        PROVE  CView(es).kind = es[i].kind
    <2>1. \A j \in COpen(es) : j = i
      BY <1>1, <1>2, <1>4 DEF CShape
    <2>2. (CHOOSE j \in COpen(es) : TRUE) = i
      BY <2>1
    <2> QED BY <2>2 DEF CView
  <1>7. COpen(es) = {} => CView(es).kind = "none"
      BY DEF CView
  <1>8. "none" \notin Kinds
      BY DEF Kinds
  <1>9. CView(es).kind \in Kinds \cup {"none"} /\ (CView(es).kind = "none" <=> COpen(es) = {})
      BY <1>5, <1>6, <1>7, <1>8
  <1>10. CView(es).started \in BOOLEAN /\ CView(es).stopped \in BOOLEAN
           /\ CView(es).reason \in BOOLEAN
         /\ CView(es).calls = Cardinality(CCalls(es)) /\ CView(es).said = contentOf(es, Kinds)
              /\ CView(es).blocks = Cardinality(CBlocks(es))
      BY DEF CView, CHas, CReason
  <1>11. CView(es) = [started |-> CView(es).started, stopped |-> CView(es).stopped, reason |-> CView(es).reason,
                      calls |-> CView(es).calls, blocks |-> CView(es).blocks,
                          said |-> CView(es).said, kind |-> CView(es).kind]
      BY DEF CView
  <1>12. CView(es) \in ViewType
      BY <1>1, <1>3, <1>9, <1>10, <1>11, CContentTyped DEF ViewType
  <1> QED BY <1>3, <1>5, <1>6, <1>9, <1>10, <1>12

\* On a shaped log the protocol and the view allow the same events.
LEMMA CMayView ==
    ASSUME NEW es, CShape(es), NEW e
    PROVE  ClaudeMay(es, e) <=> VMay(CView(es), e)
  <1>1. CView(es).started = CHas(es, "message_start")
          /\ CView(es).stopped = CHas(es, "message_stop")
      BY DEF CView
  <1>2. (es = << >>) <=> ~CHas(es, "message_start")
      BY DEF CShape, CHas
  <1> QED BY <1>1, <1>2, CViewOf DEF ClaudeMay, VMay

\* What a Claude stream may send next is a Claude event.
LEMMA CMayTyped ==
    ASSUME NEW v \in ViewType, NEW e, VMay(v, e), v.kind # "none" => v.blocks > 0
    PROVE  e \in ClaudeEvent
  <1>1. v.blocks \in Nat /\ v.kind \in ClaudeKinds
      BY DEF ViewType, ClaudeKinds
  <1>2. \A t \in ClaudeTypes, k \in ClaudeKinds, x \in Nat : ClaudeEv(t, k, x) \in ClaudeEvent
      BY DEF ClaudeEv, ClaudeEvent
  <1>3. v.kind # "none" => v.blocks - 1 \in Nat
      BY <1>1
  <1> QED BY <1>1, <1>2, <1>3 DEF VMay, ClaudeTypes, ClaudeKinds

\* A Claude stream stays well formed by an event it may send, and its view
\* follows.
LEMMA CStep ==
    ASSUME NEW es, CShape(es), NEW e, VMay(CView(es), e)
    PROVE  /\ e \in ClaudeEvent
           /\ CShape(Append(es, e))
           /\ CView(Append(es, e)) = VAfter(CView(es), e)
  <1> DEFINE fs == Append(es, e)
             n == Len(es) + 1
             v == CView(es)
  <1>1. e \in ClaudeEvent
      BY CViewOf, CMayTyped
  <1>2. es \in Seq(ClaudeEvent) /\ Len(es) \in Nat
      BY DEF CShape
  <1>3. /\ fs \in Seq(ClaudeEvent) /\ Len(fs) = n /\ fs[n] = e /\ fs # << >>
        /\ \A i \in 1..Len(es) : fs[i] = es[i]
        /\ \A t : CHas(fs, t) <=> CHas(es, t) \/ e.type = t
        /\ CReason(fs) <=> CReason(es) \/ e.kind = "stop"
        /\ CBlocks(fs) = IF e.type = "content_block_start" THEN CBlocks(es) \cup {n}
             ELSE CBlocks(es)
        /\ CCalls(fs) = IF e.type = "content_block_start" /\ e.kind = "tool_use"
                             THEN CCalls(es) \cup {n} ELSE CCalls(es)
        /\ COpen(fs) = IF e.type = "content_block_start" THEN COpen(es) \cup {n}
                          ELSE {i \in COpen(es) : ~(e.type = "content_block_stop"
                              /\ e.index = es[i].index)}
      BY <1>1, <1>2, CAppend
  <1>4. /\ CBlocks(es) \in SUBSET (1..Len(es)) /\ CCalls(es) \in SUBSET (1..Len(es))
        /\ COpen(es) \subseteq CBlocks(es)
      BY DEF CBlocks, CCalls, COpen
  <1>5. /\ Cardinality(CBlocks(fs)) = IF e.type = "content_block_start" THEN v.blocks + 1
             ELSE v.blocks
        /\ Cardinality(CCalls(fs)) = IF e.type = "content_block_start" /\ e.kind = "tool_use"
                                       THEN v.calls + 1 ELSE v.calls
      BY <1>2, <1>3, <1>4, CountStep DEF CView
  <1>6. /\ v \in ViewType
        /\ v.kind = "none" <=> COpen(es) = {}
        /\ \A i \in COpen(es) : es[i].kind = v.kind /\ es[i].index = v.blocks - 1
        /\ v.blocks = Cardinality(CBlocks(es))
        /\ v.kind # "none" => v.blocks > 0
      BY CViewOf
  <1> HIDE DEF fs, v
  <1>7. CHas(fs, "message_start")
    <2>1. v.started = CHas(es, "message_start")
      BY DEF v, CView
    <2>2. e.type = "message_start" \/ v.started \/ v.kind # "none"
      BY DEF VMay, ClaudeEv, v
    <2>3. COpen(es) # {} => es # << >>
      BY <1>4 DEF CBlocks
    <2> QED BY <1>3, <1>6, <2>1, <2>2, <2>3 DEF CShape
  <1>b. contentOf(fs, Kinds) = IF e.type = "content_block_delta"
                THEN Append(v.said, <<e.kind, IF e.kind = "tool_use" THEN v.calls ELSE 0>>)
                    ELSE v.said
    <2>1. contentOf(es, Kinds) \in Seq(Pieces)
            /\ contentOf(fs, Kinds) = contentOf(es, Kinds) \o pieceOf(fs, Kinds, n)
      BY <1>1, <1>2, Kinds \in SUBSET Kinds, ContentAppend, Zenon DEF fs
    <2>2. v.said = contentOf(es, Kinds) /\ v.calls = Cardinality(CCalls(es))
      BY DEF v, CView
    <2>3. CASE e.type # "content_block_delta"
      <3>1. kindOf(e) \notin Kinds
        BY <1>1, <2>3 DEF kindOf, ClaudeEvent, ClaudeTypes, Kinds
      <3>2. pieceOf(fs, Kinds, n) = << >>
        BY <1>3, <3>1 DEF pieceOf
      <3> QED BY <2>1, <2>2, <2>3, <3>2
    <2>4. CASE e.type = "content_block_delta"
      <3>1. kindOf(e) = e.kind /\ e.kind = v.kind /\ v.kind # "none" /\ e.index = v.blocks - 1
            /\ v.kind \in Kinds
        BY <1>6, <2>4 DEF kindOf, VMay, ClaudeEv, v, ViewType
      <3>2. e.kind = "tool_use" => callOf(fs, n) = v.calls
        <4> SUFFICES ASSUME e.kind = "tool_use" PROVE callOf(fs, n) = v.calls
          OBVIOUS
        <4>1. PICK k \in COpen(es) : TRUE
          BY <1>6, <3>1
        <4>2. k \in 1..Len(es) /\ es[k].type = "content_block_start"
                /\ es[k].kind = "tool_use"
              /\ es[k].index = v.blocks - 1 /\ fs[k] = es[k]
          BY <1>3, <1>4, <1>6, <3>1 DEF CBlocks
        <4>3. announcedIn(fs) = CCalls(es)
          BY <1>3, <2>4, CAnnounced
        <4>4. \A j \in announcedIn(fs) : j <= k
          BY <4>3, <4>1 DEF CShape, CCalls, CBlocks
        <4>5. Announces(fs[k]) /\ fs[k].index = fs[n].index /\ k \in 1..n
          BY <1>2, <1>3, <3>1, <4>2 DEF Announces
        <4>6. n \in Nat /\ n > 0
          BY <1>2
        <4> HIDE DEF n
        <4> QED BY <1>3, <2>2, <4>3, <4>4, <4>5, <4>6, CallOfLast
      <3>3. pieceOf(fs, Kinds, n)
              = << <<e.kind, IF e.kind = "tool_use" THEN v.calls ELSE 0>> >>
        <4> HIDE DEF n
        <4> QED BY <1>3, <3>1, <3>2 DEF pieceOf
      <3>4. <<e.kind, IF e.kind = "tool_use" THEN v.calls ELSE 0>> \in Pieces
        <4>1. e.kind \in Kinds /\ v.calls \in Nat
          BY <1>6, <3>1 DEF ViewType
        <4> QED BY <4>1 DEF Pieces
      <3> DEFINE x == <<e.kind, IF e.kind = "tool_use" THEN v.calls ELSE 0>>
      <3>5. x \in Pieces /\ pieceOf(fs, Kinds, n) = <<x>>
        BY <3>3, <3>4
      <3> HIDE DEF x
      <3>6. contentOf(es, Kinds) \o <<x>> = Append(contentOf(es, Kinds), x)
        BY <2>1, <3>5
      <3> QED BY <2>1, <2>2, <2>4, <3>5, <3>6 DEF x
    <2> QED BY <2>3, <2>4
  <1>a. ASSUME CView(fs).kind = (IF e.type = "content_block_start" THEN e.kind
                                  ELSE IF e.type = "content_block_stop" THEN "none"
                                      ELSE v.kind)
        PROVE  CView(fs) = VAfter(v, e)
    <2>1. v.started = CHas(es, "message_start") /\ v.stopped = CHas(es, "message_stop")
            /\ v.reason = CReason(es)
      BY DEF v, CView
    <2>2. /\ CHas(fs, "message_start") = (v.started \/ e.type = "message_start")
          /\ CHas(fs, "message_stop") = (v.stopped \/ e.type = "message_stop")
          /\ CReason(fs) = (v.reason \/ e.kind = "stop")
      <3>1. /\ CHas(fs, "message_start") \in BOOLEAN /\ CHas(fs, "message_stop") \in BOOLEAN
                 /\ CReason(fs) \in BOOLEAN
            /\ CHas(es, "message_start") \in BOOLEAN /\ CHas(es, "message_stop") \in BOOLEAN
                 /\ CReason(es) \in BOOLEAN
        BY DEF CHas, CReason
      <3> QED BY <1>3, <2>1, <3>1
    <2>3. CView(fs) = [started |-> CHas(fs, "message_start"), stopped |-> CHas(fs, "message_stop"),
                       reason |-> CReason(fs), calls |-> Cardinality(CCalls(fs)),
                       blocks |-> Cardinality(CBlocks(fs)), said |-> contentOf(fs, Kinds),
                           kind |-> CView(fs).kind]
      BY DEF CView
    <2> QED BY <1>5, <1>b, <1>a, <2>2, <2>3 DEF VAfter
  <1>8. CASE e.type = "content_block_start"
    <2>1. v.kind = "none" /\ e.kind \in Kinds /\ e.index = v.blocks /\ COpen(es) = {}
      BY <1>8, <1>6 DEF VMay, ClaudeEv, v
    <2>2. COpen(fs) = {n}
      BY <1>3, <1>8, <2>1
    <2>3. CShape(fs)
      <3>1. \A i \in CBlocks(fs) : fs[i].kind \in Kinds
        BY <1>3, <1>4, <1>8, <2>1 DEF CShape
      <3> QED BY <1>2, <1>3, <1>4, <1>5, <1>7, <1>8, <2>1, <2>2, <3>1 DEF CShape
    <2>4. (CHOOSE i \in COpen(fs) : TRUE) = n
      BY <2>2
    <2>5. CView(fs).kind = e.kind
      BY <2>2, <2>4, <1>3 DEF CView
    <2> HIDE DEF n
    <2>6. CView(fs) = VAfter(v, e)
      BY <1>a, <1>8, <2>5
    <2> QED BY <1>1, <2>3, <2>6 DEF fs, v
  <1>9. CASE e.type = "content_block_stop"
    <2>1. e.index = v.blocks - 1 /\ v.kind # "none"
      BY <1>9 DEF VMay, ClaudeEv, v
    <2>2. COpen(fs) = {}
      BY <1>3, <1>6, <1>9, <2>1
    <2>3. CShape(fs)
      <3>1. \A i \in CBlocks(fs) : fs[i].kind \in Kinds
        BY <1>3, <1>4, <1>9 DEF CShape
      <3> QED BY <1>3, <1>5, <1>7, <2>2, <3>1 DEF CShape
    <2>4. CView(fs).kind = "none"
      BY <2>2 DEF CView
    <2> HIDE DEF n
    <2>5. CView(fs) = VAfter(v, e)
      BY <1>a, <1>9, <2>4
    <2> QED BY <1>1, <2>3, <2>5 DEF fs, v
  <1>10. CASE e.type \notin {"content_block_start", "content_block_stop"}
    <2>1. COpen(fs) = COpen(es) /\ CBlocks(fs) = CBlocks(es)
      BY <1>3, <1>10
    <2>2. \A i \in COpen(es) : fs[i] = es[i]
      BY <1>3, <1>4
    <2>3. CShape(fs)
      <3>1. \A i \in CBlocks(fs) : fs[i].kind \in Kinds
        BY <1>3, <1>4, <2>1 DEF CShape
      <3> QED BY <1>3, <1>7, <2>1, <2>2, <3>1 DEF CShape
    <2>4. CView(fs).kind = v.kind
      <3>1. COpen(es) # {} => (CHOOSE i \in COpen(es) : TRUE) \in COpen(es)
        OBVIOUS
      <3> QED BY <2>1, <2>2, <3>1 DEF CView, v
    <2> HIDE DEF n
    <2>5. CView(fs) = VAfter(v, e)
      BY <1>a, <1>10, <2>4
    <2> QED BY <1>1, <2>3, <2>5 DEF fs, v
  <1> QED BY <1>8, <1>9, <1>10

CValid(es) == CShape(es) /\ \A k \in Nat : k < Len(es)
    => ClaudeMay(SubSeq(es, 1, k), es[k + 1])

\* The empty Claude stream and its view.
LEMMA CValidEmpty == CValid(<< >>)
    /\ CView(<< >>) = [started |-> FALSE, stopped |-> FALSE, reason |-> FALSE,
                                  calls |-> 0, blocks |-> 0, said |-> << >>, kind |-> "none"]
  <1>1. CBlocks(<< >>) = {} /\ CCalls(<< >>) = {} /\ COpen(<< >>) = {}
      BY DEF CBlocks, CCalls, COpen
  <1>0. contentOf(<< >>, Kinds) = << >>
      BY DEF contentOf, FlattenSeq
  <1>2. CHas(<< >>, "message_start") = FALSE /\ CHas(<< >>, "message_stop") = FALSE
          /\ CReason(<< >>) = FALSE
      BY DEF CHas, CReason
  <1>3. CShape(<< >>)
      BY <1>1 DEF CShape
  <1>4. CView(<< >>) = [started |-> FALSE, stopped |-> FALSE, reason |-> FALSE,
                                  calls |-> 0, blocks |-> 0, said |-> << >>, kind |-> "none"]
      BY <1>0, <1>1, <1>2, FS_EmptySet DEF CView
  <1> QED BY <1>3, <1>4 DEF CValid

\* A Claude stream extended by an event it may send.
LEMMA CExtend ==
    ASSUME NEW es, CValid(es), NEW e, VMay(CView(es), e)
    PROVE  CValid(Append(es, e)) /\ CView(Append(es, e)) = VAfter(CView(es), e)
  <1>1. /\ e \in ClaudeEvent /\ CShape(Append(es, e))
        /\ CView(Append(es, e)) = VAfter(CView(es), e)
      BY CStep DEF CValid
  <1>2. es \in Seq(ClaudeEvent) /\ Len(es) \in Nat
      BY DEF CValid, CShape
  <1>3. ASSUME NEW k \in Nat, k < Len(Append(es, e))
        PROVE  ClaudeMay(SubSeq(Append(es, e), 1, k), Append(es, e)[k + 1])
    <2>1. CASE k < Len(es)
      <3>1. SubSeq(Append(es, e), 1, k) = SubSeq(es, 1, k) /\ Append(es, e)[k + 1] = es[k + 1]
        BY <1>1, <1>2, <2>1
      <3> QED BY <2>1, <3>1 DEF CValid
    <2>2. CASE k = Len(es)
      <3>1. SubSeq(Append(es, e), 1, k) = es /\ Append(es, e)[k + 1] = e
        BY <1>1, <1>2, <2>2
      <3> QED BY <3>1, CMayView DEF CValid
    <2> QED BY <1>1, <1>2, <1>3, <2>1, <2>2
  <1> QED BY <1>1, <1>3 DEF CValid

\* The next event of a Claude stream is one the client may be sent.
LEMMA CDeliver ==
    ASSUME NEW d \in Seq(ClaudeEvent), NEW w \in Seq(ClaudeEvent), w # << >>, CValid(d \o w)
    PROVE  ClaudeMay(d, w[1])
  <1>1. Len(d) \in Nat /\ Len(d) < Len(d \o w) /\ (d \o w)[Len(d) + 1] = w[1]
      OBVIOUS
  <1>2. SubSeq(d \o w, 1, Len(d)) = d
      OBVIOUS
  <1> QED BY <1>1, <1>2 DEF CValid

-----------------------------------------------------------------------------
(* openai_stream_to_claude: each emission is one the Claude protocol       *)
(* allows, and keeps the context linked to the view of the client.         *)

ChatCtx == [message_start_sent : BOOLEAN, finish_reason_sent : BOOLEAN,
            content_index : Nat, content_block_started : BOOLEAN,
            thinking_index : Nat, thinking_block_started : BOOLEAN,
            tool_index : Nat, tool_block_started : BOOLEAN]

ToClaudeResult == [ctx : ChatCtx, out : Seq(ClaudeEvent)]

\* What the context of a chat upstream says of the blocks the client sees.
Linked(c, v) ==
    /\ c.message_start_sent = v.started
    /\ c.finish_reason_sent = v.reason
    /\ c.content_block_started <=> v.kind = "text"
    /\ c.thinking_block_started <=> v.kind = "thinking"
    /\ c.tool_block_started <=> v.kind = "tool_use"
    /\ v.kind = "text" => c.content_index = v.blocks - 1
    /\ v.kind = "thinking"
         => c.thinking_index = v.blocks - 1 /\ c.content_index = v.blocks - 1
    /\ v.kind = "tool_use" => c.tool_index = v.blocks - 1 /\ c.content_index = v.blocks - 1
    /\ c.finish_reason_sent => v.kind = "none"

Tracks(d, r) ==
    /\ r \in ToClaudeResult
    /\ CValid(d \o r.out)
    /\ Linked(r.ctx, CView(d \o r.out))

\* Between blocks the next index is free.
Ready(c, v) == v.started /\ ~v.stopped /\ ~c.finish_reason_sent
    /\ (v.kind = "none" => c.content_index = v.blocks)

Feeds(d, r) == Tracks(d, r) /\ Ready(r.ctx, CView(d \o r.out))

\* The view of a Claude stream has its type.
LEMMA ViewOfValid ==
    ASSUME NEW es, CValid(es)
    PROVE  /\ CView(es) \in ViewType
           /\ CView(es).kind # "none" => CView(es).blocks > 0
           /\ es \in Seq(ClaudeEvent)
  BY CViewOf DEF CValid, CShape

\* emit appends one event and leaves the context alone.
LEMMA EmitIs ==
    ASSUME NEW r \in ToClaudeResult, NEW e \in ClaudeEvent
    PROVE  ToClaude!emit(r, e) = [ctx |-> r.ctx, out |-> Append(r.out, e)]
  <1>1. PICK p : p = Append(r.out, e)
      OBVIOUS
  <1>2. PICK c, o : r = [ctx |-> c, out |-> o]
      BY DEF ToClaudeResult
  <1>3. [r EXCEPT !.out = p] = [ctx |-> r.ctx, out |-> p]
      BY ONLY <1>2
  <1> QED BY <1>1, <1>3 DEF ToClaude!emit

\* emit of an event the stream may send next.
LEMMA Emit ==
    ASSUME NEW d \in Seq(ClaudeEvent), NEW r \in ToClaudeResult, CValid(d \o r.out),
           NEW e, VMay(CView(d \o r.out), e)
    PROVE  /\ ToClaude!emit(r, e) \in ToClaudeResult
           /\ ToClaude!emit(r, e).ctx = r.ctx
           /\ ToClaude!emit(r, e).out = Append(r.out, e)
           /\ CValid(d \o Append(r.out, e))
           /\ CView(d \o Append(r.out, e)) = VAfter(CView(d \o r.out), e)
  <1>1. r.out \in Seq(ClaudeEvent) /\ r.ctx \in ChatCtx
      BY DEF ToClaudeResult
  <1>2. e \in ClaudeEvent
      BY ViewOfValid, CMayTyped
  <1>3. ToClaude!emit(r, e) = [ctx |-> r.ctx, out |-> Append(r.out, e)]
      BY <1>2, EmitIs
  <1>4. d \o Append(r.out, e) = Append(d \o r.out, e)
      BY <1>1, <1>2
  <1>5. Append(r.out, e) \in Seq(ClaudeEvent)
      BY <1>1, <1>2
  <1>6. CValid(d \o Append(r.out, e))
          /\ CView(d \o Append(r.out, e)) = VAfter(CView(d \o r.out), e)
      BY <1>4, CExtend
  <1>7. [ctx |-> r.ctx, out |-> Append(r.out, e)] \in ToClaudeResult
      BY <1>1, <1>5 DEF ToClaudeResult
  <1> QED BY <1>3, <1>6, <1>7

\* The updates of the context.
LEMMA Updates ==
    ASSUME NEW c \in ChatCtx, NEW n \in Nat
    PROVE  /\ [c EXCEPT !.content_block_started = FALSE] \in ChatCtx
           /\ [c EXCEPT !.content_block_started = TRUE] \in ChatCtx
           /\ [c EXCEPT !.content_block_started = FALSE, !.content_index = n] \in ChatCtx
           /\ [c EXCEPT !.thinking_block_started = FALSE, !.content_index = n] \in ChatCtx
           /\ [c EXCEPT !.thinking_block_started = TRUE, !.thinking_index = n] \in ChatCtx
           /\ [c EXCEPT !.tool_block_started = FALSE] \in ChatCtx
           /\ [c EXCEPT !.tool_block_started = FALSE, !.content_index = n] \in ChatCtx
           /\ [c EXCEPT !.tool_block_started = TRUE, !.tool_index = n] \in ChatCtx
           /\ [c EXCEPT !.message_start_sent = TRUE] \in ChatCtx
           /\ [c EXCEPT !.finish_reason_sent = TRUE] \in ChatCtx
           /\ [c EXCEPT !.content_index = n] \in ChatCtx
  BY DEF ChatCtx

\* Closing the text block in the context of a result.
LEMMA NestCloseText ==
    ASSUME NEW r \in ToClaudeResult
    PROVE  /\ [r EXCEPT !.ctx.content_block_started = FALSE] \in ToClaudeResult
           /\ [r EXCEPT !.ctx.content_block_started = FALSE].out = r.out
           /\ [r EXCEPT !.ctx.content_block_started = FALSE].ctx
                = [r.ctx EXCEPT !.content_block_started = FALSE]
  <1>1. [r.ctx EXCEPT !.content_block_started = FALSE] \in ChatCtx
      BY Updates, Zenon DEF ToClaudeResult
  <1>2. /\ [r EXCEPT !.ctx.content_block_started = FALSE]
             = [r EXCEPT !.ctx = [r.ctx EXCEPT !.content_block_started = FALSE]]
        /\ [r EXCEPT !.ctx.content_block_started = FALSE].out = r.out
             /\ [r EXCEPT !.ctx.content_block_started = FALSE].ctx
             = [r.ctx EXCEPT !.content_block_started = FALSE]
      BY <1>1 DEF ToClaudeResult
  <1>3. \A b \in ChatCtx : [r EXCEPT !.ctx = b] \in ToClaudeResult
      BY DEF ToClaudeResult
  <1> QED BY <1>1, <1>2, <1>3

\* Opening the text block in the context of a result.
LEMMA NestOpenText ==
    ASSUME NEW r \in ToClaudeResult
    PROVE  /\ [r EXCEPT !.ctx.content_block_started = TRUE] \in ToClaudeResult
           /\ [r EXCEPT !.ctx.content_block_started = TRUE].out = r.out
           /\ [r EXCEPT !.ctx.content_block_started = TRUE].ctx
                = [r.ctx EXCEPT !.content_block_started = TRUE]
  <1>1. [r.ctx EXCEPT !.content_block_started = TRUE] \in ChatCtx
      BY Updates, Zenon DEF ToClaudeResult
  <1>2. /\ [r EXCEPT !.ctx.content_block_started = TRUE]
             = [r EXCEPT !.ctx = [r.ctx EXCEPT !.content_block_started = TRUE]]
        /\ [r EXCEPT !.ctx.content_block_started = TRUE].out = r.out
             /\ [r EXCEPT !.ctx.content_block_started = TRUE].ctx
             = [r.ctx EXCEPT !.content_block_started = TRUE]
      BY <1>1 DEF ToClaudeResult
  <1>3. \A b \in ChatCtx : [r EXCEPT !.ctx = b] \in ToClaudeResult
      BY DEF ToClaudeResult
  <1> QED BY <1>1, <1>2, <1>3, Zenon

\* Closing the tool block in the context of a result.
LEMMA NestCloseTool ==
    ASSUME NEW r \in ToClaudeResult
    PROVE  /\ [r EXCEPT !.ctx.tool_block_started = FALSE] \in ToClaudeResult
           /\ [r EXCEPT !.ctx.tool_block_started = FALSE].out = r.out
           /\ [r EXCEPT !.ctx.tool_block_started = FALSE].ctx
                = [r.ctx EXCEPT !.tool_block_started = FALSE]
  <1>1. [r.ctx EXCEPT !.tool_block_started = FALSE] \in ChatCtx
      BY Updates, Zenon DEF ToClaudeResult
  <1>2. /\ [r EXCEPT !.ctx.tool_block_started = FALSE]
             = [r EXCEPT !.ctx = [r.ctx EXCEPT !.tool_block_started = FALSE]]
        /\ [r EXCEPT !.ctx.tool_block_started = FALSE].out = r.out
             /\ [r EXCEPT !.ctx.tool_block_started = FALSE].ctx
             = [r.ctx EXCEPT !.tool_block_started = FALSE]
      BY <1>1 DEF ToClaudeResult
  <1>3. \A b \in ChatCtx : [r EXCEPT !.ctx = b] \in ToClaudeResult
      BY DEF ToClaudeResult
  <1> QED BY <1>1, <1>2, <1>3, Zenon

\* Closing the thinking block in the context of a result.
LEMMA NestCloseThinking ==
    ASSUME NEW r \in ToClaudeResult, NEW n \in Nat
    PROVE  /\ [r EXCEPT !.ctx.thinking_block_started = FALSE,
                !.ctx.content_index = n] \in ToClaudeResult
           /\ [r EXCEPT !.ctx.thinking_block_started = FALSE, !.ctx.content_index = n].out
                = r.out
           /\ [r EXCEPT !.ctx.thinking_block_started = FALSE, !.ctx.content_index = n].ctx
                = [r.ctx EXCEPT !.thinking_block_started = FALSE, !.content_index = n]
  <1>1. [r.ctx EXCEPT !.thinking_block_started = FALSE, !.content_index = n] \in ChatCtx
      BY Updates, Zenon DEF ToClaudeResult
  <1>2. /\ [r EXCEPT !.ctx.thinking_block_started = FALSE, !.ctx.content_index = n]
             = [r EXCEPT !.ctx
             = [r.ctx EXCEPT !.thinking_block_started = FALSE, !.content_index = n]]
        /\ [r EXCEPT !.ctx.thinking_block_started = FALSE, !.ctx.content_index = n].out
             = r.out /\ [r EXCEPT !.ctx.thinking_block_started = FALSE,
                         !.ctx.content_index = n].ctx
             = [r.ctx EXCEPT !.thinking_block_started = FALSE, !.content_index = n]
      BY <1>1 DEF ToClaudeResult
  <1>3. \A b \in ChatCtx : [r EXCEPT !.ctx = b] \in ToClaudeResult
      BY DEF ToClaudeResult
  <1> QED BY <1>1, <1>2, <1>3

\* Opening the thinking block in the context of a result.
LEMMA NestOpenThinking ==
    ASSUME NEW r \in ToClaudeResult, NEW n \in Nat
    PROVE  /\ [r EXCEPT !.ctx.thinking_block_started = TRUE,
                !.ctx.thinking_index = n] \in ToClaudeResult
           /\ [r EXCEPT !.ctx.thinking_block_started = TRUE, !.ctx.thinking_index = n].out
                = r.out
           /\ [r EXCEPT !.ctx.thinking_block_started = TRUE, !.ctx.thinking_index = n].ctx
                = [r.ctx EXCEPT !.thinking_block_started = TRUE, !.thinking_index = n]
  <1>1. [r.ctx EXCEPT !.thinking_block_started = TRUE, !.thinking_index = n] \in ChatCtx
      BY Updates, Zenon DEF ToClaudeResult
  <1>2. /\ [r EXCEPT !.ctx.thinking_block_started = TRUE, !.ctx.thinking_index = n]
             = [r EXCEPT !.ctx
             = [r.ctx EXCEPT !.thinking_block_started = TRUE, !.thinking_index = n]]
        /\ [r EXCEPT !.ctx.thinking_block_started = TRUE, !.ctx.thinking_index = n].out
             = r.out /\ [r EXCEPT !.ctx.thinking_block_started = TRUE,
                         !.ctx.thinking_index = n].ctx
             = [r.ctx EXCEPT !.thinking_block_started = TRUE, !.thinking_index = n]
      BY <1>1 DEF ToClaudeResult
  <1>3. \A b \in ChatCtx : [r EXCEPT !.ctx = b] \in ToClaudeResult
      BY DEF ToClaudeResult
  <1> QED BY <1>1, <1>2, <1>3

\* Opening the tool block in the context of a result.
LEMMA NestOpenTool ==
    ASSUME NEW r \in ToClaudeResult, NEW n \in Nat
    PROVE  /\ [r EXCEPT !.ctx.tool_block_started = TRUE,
                !.ctx.tool_index = n] \in ToClaudeResult
           /\ [r EXCEPT !.ctx.tool_block_started = TRUE, !.ctx.tool_index = n].out = r.out
           /\ [r EXCEPT !.ctx.tool_block_started = TRUE, !.ctx.tool_index = n].ctx
                = [r.ctx EXCEPT !.tool_block_started = TRUE, !.tool_index = n]
  <1>1. [r.ctx EXCEPT !.tool_block_started = TRUE, !.tool_index = n] \in ChatCtx
      BY Updates, Zenon DEF ToClaudeResult
  <1>2. /\ [r EXCEPT !.ctx.tool_block_started = TRUE, !.ctx.tool_index = n]
             = [r EXCEPT !.ctx = [r.ctx EXCEPT !.tool_block_started = TRUE, !.tool_index = n]]
        /\ [r EXCEPT !.ctx.tool_block_started = TRUE, !.ctx.tool_index = n].out = r.out
             /\ [r EXCEPT !.ctx.tool_block_started = TRUE, !.ctx.tool_index = n].ctx
             = [r.ctx EXCEPT !.tool_block_started = TRUE, !.tool_index = n]
      BY <1>1 DEF ToClaudeResult
  <1>3. \A b \in ChatCtx : [r EXCEPT !.ctx = b] \in ToClaudeResult
      BY DEF ToClaudeResult
  <1> QED BY <1>1, <1>2, <1>3

\* Recording message_start in the context of a result.
LEMMA NestStart ==
    ASSUME NEW r \in ToClaudeResult
    PROVE  /\ [r EXCEPT !.ctx.message_start_sent = TRUE] \in ToClaudeResult
           /\ [r EXCEPT !.ctx.message_start_sent = TRUE].out = r.out
           /\ [r EXCEPT !.ctx.message_start_sent = TRUE].ctx
                = [r.ctx EXCEPT !.message_start_sent = TRUE]
  <1>1. [r.ctx EXCEPT !.message_start_sent = TRUE] \in ChatCtx
      BY Updates, Zenon DEF ToClaudeResult
  <1>2. /\ [r EXCEPT !.ctx.message_start_sent = TRUE]
             = [r EXCEPT !.ctx = [r.ctx EXCEPT !.message_start_sent = TRUE]]
        /\ [r EXCEPT !.ctx.message_start_sent = TRUE].out = r.out
             /\ [r EXCEPT !.ctx.message_start_sent = TRUE].ctx
             = [r.ctx EXCEPT !.message_start_sent = TRUE]
      BY <1>1 DEF ToClaudeResult
  <1>3. \A b \in ChatCtx : [r EXCEPT !.ctx = b] \in ToClaudeResult
      BY DEF ToClaudeResult
  <1> QED BY <1>1, <1>2, <1>3

\* Recording the finish reason in the context of a result.
LEMMA NestReason ==
    ASSUME NEW r \in ToClaudeResult
    PROVE  /\ [r EXCEPT !.ctx.finish_reason_sent = TRUE] \in ToClaudeResult
           /\ [r EXCEPT !.ctx.finish_reason_sent = TRUE].out = r.out
           /\ [r EXCEPT !.ctx.finish_reason_sent = TRUE].ctx
                = [r.ctx EXCEPT !.finish_reason_sent = TRUE]
  <1>1. [r.ctx EXCEPT !.finish_reason_sent = TRUE] \in ChatCtx
      BY Updates, Zenon DEF ToClaudeResult
  <1>2. /\ [r EXCEPT !.ctx.finish_reason_sent = TRUE]
             = [r EXCEPT !.ctx = [r.ctx EXCEPT !.finish_reason_sent = TRUE]]
        /\ [r EXCEPT !.ctx.finish_reason_sent = TRUE].out = r.out
             /\ [r EXCEPT !.ctx.finish_reason_sent = TRUE].ctx
             = [r.ctx EXCEPT !.finish_reason_sent = TRUE]
      BY <1>1 DEF ToClaudeResult
  <1>3. \A b \in ChatCtx : [r EXCEPT !.ctx = b] \in ToClaudeResult
      BY DEF ToClaudeResult
  <1> QED BY <1>1, <1>2, <1>3, Zenon

\* Moving the content index in the context of a result.
LEMMA NestNext ==
    ASSUME NEW r \in ToClaudeResult, NEW n \in Nat
    PROVE  /\ [r EXCEPT !.ctx.content_index = n] \in ToClaudeResult
           /\ [r EXCEPT !.ctx.content_index = n].out = r.out
           /\ [r EXCEPT !.ctx.content_index = n].ctx = [r.ctx EXCEPT !.content_index = n]
  <1>1. [r.ctx EXCEPT !.content_index = n] \in ChatCtx
      BY Updates, Zenon DEF ToClaudeResult
  <1>2. /\ [r EXCEPT !.ctx.content_index = n]
             = [r EXCEPT !.ctx = [r.ctx EXCEPT !.content_index = n]]
        /\ [r EXCEPT !.ctx.content_index = n].out = r.out
             /\ [r EXCEPT !.ctx.content_index = n].ctx = [r.ctx EXCEPT !.content_index = n]
      BY <1>1 DEF ToClaudeResult
  <1>3. \A b \in ChatCtx : [r EXCEPT !.ctx = b] \in ToClaudeResult
      BY DEF ToClaudeResult
  <1> QED BY <1>1, <1>2, <1>3

\* The open text block may be stopped, and the next index is free again.
LEMMA MayCloseText ==
    ASSUME NEW c \in ChatCtx, NEW v \in ViewType, v.kind # "none" => v.blocks > 0,
           Linked(c, v), Ready(c, v), c.content_block_started, NEW n \in Nat,
               n = c.content_index + 1
    PROVE  LET e == ClaudeEv("content_block_stop", "none", c.content_index)
               b == [c EXCEPT !.content_block_started = FALSE, !.content_index = n]
           IN VMay(v, e) /\ b \in ChatCtx /\ Linked(b, VAfter(v, e)) /\ Ready(b, VAfter(v, e))
  <1> DEFINE e == ClaudeEv("content_block_stop", "none", c.content_index)
             b == [c EXCEPT !.content_block_started = FALSE, !.content_index = n]
             w == VAfter(v, e)
  <1>1. c.content_index \in Nat /\ c.thinking_index \in Nat /\ c.tool_index \in Nat
          /\ v.blocks \in Nat
      BY DEF ChatCtx, ViewType
  <1>2. VMay(v, e)
      BY DEF VMay, Linked, Ready, ClaudeEv, Kinds
  <1>3. b \in ChatCtx
      BY <1>1, Updates, Zenon
  <1>4. /\ w.started = (v.started \/ e.type = "message_start")
             /\ w.stopped = (v.stopped \/ e.type = "message_stop")
        /\ w.reason = (v.reason \/ e.kind = "stop")
        /\ w.blocks = (IF e.type = "content_block_start" THEN v.blocks + 1 ELSE v.blocks)
        /\ w.kind = (IF e.type = "content_block_start" THEN e.kind
                     ELSE IF e.type = "content_block_stop" THEN "none" ELSE v.kind)
      BY DEF VAfter
  <1>5. e.type = "content_block_stop" /\ e.kind = "none" /\ e.index = c.content_index
      BY DEF ClaudeEv
  <1>6. /\ b.message_start_sent = c.message_start_sent
        /\ b.finish_reason_sent = c.finish_reason_sent
        /\ b.content_index = n
        /\ b.content_block_started = FALSE
        /\ b.thinking_index = c.thinking_index
        /\ b.thinking_block_started = c.thinking_block_started
        /\ b.tool_index = c.tool_index
        /\ b.tool_block_started = c.tool_block_started
      BY <1>1 DEF ChatCtx
  <1> HIDE DEF w, e, b
  <1>7. Linked(b, w) /\ Ready(b, w)
      BY <1>1, <1>4, <1>5, <1>6 DEF Linked, Ready, ViewType
  <1> QED BY <1>2, <1>3, <1>7 DEF w, e, b

\* The open tool block may be stopped, and the next index is free again.
LEMMA MayCloseTool ==
    ASSUME NEW c \in ChatCtx, NEW v \in ViewType, v.kind # "none" => v.blocks > 0,
           Linked(c, v), Ready(c, v), c.tool_block_started, NEW n \in Nat,
               n = c.content_index + 1
    PROVE  LET e == ClaudeEv("content_block_stop", "none", c.tool_index)
               b == [c EXCEPT !.tool_block_started = FALSE, !.content_index = n]
           IN VMay(v, e) /\ b \in ChatCtx /\ Linked(b, VAfter(v, e)) /\ Ready(b, VAfter(v, e))
  <1> DEFINE e == ClaudeEv("content_block_stop", "none", c.tool_index)
             b == [c EXCEPT !.tool_block_started = FALSE, !.content_index = n]
             w == VAfter(v, e)
  <1>1. c.content_index \in Nat /\ c.thinking_index \in Nat /\ c.tool_index \in Nat
          /\ v.blocks \in Nat
      BY DEF ChatCtx, ViewType
  <1>2. VMay(v, e)
      BY DEF VMay, Linked, Ready, ClaudeEv, Kinds
  <1>3. b \in ChatCtx
      BY <1>1, Updates, Zenon
  <1>4. /\ w.started = (v.started \/ e.type = "message_start")
             /\ w.stopped = (v.stopped \/ e.type = "message_stop")
        /\ w.reason = (v.reason \/ e.kind = "stop")
        /\ w.blocks = (IF e.type = "content_block_start" THEN v.blocks + 1 ELSE v.blocks)
        /\ w.kind = (IF e.type = "content_block_start" THEN e.kind
                     ELSE IF e.type = "content_block_stop" THEN "none" ELSE v.kind)
      BY DEF VAfter
  <1>5. e.type = "content_block_stop" /\ e.kind = "none" /\ e.index = c.tool_index
      BY DEF ClaudeEv
  <1>6. /\ b.message_start_sent = c.message_start_sent
        /\ b.finish_reason_sent = c.finish_reason_sent
        /\ b.content_index = n
        /\ b.content_block_started = c.content_block_started
        /\ b.thinking_index = c.thinking_index
        /\ b.thinking_block_started = c.thinking_block_started
        /\ b.tool_index = c.tool_index
        /\ b.tool_block_started = FALSE
      BY <1>1 DEF ChatCtx
  <1> HIDE DEF w, e, b
  <1>7. Linked(b, w) /\ Ready(b, w)
      BY <1>1, <1>4, <1>5, <1>6 DEF Linked, Ready, ViewType
  <1> QED BY <1>2, <1>3, <1>7 DEF w, e, b

\* The open thinking block may be stopped, and the next index is free again.
LEMMA MayCloseThinking ==
    ASSUME NEW c \in ChatCtx, NEW v \in ViewType, v.kind # "none" => v.blocks > 0,
           Linked(c, v), Ready(c, v), c.thinking_block_started, NEW n \in Nat,
               n = c.thinking_index + 1
    PROVE  LET e == ClaudeEv("content_block_stop", "none", c.thinking_index)
               b == [c EXCEPT !.thinking_block_started = FALSE, !.content_index = n]
           IN VMay(v, e) /\ b \in ChatCtx /\ Linked(b, VAfter(v, e)) /\ Ready(b, VAfter(v, e))
  <1> DEFINE e == ClaudeEv("content_block_stop", "none", c.thinking_index)
             b == [c EXCEPT !.thinking_block_started = FALSE, !.content_index = n]
             w == VAfter(v, e)
  <1>1. c.content_index \in Nat /\ c.thinking_index \in Nat /\ c.tool_index \in Nat
          /\ v.blocks \in Nat
      BY DEF ChatCtx, ViewType
  <1>2. VMay(v, e)
      BY DEF VMay, Linked, Ready, ClaudeEv, Kinds
  <1>3. b \in ChatCtx
      BY <1>1, Updates, Zenon
  <1>4. /\ w.started = (v.started \/ e.type = "message_start")
             /\ w.stopped = (v.stopped \/ e.type = "message_stop")
        /\ w.reason = (v.reason \/ e.kind = "stop")
        /\ w.blocks = (IF e.type = "content_block_start" THEN v.blocks + 1 ELSE v.blocks)
        /\ w.kind = (IF e.type = "content_block_start" THEN e.kind
                     ELSE IF e.type = "content_block_stop" THEN "none" ELSE v.kind)
      BY DEF VAfter
  <1>5. e.type = "content_block_stop" /\ e.kind = "none" /\ e.index = c.thinking_index
      BY DEF ClaudeEv
  <1>6. /\ b.message_start_sent = c.message_start_sent
        /\ b.finish_reason_sent = c.finish_reason_sent
        /\ b.content_index = n
        /\ b.content_block_started = c.content_block_started
        /\ b.thinking_index = c.thinking_index
        /\ b.thinking_block_started = FALSE
        /\ b.tool_index = c.tool_index
        /\ b.tool_block_started = c.tool_block_started
      BY <1>1 DEF ChatCtx
  <1> HIDE DEF w, e, b
  <1>7. Linked(b, w) /\ Ready(b, w)
      BY <1>1, <1>4, <1>5, <1>6 DEF Linked, Ready, ViewType
  <1> QED BY <1>2, <1>3, <1>7 DEF w, e, b

\* With no block open, a thinking block may start at the content index.
LEMMA MayStartThinking ==
    ASSUME NEW c \in ChatCtx, NEW v \in ViewType, v.kind # "none" => v.blocks > 0,
           Linked(c, v), Ready(c, v), v.kind = "none", NEW n \in Nat, n = c.content_index
    PROVE  LET e == ClaudeEv("content_block_start", "thinking", c.content_index)
               b == [c EXCEPT !.thinking_block_started = TRUE, !.thinking_index = n]
           IN VMay(v, e) /\ b \in ChatCtx /\ Linked(b, VAfter(v, e)) /\ Ready(b, VAfter(v, e))
  <1> DEFINE e == ClaudeEv("content_block_start", "thinking", c.content_index)
             b == [c EXCEPT !.thinking_block_started = TRUE, !.thinking_index = n]
             w == VAfter(v, e)
  <1>1. c.content_index \in Nat /\ c.thinking_index \in Nat /\ c.tool_index \in Nat
          /\ v.blocks \in Nat
      BY DEF ChatCtx, ViewType
  <1>2. VMay(v, e)
      BY DEF VMay, Linked, Ready, ClaudeEv, Kinds
  <1>3. b \in ChatCtx
      BY <1>1, Updates, Zenon
  <1>4. /\ w.started = (v.started \/ e.type = "message_start")
             /\ w.stopped = (v.stopped \/ e.type = "message_stop")
        /\ w.reason = (v.reason \/ e.kind = "stop")
        /\ w.blocks = (IF e.type = "content_block_start" THEN v.blocks + 1 ELSE v.blocks)
        /\ w.kind = (IF e.type = "content_block_start" THEN e.kind
                     ELSE IF e.type = "content_block_stop" THEN "none" ELSE v.kind)
      BY DEF VAfter
  <1>5. e.type = "content_block_start" /\ e.kind = "thinking" /\ e.index = c.content_index
      BY DEF ClaudeEv
  <1>6. /\ b.message_start_sent = c.message_start_sent
        /\ b.finish_reason_sent = c.finish_reason_sent
        /\ b.content_index = c.content_index
        /\ b.content_block_started = c.content_block_started
        /\ b.thinking_index = n
        /\ b.thinking_block_started = TRUE
        /\ b.tool_index = c.tool_index
        /\ b.tool_block_started = c.tool_block_started
      BY <1>1 DEF ChatCtx
  <1> HIDE DEF w, e, b
  <1>7. Linked(b, w) /\ Ready(b, w)
      BY <1>1, <1>4, <1>5, <1>6 DEF Linked, Ready, ViewType
  <1> QED BY <1>2, <1>3, <1>7 DEF w, e, b

\* With no block open, a text block may start at the content index.
LEMMA MayStartText ==
    ASSUME NEW c \in ChatCtx, NEW v \in ViewType, v.kind # "none" => v.blocks > 0,
           Linked(c, v), Ready(c, v), v.kind = "none"
    PROVE  LET e == ClaudeEv("content_block_start", "text", c.content_index)
               b == [c EXCEPT !.content_block_started = TRUE]
           IN VMay(v, e) /\ b \in ChatCtx /\ Linked(b, VAfter(v, e)) /\ Ready(b, VAfter(v, e))
  <1> DEFINE e == ClaudeEv("content_block_start", "text", c.content_index)
             b == [c EXCEPT !.content_block_started = TRUE]
             w == VAfter(v, e)
  <1>1. c.content_index \in Nat /\ c.thinking_index \in Nat /\ c.tool_index \in Nat
          /\ v.blocks \in Nat
      BY DEF ChatCtx, ViewType
  <1>2. VMay(v, e)
      BY DEF VMay, Linked, Ready, ClaudeEv, Kinds
  <1>3. b \in ChatCtx
      BY <1>1, Updates, Zenon
  <1>4. /\ w.started = (v.started \/ e.type = "message_start")
             /\ w.stopped = (v.stopped \/ e.type = "message_stop")
        /\ w.reason = (v.reason \/ e.kind = "stop")
        /\ w.blocks = (IF e.type = "content_block_start" THEN v.blocks + 1 ELSE v.blocks)
        /\ w.kind = (IF e.type = "content_block_start" THEN e.kind
                     ELSE IF e.type = "content_block_stop" THEN "none" ELSE v.kind)
      BY DEF VAfter
  <1>5. e.type = "content_block_start" /\ e.kind = "text" /\ e.index = c.content_index
      BY DEF ClaudeEv
  <1>6. /\ b.message_start_sent = c.message_start_sent
        /\ b.finish_reason_sent = c.finish_reason_sent
        /\ b.content_index = c.content_index
        /\ b.content_block_started = TRUE
        /\ b.thinking_index = c.thinking_index
        /\ b.thinking_block_started = c.thinking_block_started
        /\ b.tool_index = c.tool_index
        /\ b.tool_block_started = c.tool_block_started
      BY <1>1 DEF ChatCtx
  <1> HIDE DEF w, e, b
  <1>7. Linked(b, w) /\ Ready(b, w)
      BY <1>1, <1>4, <1>5, <1>6 DEF Linked, Ready, ViewType
  <1> QED BY <1>2, <1>3, <1>7 DEF w, e, b

\* With no block open, a tool block may start at the content index.
LEMMA MayStartTool ==
    ASSUME NEW c \in ChatCtx, NEW v \in ViewType, v.kind # "none" => v.blocks > 0,
           Linked(c, v), Ready(c, v), v.kind = "none", NEW n \in Nat, n = c.content_index
    PROVE  LET e == ClaudeEv("content_block_start", "tool_use", c.content_index)
               b == [c EXCEPT !.tool_block_started = TRUE, !.tool_index = n]
           IN VMay(v, e) /\ b \in ChatCtx /\ Linked(b, VAfter(v, e)) /\ Ready(b, VAfter(v, e))
  <1> DEFINE e == ClaudeEv("content_block_start", "tool_use", c.content_index)
             b == [c EXCEPT !.tool_block_started = TRUE, !.tool_index = n]
             w == VAfter(v, e)
  <1>1. c.content_index \in Nat /\ c.thinking_index \in Nat /\ c.tool_index \in Nat
          /\ v.blocks \in Nat
      BY DEF ChatCtx, ViewType
  <1>2. VMay(v, e)
      BY DEF VMay, Linked, Ready, ClaudeEv, Kinds
  <1>3. b \in ChatCtx
      BY <1>1, Updates, Zenon
  <1>4. /\ w.started = (v.started \/ e.type = "message_start")
             /\ w.stopped = (v.stopped \/ e.type = "message_stop")
        /\ w.reason = (v.reason \/ e.kind = "stop")
        /\ w.blocks = (IF e.type = "content_block_start" THEN v.blocks + 1 ELSE v.blocks)
        /\ w.kind = (IF e.type = "content_block_start" THEN e.kind
                     ELSE IF e.type = "content_block_stop" THEN "none" ELSE v.kind)
      BY DEF VAfter
  <1>5. e.type = "content_block_start" /\ e.kind = "tool_use" /\ e.index = c.content_index
      BY DEF ClaudeEv
  <1>6. /\ b.message_start_sent = c.message_start_sent
        /\ b.finish_reason_sent = c.finish_reason_sent
        /\ b.content_index = c.content_index
        /\ b.content_block_started = c.content_block_started
        /\ b.thinking_index = c.thinking_index
        /\ b.thinking_block_started = c.thinking_block_started
        /\ b.tool_index = n
        /\ b.tool_block_started = TRUE
      BY <1>1 DEF ChatCtx
  <1> HIDE DEF w, e, b
  <1>7. Linked(b, w) /\ Ready(b, w)
      BY <1>1, <1>4, <1>5, <1>6 DEF Linked, Ready, ViewType
  <1> QED BY <1>2, <1>3, <1>7 DEF w, e, b

\* A thinking delta may go to the open thinking block.
LEMMA MayThink ==
    ASSUME NEW c \in ChatCtx, NEW v \in ViewType, v.kind # "none" => v.blocks > 0,
           Linked(c, v), Ready(c, v), v.kind = "thinking"
    PROVE  LET e == ClaudeEv("content_block_delta", "thinking", c.thinking_index)
               b == c
           IN VMay(v, e) /\ b \in ChatCtx /\ Linked(b, VAfter(v, e)) /\ Ready(b, VAfter(v, e))
  <1> DEFINE e == ClaudeEv("content_block_delta", "thinking", c.thinking_index)
             b == c
             w == VAfter(v, e)
  <1>1. c.content_index \in Nat /\ c.thinking_index \in Nat /\ c.tool_index \in Nat
          /\ v.blocks \in Nat
      BY DEF ChatCtx, ViewType
  <1>2. VMay(v, e)
      BY DEF VMay, Linked, Ready, ClaudeEv, Kinds
  <1>3. b \in ChatCtx
      BY <1>1, Updates, Zenon
  <1>4. /\ w.started = (v.started \/ e.type = "message_start")
             /\ w.stopped = (v.stopped \/ e.type = "message_stop")
        /\ w.reason = (v.reason \/ e.kind = "stop")
        /\ w.blocks = (IF e.type = "content_block_start" THEN v.blocks + 1 ELSE v.blocks)
        /\ w.kind = (IF e.type = "content_block_start" THEN e.kind
                     ELSE IF e.type = "content_block_stop" THEN "none" ELSE v.kind)
      BY DEF VAfter
  <1>5. e.type = "content_block_delta" /\ e.kind = "thinking" /\ e.index = c.thinking_index
      BY DEF ClaudeEv
  <1>6. /\ b.message_start_sent = c.message_start_sent
        /\ b.finish_reason_sent = c.finish_reason_sent
        /\ b.content_index = c.content_index
        /\ b.content_block_started = c.content_block_started
        /\ b.thinking_index = c.thinking_index
        /\ b.thinking_block_started = c.thinking_block_started
        /\ b.tool_index = c.tool_index
        /\ b.tool_block_started = c.tool_block_started
      BY <1>1 DEF ChatCtx
  <1> HIDE DEF w, e, b
  <1>7. Linked(b, w) /\ Ready(b, w)
      BY <1>1, <1>4, <1>5, <1>6 DEF Linked, Ready, ViewType
  <1> QED BY <1>2, <1>3, <1>7 DEF w, e, b

\* A text delta may go to the open text block.
LEMMA MaySay ==
    ASSUME NEW c \in ChatCtx, NEW v \in ViewType, v.kind # "none" => v.blocks > 0,
           Linked(c, v), Ready(c, v), v.kind = "text"
    PROVE  LET e == ClaudeEv("content_block_delta", "text", c.content_index)
               b == c
           IN VMay(v, e) /\ b \in ChatCtx /\ Linked(b, VAfter(v, e)) /\ Ready(b, VAfter(v, e))
  <1> DEFINE e == ClaudeEv("content_block_delta", "text", c.content_index)
             b == c
             w == VAfter(v, e)
  <1>1. c.content_index \in Nat /\ c.thinking_index \in Nat /\ c.tool_index \in Nat
          /\ v.blocks \in Nat
      BY DEF ChatCtx, ViewType
  <1>2. VMay(v, e)
      BY DEF VMay, Linked, Ready, ClaudeEv, Kinds
  <1>3. b \in ChatCtx
      BY <1>1, Updates, Zenon
  <1>4. /\ w.started = (v.started \/ e.type = "message_start")
             /\ w.stopped = (v.stopped \/ e.type = "message_stop")
        /\ w.reason = (v.reason \/ e.kind = "stop")
        /\ w.blocks = (IF e.type = "content_block_start" THEN v.blocks + 1 ELSE v.blocks)
        /\ w.kind = (IF e.type = "content_block_start" THEN e.kind
                     ELSE IF e.type = "content_block_stop" THEN "none" ELSE v.kind)
      BY DEF VAfter
  <1>5. e.type = "content_block_delta" /\ e.kind = "text" /\ e.index = c.content_index
      BY DEF ClaudeEv
  <1>6. /\ b.message_start_sent = c.message_start_sent
        /\ b.finish_reason_sent = c.finish_reason_sent
        /\ b.content_index = c.content_index
        /\ b.content_block_started = c.content_block_started
        /\ b.thinking_index = c.thinking_index
        /\ b.thinking_block_started = c.thinking_block_started
        /\ b.tool_index = c.tool_index
        /\ b.tool_block_started = c.tool_block_started
      BY <1>1 DEF ChatCtx
  <1> HIDE DEF w, e, b
  <1>7. Linked(b, w) /\ Ready(b, w)
      BY <1>1, <1>4, <1>5, <1>6 DEF Linked, Ready, ViewType
  <1> QED BY <1>2, <1>3, <1>7 DEF w, e, b

\* A piece of arguments may go to the open tool block.
LEMMA MayCall ==
    ASSUME NEW c \in ChatCtx, NEW v \in ViewType, v.kind # "none" => v.blocks > 0,
           Linked(c, v), Ready(c, v), v.kind = "tool_use"
    PROVE  LET e == ClaudeEv("content_block_delta", "tool_use", c.tool_index)
               b == c
           IN VMay(v, e) /\ b \in ChatCtx /\ Linked(b, VAfter(v, e)) /\ Ready(b, VAfter(v, e))
  <1> DEFINE e == ClaudeEv("content_block_delta", "tool_use", c.tool_index)
             b == c
             w == VAfter(v, e)
  <1>1. c.content_index \in Nat /\ c.thinking_index \in Nat /\ c.tool_index \in Nat
          /\ v.blocks \in Nat
      BY DEF ChatCtx, ViewType
  <1>2. VMay(v, e)
      BY DEF VMay, Linked, Ready, ClaudeEv, Kinds
  <1>3. b \in ChatCtx
      BY <1>1, Updates, Zenon
  <1>4. /\ w.started = (v.started \/ e.type = "message_start")
             /\ w.stopped = (v.stopped \/ e.type = "message_stop")
        /\ w.reason = (v.reason \/ e.kind = "stop")
        /\ w.blocks = (IF e.type = "content_block_start" THEN v.blocks + 1 ELSE v.blocks)
        /\ w.kind = (IF e.type = "content_block_start" THEN e.kind
                     ELSE IF e.type = "content_block_stop" THEN "none" ELSE v.kind)
      BY DEF VAfter
  <1>5. e.type = "content_block_delta" /\ e.kind = "tool_use" /\ e.index = c.tool_index
      BY DEF ClaudeEv
  <1>6. /\ b.message_start_sent = c.message_start_sent
        /\ b.finish_reason_sent = c.finish_reason_sent
        /\ b.content_index = c.content_index
        /\ b.content_block_started = c.content_block_started
        /\ b.thinking_index = c.thinking_index
        /\ b.thinking_block_started = c.thinking_block_started
        /\ b.tool_index = c.tool_index
        /\ b.tool_block_started = c.tool_block_started
      BY <1>1 DEF ChatCtx
  <1> HIDE DEF w, e, b
  <1>7. Linked(b, w) /\ Ready(b, w)
      BY <1>1, <1>4, <1>5, <1>6 DEF Linked, Ready, ViewType
  <1> QED BY <1>2, <1>3, <1>7 DEF w, e, b

\* The message may start while nothing has been sent.
LEMMA MayStart ==
    ASSUME NEW c \in ChatCtx, NEW v \in ViewType, v.kind # "none" => v.blocks > 0,
           Linked(c, v), ~c.message_start_sent, ~c.finish_reason_sent, v.kind = "none",
               ~v.stopped, c.content_index = v.blocks
    PROVE  LET e == ClaudeEv("message_start", "none", 0)
               b == [c EXCEPT !.message_start_sent = TRUE]
           IN VMay(v, e) /\ b \in ChatCtx /\ Linked(b, VAfter(v, e)) /\ Ready(b, VAfter(v, e))
  <1> DEFINE e == ClaudeEv("message_start", "none", 0)
             b == [c EXCEPT !.message_start_sent = TRUE]
             w == VAfter(v, e)
  <1>1. c.content_index \in Nat /\ c.thinking_index \in Nat /\ c.tool_index \in Nat
          /\ v.blocks \in Nat
      BY DEF ChatCtx, ViewType
  <1>2. VMay(v, e)
      BY DEF VMay, Linked, Ready, ClaudeEv, Kinds
  <1>3. b \in ChatCtx
      BY <1>1, Updates, Zenon
  <1>4. /\ w.started = (v.started \/ e.type = "message_start")
             /\ w.stopped = (v.stopped \/ e.type = "message_stop")
        /\ w.reason = (v.reason \/ e.kind = "stop")
        /\ w.blocks = (IF e.type = "content_block_start" THEN v.blocks + 1 ELSE v.blocks)
        /\ w.kind = (IF e.type = "content_block_start" THEN e.kind
                     ELSE IF e.type = "content_block_stop" THEN "none" ELSE v.kind)
      BY DEF VAfter
  <1>5. e.type = "message_start" /\ e.kind = "none" /\ e.index = 0
      BY DEF ClaudeEv
  <1>6. /\ b.message_start_sent = TRUE
        /\ b.finish_reason_sent = c.finish_reason_sent
        /\ b.content_index = c.content_index
        /\ b.content_block_started = c.content_block_started
        /\ b.thinking_index = c.thinking_index
        /\ b.thinking_block_started = c.thinking_block_started
        /\ b.tool_index = c.tool_index
        /\ b.tool_block_started = c.tool_block_started
      BY <1>1 DEF ChatCtx
  <1> HIDE DEF w, e, b
  <1>7. Linked(b, w) /\ Ready(b, w)
      BY <1>1, <1>4, <1>5, <1>6 DEF Linked, Ready, ViewType
  <1> QED BY <1>2, <1>3, <1>7 DEF w, e, b

\* close_text_block's stop may be sent.
LEMMA MayEndText ==
    ASSUME NEW c \in ChatCtx, NEW v \in ViewType, v.kind # "none" => v.blocks > 0,
           Linked(c, v), c.content_block_started
    PROVE  LET e == ClaudeEv("content_block_stop", "none", c.content_index)
               b == [c EXCEPT !.content_block_started = FALSE]
           IN VMay(v, e) /\ b \in ChatCtx /\ Linked(b, VAfter(v, e))
  <1> DEFINE e == ClaudeEv("content_block_stop", "none", c.content_index)
             b == [c EXCEPT !.content_block_started = FALSE]
             w == VAfter(v, e)
  <1>1. c.content_index \in Nat /\ c.thinking_index \in Nat /\ c.tool_index \in Nat
          /\ v.blocks \in Nat
      BY DEF ChatCtx, ViewType
  <1>2. VMay(v, e)
      BY DEF VMay, Linked, Ready, ClaudeEv, Kinds
  <1>3. b \in ChatCtx
      BY <1>1, Updates, Zenon
  <1>4. /\ w.started = (v.started \/ e.type = "message_start")
             /\ w.stopped = (v.stopped \/ e.type = "message_stop")
        /\ w.reason = (v.reason \/ e.kind = "stop")
        /\ w.blocks = (IF e.type = "content_block_start" THEN v.blocks + 1 ELSE v.blocks)
        /\ w.kind = (IF e.type = "content_block_start" THEN e.kind
                     ELSE IF e.type = "content_block_stop" THEN "none" ELSE v.kind)
      BY DEF VAfter
  <1>5. e.type = "content_block_stop" /\ e.kind = "none" /\ e.index = c.content_index
      BY DEF ClaudeEv
  <1>6. /\ b.message_start_sent = c.message_start_sent
        /\ b.finish_reason_sent = c.finish_reason_sent
        /\ b.content_index = c.content_index
        /\ b.content_block_started = FALSE
        /\ b.thinking_index = c.thinking_index
        /\ b.thinking_block_started = c.thinking_block_started
        /\ b.tool_index = c.tool_index
        /\ b.tool_block_started = c.tool_block_started
      BY <1>1 DEF ChatCtx
  <1> HIDE DEF w, e, b
  <1>7. Linked(b, w)
      BY <1>1, <1>4, <1>5, <1>6 DEF Linked, Ready, ViewType
  <1> QED BY <1>2, <1>3, <1>7 DEF w, e, b

\* close_tool_block's stop may be sent.
LEMMA MayEndTool ==
    ASSUME NEW c \in ChatCtx, NEW v \in ViewType, v.kind # "none" => v.blocks > 0,
           Linked(c, v), c.tool_block_started
    PROVE  LET e == ClaudeEv("content_block_stop", "none", c.tool_index)
               b == [c EXCEPT !.tool_block_started = FALSE]
           IN VMay(v, e) /\ b \in ChatCtx /\ Linked(b, VAfter(v, e))
  <1> DEFINE e == ClaudeEv("content_block_stop", "none", c.tool_index)
             b == [c EXCEPT !.tool_block_started = FALSE]
             w == VAfter(v, e)
  <1>1. c.content_index \in Nat /\ c.thinking_index \in Nat /\ c.tool_index \in Nat
          /\ v.blocks \in Nat
      BY DEF ChatCtx, ViewType
  <1>2. VMay(v, e)
      BY DEF VMay, Linked, Ready, ClaudeEv, Kinds
  <1>3. b \in ChatCtx
      BY <1>1, Updates, Zenon
  <1>4. /\ w.started = (v.started \/ e.type = "message_start")
             /\ w.stopped = (v.stopped \/ e.type = "message_stop")
        /\ w.reason = (v.reason \/ e.kind = "stop")
        /\ w.blocks = (IF e.type = "content_block_start" THEN v.blocks + 1 ELSE v.blocks)
        /\ w.kind = (IF e.type = "content_block_start" THEN e.kind
                     ELSE IF e.type = "content_block_stop" THEN "none" ELSE v.kind)
      BY DEF VAfter
  <1>5. e.type = "content_block_stop" /\ e.kind = "none" /\ e.index = c.tool_index
      BY DEF ClaudeEv
  <1>6. /\ b.message_start_sent = c.message_start_sent
        /\ b.finish_reason_sent = c.finish_reason_sent
        /\ b.content_index = c.content_index
        /\ b.content_block_started = c.content_block_started
        /\ b.thinking_index = c.thinking_index
        /\ b.thinking_block_started = c.thinking_block_started
        /\ b.tool_index = c.tool_index
        /\ b.tool_block_started = FALSE
      BY <1>1 DEF ChatCtx
  <1> HIDE DEF w, e, b
  <1>7. Linked(b, w)
      BY <1>1, <1>4, <1>5, <1>6 DEF Linked, Ready, ViewType
  <1> QED BY <1>2, <1>3, <1>7 DEF w, e, b

\* close_thinking_block's stop may be sent.
LEMMA MayEndThinking ==
    ASSUME NEW c \in ChatCtx, NEW v \in ViewType, v.kind # "none" => v.blocks > 0,
           Linked(c, v), c.thinking_block_started, NEW n \in Nat, n = c.thinking_index + 1
    PROVE  LET e == ClaudeEv("content_block_stop", "none", c.thinking_index)
               b == [c EXCEPT !.thinking_block_started = FALSE, !.content_index = n]
           IN VMay(v, e) /\ b \in ChatCtx /\ Linked(b, VAfter(v, e))
  <1> DEFINE e == ClaudeEv("content_block_stop", "none", c.thinking_index)
             b == [c EXCEPT !.thinking_block_started = FALSE, !.content_index = n]
             w == VAfter(v, e)
  <1>1. c.content_index \in Nat /\ c.thinking_index \in Nat /\ c.tool_index \in Nat
          /\ v.blocks \in Nat
      BY DEF ChatCtx, ViewType
  <1>2. VMay(v, e)
      BY DEF VMay, Linked, Ready, ClaudeEv, Kinds
  <1>3. b \in ChatCtx
      BY <1>1, Updates, Zenon
  <1>4. /\ w.started = (v.started \/ e.type = "message_start")
             /\ w.stopped = (v.stopped \/ e.type = "message_stop")
        /\ w.reason = (v.reason \/ e.kind = "stop")
        /\ w.blocks = (IF e.type = "content_block_start" THEN v.blocks + 1 ELSE v.blocks)
        /\ w.kind = (IF e.type = "content_block_start" THEN e.kind
                     ELSE IF e.type = "content_block_stop" THEN "none" ELSE v.kind)
      BY DEF VAfter
  <1>5. e.type = "content_block_stop" /\ e.kind = "none" /\ e.index = c.thinking_index
      BY DEF ClaudeEv
  <1>6. /\ b.message_start_sent = c.message_start_sent
        /\ b.finish_reason_sent = c.finish_reason_sent
        /\ b.content_index = n
        /\ b.content_block_started = c.content_block_started
        /\ b.thinking_index = c.thinking_index
        /\ b.thinking_block_started = FALSE
        /\ b.tool_index = c.tool_index
        /\ b.tool_block_started = c.tool_block_started
      BY <1>1 DEF ChatCtx
  <1> HIDE DEF w, e, b
  <1>7. Linked(b, w)
      BY <1>1, <1>4, <1>5, <1>6 DEF Linked, Ready, ViewType
  <1> QED BY <1>2, <1>3, <1>7 DEF w, e, b

\* With no block open, the stop reason may be given.
LEMMA MayGiveReason ==
    ASSUME NEW c \in ChatCtx, NEW v \in ViewType, v.kind # "none" => v.blocks > 0,
           Linked(c, v), v.started, ~v.stopped, v.kind = "none"
    PROVE  LET e == ClaudeEv("message_delta", "stop", 0)
               b == [c EXCEPT !.finish_reason_sent = TRUE]
           IN VMay(v, e) /\ b \in ChatCtx /\ Linked(b, VAfter(v, e))
  <1> DEFINE e == ClaudeEv("message_delta", "stop", 0)
             b == [c EXCEPT !.finish_reason_sent = TRUE]
             w == VAfter(v, e)
  <1>1. c.content_index \in Nat /\ c.thinking_index \in Nat /\ c.tool_index \in Nat
          /\ v.blocks \in Nat
      BY DEF ChatCtx, ViewType
  <1>2. VMay(v, e)
      BY DEF VMay, Linked, Ready, ClaudeEv, Kinds
  <1>3. b \in ChatCtx
      BY <1>1, Updates, Zenon
  <1>4. /\ w.started = (v.started \/ e.type = "message_start")
             /\ w.stopped = (v.stopped \/ e.type = "message_stop")
        /\ w.reason = (v.reason \/ e.kind = "stop")
        /\ w.blocks = (IF e.type = "content_block_start" THEN v.blocks + 1 ELSE v.blocks)
        /\ w.kind = (IF e.type = "content_block_start" THEN e.kind
                     ELSE IF e.type = "content_block_stop" THEN "none" ELSE v.kind)
      BY DEF VAfter
  <1>5. e.type = "message_delta" /\ e.kind = "stop" /\ e.index = 0
      BY DEF ClaudeEv
  <1>6. /\ b.message_start_sent = c.message_start_sent
        /\ b.finish_reason_sent = TRUE
        /\ b.content_index = c.content_index
        /\ b.content_block_started = c.content_block_started
        /\ b.thinking_index = c.thinking_index
        /\ b.thinking_block_started = c.thinking_block_started
        /\ b.tool_index = c.tool_index
        /\ b.tool_block_started = c.tool_block_started
      BY <1>1 DEF ChatCtx
  <1> HIDE DEF w, e, b
  <1>7. Linked(b, w)
      BY <1>1, <1>4, <1>5, <1>6 DEF Linked, Ready, ViewType
  <1> QED BY <1>2, <1>3, <1>7 DEF w, e, b

\* The usage may be given while the message runs.
LEMMA MayGiveUsage ==
    ASSUME NEW c \in ChatCtx, NEW v \in ViewType, v.kind # "none" => v.blocks > 0,
           Linked(c, v), v.started, ~v.stopped
    PROVE  LET e == ClaudeEv("message_delta", "usage", 0)
               b == c
           IN VMay(v, e) /\ b \in ChatCtx /\ Linked(b, VAfter(v, e))
  <1> DEFINE e == ClaudeEv("message_delta", "usage", 0)
             b == c
             w == VAfter(v, e)
  <1>1. c.content_index \in Nat /\ c.thinking_index \in Nat /\ c.tool_index \in Nat
          /\ v.blocks \in Nat
      BY DEF ChatCtx, ViewType
  <1>2. VMay(v, e)
      BY DEF VMay, Linked, Ready, ClaudeEv, Kinds
  <1>3. b \in ChatCtx
      BY <1>1, Updates, Zenon
  <1>4. /\ w.started = (v.started \/ e.type = "message_start")
             /\ w.stopped = (v.stopped \/ e.type = "message_stop")
        /\ w.reason = (v.reason \/ e.kind = "stop")
        /\ w.blocks = (IF e.type = "content_block_start" THEN v.blocks + 1 ELSE v.blocks)
        /\ w.kind = (IF e.type = "content_block_start" THEN e.kind
                     ELSE IF e.type = "content_block_stop" THEN "none" ELSE v.kind)
      BY DEF VAfter
  <1>5. e.type = "message_delta" /\ e.kind = "usage" /\ e.index = 0
      BY DEF ClaudeEv
  <1>6. /\ b.message_start_sent = c.message_start_sent
        /\ b.finish_reason_sent = c.finish_reason_sent
        /\ b.content_index = c.content_index
        /\ b.content_block_started = c.content_block_started
        /\ b.thinking_index = c.thinking_index
        /\ b.thinking_block_started = c.thinking_block_started
        /\ b.tool_index = c.tool_index
        /\ b.tool_block_started = c.tool_block_started
      BY <1>1 DEF ChatCtx
  <1> HIDE DEF w, e, b
  <1>7. Linked(b, w)
      BY <1>1, <1>4, <1>5, <1>6 DEF Linked, Ready, ViewType
  <1> QED BY <1>2, <1>3, <1>7 DEF w, e, b

\* With no block open, the message may stop.
LEMMA MayStop ==
    ASSUME NEW c \in ChatCtx, NEW v \in ViewType, v.kind # "none" => v.blocks > 0,
           Linked(c, v), v.started, v.kind = "none"
    PROVE  LET e == ClaudeEv("message_stop", "none", 0)
               b == c
           IN VMay(v, e) /\ b \in ChatCtx /\ Linked(b, VAfter(v, e))
  <1> DEFINE e == ClaudeEv("message_stop", "none", 0)
             b == c
             w == VAfter(v, e)
  <1>1. c.content_index \in Nat /\ c.thinking_index \in Nat /\ c.tool_index \in Nat
          /\ v.blocks \in Nat
      BY DEF ChatCtx, ViewType
  <1>2. VMay(v, e)
      BY DEF VMay, Linked, Ready, ClaudeEv, Kinds
  <1>3. b \in ChatCtx
      BY <1>1, Updates, Zenon
  <1>4. /\ w.started = (v.started \/ e.type = "message_start")
             /\ w.stopped = (v.stopped \/ e.type = "message_stop")
        /\ w.reason = (v.reason \/ e.kind = "stop")
        /\ w.blocks = (IF e.type = "content_block_start" THEN v.blocks + 1 ELSE v.blocks)
        /\ w.kind = (IF e.type = "content_block_start" THEN e.kind
                     ELSE IF e.type = "content_block_stop" THEN "none" ELSE v.kind)
      BY DEF VAfter
  <1>5. e.type = "message_stop" /\ e.kind = "none" /\ e.index = 0
      BY DEF ClaudeEv
  <1>6. /\ b.message_start_sent = c.message_start_sent
        /\ b.finish_reason_sent = c.finish_reason_sent
        /\ b.content_index = c.content_index
        /\ b.content_block_started = c.content_block_started
        /\ b.thinking_index = c.thinking_index
        /\ b.thinking_block_started = c.thinking_block_started
        /\ b.tool_index = c.tool_index
        /\ b.tool_block_started = c.tool_block_started
      BY <1>1 DEF ChatCtx
  <1> HIDE DEF w, e, b
  <1>7. Linked(b, w)
      BY <1>1, <1>4, <1>5, <1>6 DEF Linked, Ready, ViewType
  <1> QED BY <1>2, <1>3, <1>7 DEF w, e, b

View(d, r) == CView(d \o r.out)

\* What a result that can take content has: its types, its view and the link
\* between them.
LEMMA FeedsHas ==
    ASSUME NEW d, NEW r, Feeds(d, r)
    PROVE  /\ r \in ToClaudeResult /\ r.ctx \in ChatCtx /\ r = [ctx |-> r.ctx, out |-> r.out]
           /\ CValid(d \o r.out) /\ Linked(r.ctx, View(d, r)) /\ Ready(r.ctx, View(d, r))
           /\ View(d, r) \in ViewType /\ (View(d, r).kind # "none" => View(d, r).blocks > 0)
           /\ r.ctx.content_index \in Nat /\ r.ctx.content_index + 1 \in Nat
           /\ r.ctx.thinking_index \in Nat /\ r.ctx.thinking_index + 1 \in Nat
                /\ r.ctx.tool_index \in Nat
  <1>1. /\ r \in ToClaudeResult /\ CValid(d \o r.out) /\ Linked(r.ctx, View(d, r))
             /\ Ready(r.ctx, View(d, r))
      BY DEF Feeds, Tracks, View
  <1>2. r.ctx \in ChatCtx /\ r = [ctx |-> r.ctx, out |-> r.out]
      BY <1>1 DEF ToClaudeResult
  <1>3. View(d, r) \in ViewType /\ (View(d, r).kind # "none" => View(d, r).blocks > 0)
      BY <1>1, ViewOfValid DEF View
  <1> QED BY <1>1, <1>2, <1>3 DEF ChatCtx

\* text_done closes the text block.
LEMMA CloseText ==
    ASSUME NEW d \in Seq(ClaudeEvent), NEW r, Feeds(d, r), r.ctx.content_block_started
    PROVE  /\ Feeds(d, ToClaude!text_done(r))
           /\ View(d, ToClaude!text_done(r))
                = VAfter(View(d, r),
                         ClaudeEv("content_block_stop", "none", r.ctx.content_index))
  <1> DEFINE v == View(d, r)
             e == ClaudeEv("content_block_stop", "none", r.ctx.content_index)
             b == [r.ctx EXCEPT !.content_block_started = FALSE,
                   !.content_index = r.ctx.content_index + 1]
             m == ToClaude!emit(r, e)
             s == ToClaude!text_done(r)
  <1>1. /\ r \in ToClaudeResult /\ r.ctx \in ChatCtx /\ r = [ctx |-> r.ctx, out |-> r.out]
        /\ CValid(d \o r.out) /\ Linked(r.ctx, v) /\ Ready(r.ctx, v)
        /\ v \in ViewType /\ (v.kind # "none" => v.blocks > 0)
        /\ r.ctx.content_index \in Nat /\ r.ctx.content_index + 1 \in Nat
        /\ r.ctx.thinking_index \in Nat /\ r.ctx.thinking_index + 1 \in Nat
             /\ r.ctx.tool_index \in Nat
      BY FeedsHas
  <1>2. VMay(v, e) /\ b \in ChatCtx /\ Linked(b, VAfter(v, e)) /\ Ready(b, VAfter(v, e))
    <2> HIDE DEF v
    <2> QED BY <1>1, MayCloseText, Zenon DEF v
  <1>3. /\ m \in ToClaudeResult /\ m.ctx = r.ctx /\ m.out = Append(r.out, e)
        /\ CValid(d \o Append(r.out, e)) /\ CView(d \o Append(r.out, e)) = VAfter(v, e)
    <2> HIDE DEF b
    <2> QED BY <1>1, <1>2, Emit DEF View
  <1>4. s \in ToClaudeResult /\ s.ctx = b /\ s.out = m.out
    <2>1. e = ToClaude!event("content_block_stop", "none", r.ctx.content_index)
      BY DEF ClaudeEv, ToClaude!event
    <2>2. s = [[m EXCEPT !.ctx.content_block_started = FALSE] EXCEPT !.ctx.content_index
            = @ + 1]
      <3> HIDE DEF e, v
      <3> QED BY <2>1 DEF ToClaude!text_done, ToClaude!close_text_block
    <2> HIDE DEF e, v, m, s
    <2> DEFINE k == [m EXCEPT !.ctx.content_block_started = FALSE]
    <2>3. k \in ToClaudeResult /\ k.out = m.out
            /\ k.ctx = [r.ctx EXCEPT !.content_block_started = FALSE]
      BY <1>3, NestCloseText
    <2>4. k.ctx.content_index = r.ctx.content_index
      BY <1>1, <2>3 DEF ChatCtx
    <2> DEFINE x == r.ctx.content_index + 1
    <2>5. s = [k EXCEPT !.ctx.content_index = x] /\ x \in Nat
      BY <1>1, <2>2, <2>4
    <2>7. [[r.ctx EXCEPT !.content_block_started = FALSE] EXCEPT !.content_index = x] = b
      BY <1>1 DEF ChatCtx
    <2> HIDE DEF k, x, b
    <2>6. s \in ToClaudeResult /\ s.out = k.out /\ s.ctx = [k.ctx EXCEPT !.content_index = x]
      BY <2>3, <2>5, NestNext
    <2> QED BY <2>3, <2>6, <2>7
  <1> HIDE DEF m, s, b, v, e
  <1> QED BY <1>2, <1>3, <1>4 DEF Feeds, Tracks, View, v, e, s

\* tool_done closes the tool block.
LEMMA CloseTool ==
    ASSUME NEW d \in Seq(ClaudeEvent), NEW r, Feeds(d, r), r.ctx.tool_block_started
    PROVE  /\ Feeds(d, ToClaude!tool_done(r))
           /\ View(d, ToClaude!tool_done(r))
                = VAfter(View(d, r), ClaudeEv("content_block_stop", "none", r.ctx.tool_index))
  <1> DEFINE v == View(d, r)
             e == ClaudeEv("content_block_stop", "none", r.ctx.tool_index)
             b == [r.ctx EXCEPT !.tool_block_started = FALSE,
                   !.content_index = r.ctx.content_index + 1]
             m == ToClaude!emit(r, e)
             s == ToClaude!tool_done(r)
  <1>1. /\ r \in ToClaudeResult /\ r.ctx \in ChatCtx /\ r = [ctx |-> r.ctx, out |-> r.out]
        /\ CValid(d \o r.out) /\ Linked(r.ctx, v) /\ Ready(r.ctx, v)
        /\ v \in ViewType /\ (v.kind # "none" => v.blocks > 0)
        /\ r.ctx.content_index \in Nat /\ r.ctx.content_index + 1 \in Nat
        /\ r.ctx.thinking_index \in Nat /\ r.ctx.thinking_index + 1 \in Nat
             /\ r.ctx.tool_index \in Nat
      BY FeedsHas
  <1>2. VMay(v, e) /\ b \in ChatCtx /\ Linked(b, VAfter(v, e)) /\ Ready(b, VAfter(v, e))
    <2> HIDE DEF v
    <2> QED BY <1>1, MayCloseTool, Zenon DEF v
  <1>3. /\ m \in ToClaudeResult /\ m.ctx = r.ctx /\ m.out = Append(r.out, e)
        /\ CValid(d \o Append(r.out, e)) /\ CView(d \o Append(r.out, e)) = VAfter(v, e)
    <2> HIDE DEF b
    <2> QED BY <1>1, <1>2, Emit DEF View
  <1>4. s \in ToClaudeResult /\ s.ctx = b /\ s.out = m.out
    <2>1. e = ToClaude!event("content_block_stop", "none", r.ctx.tool_index)
      BY DEF ClaudeEv, ToClaude!event
    <2>2. s = [[m EXCEPT !.ctx.tool_block_started = FALSE] EXCEPT !.ctx.content_index = @ + 1]
      <3> HIDE DEF e, v
      <3> QED BY <2>1 DEF ToClaude!tool_done, ToClaude!close_tool_block
    <2> HIDE DEF e, v, m, s
    <2> DEFINE k == [m EXCEPT !.ctx.tool_block_started = FALSE]
    <2>3. k \in ToClaudeResult /\ k.out = m.out
            /\ k.ctx = [r.ctx EXCEPT !.tool_block_started = FALSE]
      BY <1>3, NestCloseTool
    <2>4. k.ctx.content_index = r.ctx.content_index
      BY <1>1, <2>3 DEF ChatCtx
    <2> DEFINE x == r.ctx.content_index + 1
    <2>5. s = [k EXCEPT !.ctx.content_index = x] /\ x \in Nat
      BY <1>1, <2>2, <2>4
    <2>7. [[r.ctx EXCEPT !.tool_block_started = FALSE] EXCEPT !.content_index = x] = b
      BY <1>1 DEF ChatCtx
    <2> HIDE DEF k, x, b
    <2>6. s \in ToClaudeResult /\ s.out = k.out /\ s.ctx = [k.ctx EXCEPT !.content_index = x]
      BY <2>3, <2>5, NestNext
    <2> QED BY <2>3, <2>6, <2>7
  <1> HIDE DEF m, s, b, v, e
  <1> QED BY <1>2, <1>3, <1>4 DEF Feeds, Tracks, View, v, e, s

\* close_thinking_block closes the thinking block.
LEMMA CloseThinking ==
    ASSUME NEW d \in Seq(ClaudeEvent), NEW r, Feeds(d, r), r.ctx.thinking_block_started
    PROVE  /\ Feeds(d, ToClaude!close_thinking_block(r))
           /\ View(d, ToClaude!close_thinking_block(r))
                = VAfter(View(d, r),
                         ClaudeEv("content_block_stop", "none", r.ctx.thinking_index))
  <1> DEFINE v == View(d, r)
             e == ClaudeEv("content_block_stop", "none", r.ctx.thinking_index)
             b == [r.ctx EXCEPT !.thinking_block_started = FALSE,
                   !.content_index = r.ctx.thinking_index + 1]
             m == ToClaude!emit(r, e)
             s == ToClaude!close_thinking_block(r)
  <1>1. /\ r \in ToClaudeResult /\ r.ctx \in ChatCtx /\ r = [ctx |-> r.ctx, out |-> r.out]
        /\ CValid(d \o r.out) /\ Linked(r.ctx, v) /\ Ready(r.ctx, v)
        /\ v \in ViewType /\ (v.kind # "none" => v.blocks > 0)
        /\ r.ctx.content_index \in Nat /\ r.ctx.content_index + 1 \in Nat
        /\ r.ctx.thinking_index \in Nat /\ r.ctx.thinking_index + 1 \in Nat
             /\ r.ctx.tool_index \in Nat
      BY FeedsHas
  <1>2. VMay(v, e) /\ b \in ChatCtx /\ Linked(b, VAfter(v, e)) /\ Ready(b, VAfter(v, e))
    <2> HIDE DEF v
    <2> QED BY <1>1, MayCloseThinking, Zenon DEF v
  <1>3. /\ m \in ToClaudeResult /\ m.ctx = r.ctx /\ m.out = Append(r.out, e)
        /\ CValid(d \o Append(r.out, e)) /\ CView(d \o Append(r.out, e)) = VAfter(v, e)
    <2> HIDE DEF b
    <2> QED BY <1>1, <1>2, Emit DEF View
  <1>4. s \in ToClaudeResult /\ s.ctx = b /\ s.out = m.out
    <2>1. e = ToClaude!event("content_block_stop", "none", r.ctx.thinking_index)
      BY DEF ClaudeEv, ToClaude!event
    <2>2. s = [m EXCEPT !.ctx.thinking_block_started = FALSE,
               !.ctx.content_index = r.ctx.thinking_index + 1]
      <3> HIDE DEF e, v
      <3> QED BY <2>1 DEF ToClaude!close_thinking_block
    <2> HIDE DEF e, v, m, s
    <2> DEFINE x == r.ctx.thinking_index + 1
    <2>3. x \in Nat /\ s = [m EXCEPT !.ctx.thinking_block_started = FALSE, !.ctx.content_index = x]
      BY <1>1, <2>2
    <2> HIDE DEF x
    <2>4. s \in ToClaudeResult /\ s.out = m.out
            /\ s.ctx = [m.ctx EXCEPT !.thinking_block_started = FALSE, !.content_index = x]
      BY <1>3, <2>3, NestCloseThinking, Zenon
    <2> QED BY <1>3, <2>4 DEF x
  <1> HIDE DEF m, s, b, v, e
  <1> QED BY <1>2, <1>3, <1>4 DEF Feeds, Tracks, View, v, e, s

\* open_tool opens a tool block.
LEMMA OpenTool ==
    ASSUME NEW d \in Seq(ClaudeEvent), NEW r, Feeds(d, r), View(d, r).kind = "none"
    PROVE  /\ Feeds(d, ToClaude!open_tool(r))
           /\ View(d, ToClaude!open_tool(r))
                = VAfter(View(d, r),
                         ClaudeEv("content_block_start", "tool_use", r.ctx.content_index))
  <1> DEFINE v == View(d, r)
             e == ClaudeEv("content_block_start", "tool_use", r.ctx.content_index)
             b == [r.ctx EXCEPT !.tool_block_started = TRUE,
                   !.tool_index = r.ctx.content_index]
             m == ToClaude!emit(r, e)
             s == ToClaude!open_tool(r)
  <1>1. /\ r \in ToClaudeResult /\ r.ctx \in ChatCtx /\ r = [ctx |-> r.ctx, out |-> r.out]
        /\ CValid(d \o r.out) /\ Linked(r.ctx, v) /\ Ready(r.ctx, v)
        /\ v \in ViewType /\ (v.kind # "none" => v.blocks > 0)
        /\ r.ctx.content_index \in Nat /\ r.ctx.content_index + 1 \in Nat
        /\ r.ctx.thinking_index \in Nat /\ r.ctx.thinking_index + 1 \in Nat
             /\ r.ctx.tool_index \in Nat
      BY FeedsHas
  <1>2. VMay(v, e) /\ b \in ChatCtx /\ Linked(b, VAfter(v, e)) /\ Ready(b, VAfter(v, e))
    <2> HIDE DEF v
    <2> QED BY <1>1, MayStartTool, Zenon DEF v
  <1>3. /\ m \in ToClaudeResult /\ m.ctx = r.ctx /\ m.out = Append(r.out, e)
        /\ CValid(d \o Append(r.out, e)) /\ CView(d \o Append(r.out, e)) = VAfter(v, e)
    <2> HIDE DEF b
    <2> QED BY <1>1, <1>2, Emit DEF View
  <1>4. s \in ToClaudeResult /\ s.ctx = b /\ s.out = m.out
    <2>1. e = ToClaude!event("content_block_start", "tool_use", r.ctx.content_index)
      BY DEF ClaudeEv, ToClaude!event
    <2>2. s = [m EXCEPT !.ctx.tool_block_started = TRUE,
               !.ctx.tool_index = r.ctx.content_index]
      <3> HIDE DEF e, v
      <3> QED BY <2>1 DEF ToClaude!open_tool
    <2> HIDE DEF e, v, m, s
    <2> DEFINE x == r.ctx.content_index
    <2>3. x \in Nat /\ s = [m EXCEPT !.ctx.tool_block_started = TRUE, !.ctx.tool_index = x]
      BY <1>1, <2>2
    <2> HIDE DEF x
    <2>4. s \in ToClaudeResult /\ s.out = m.out
            /\ s.ctx = [m.ctx EXCEPT !.tool_block_started = TRUE, !.tool_index = x]
      BY <1>3, <2>3, NestOpenTool, Zenon
    <2> QED BY <1>3, <2>4 DEF x
  <1> HIDE DEF m, s, b, v, e
  <1> QED BY <1>2, <1>3, <1>4 DEF Feeds, Tracks, View, v, e, s

\* The start of a thinking block.
LEMMA StartThinking ==
    ASSUME NEW d \in Seq(ClaudeEvent), NEW r, Feeds(d, r), View(d, r).kind = "none"
    PROVE  /\ Feeds(d, [ToClaude!emit(r, ToClaude!event("content_block_start", "thinking", r.ctx.content_index)) EXCEPT !.ctx.thinking_block_started = TRUE, !.ctx.thinking_index = r.ctx.content_index])
           /\ View(d, [ToClaude!emit(r, ToClaude!event("content_block_start", "thinking", r.ctx.content_index)) EXCEPT !.ctx.thinking_block_started = TRUE, !.ctx.thinking_index = r.ctx.content_index]) = VAfter(View(d, r), ClaudeEv("content_block_start", "thinking", r.ctx.content_index))
  <1> DEFINE v == View(d, r)
             e == ClaudeEv("content_block_start", "thinking", r.ctx.content_index)
             b == [r.ctx EXCEPT !.thinking_block_started = TRUE,
                   !.thinking_index = r.ctx.content_index]
             m == ToClaude!emit(r, e)
             s == [ToClaude!emit(r, ToClaude!event("content_block_start", "thinking", r.ctx.content_index)) EXCEPT !.ctx.thinking_block_started = TRUE, !.ctx.thinking_index = r.ctx.content_index]
  <1>1. /\ r \in ToClaudeResult /\ r.ctx \in ChatCtx /\ r = [ctx |-> r.ctx, out |-> r.out]
        /\ CValid(d \o r.out) /\ Linked(r.ctx, v) /\ Ready(r.ctx, v)
        /\ v \in ViewType /\ (v.kind # "none" => v.blocks > 0)
        /\ r.ctx.content_index \in Nat /\ r.ctx.content_index + 1 \in Nat
        /\ r.ctx.thinking_index \in Nat /\ r.ctx.thinking_index + 1 \in Nat
             /\ r.ctx.tool_index \in Nat
      BY FeedsHas
  <1>2. VMay(v, e) /\ b \in ChatCtx /\ Linked(b, VAfter(v, e)) /\ Ready(b, VAfter(v, e))
    <2> HIDE DEF v
    <2> QED BY <1>1, MayStartThinking, Zenon DEF v
  <1>3. /\ m \in ToClaudeResult /\ m.ctx = r.ctx /\ m.out = Append(r.out, e)
        /\ CValid(d \o Append(r.out, e)) /\ CView(d \o Append(r.out, e)) = VAfter(v, e)
    <2> HIDE DEF b
    <2> QED BY <1>1, <1>2, Emit DEF View
  <1>4. s \in ToClaudeResult /\ s.ctx = b /\ s.out = m.out
    <2>1. e = ToClaude!event("content_block_start", "thinking", r.ctx.content_index)
      BY DEF ClaudeEv, ToClaude!event
    <2>2. s = [m EXCEPT !.ctx.thinking_block_started = TRUE,
               !.ctx.thinking_index = r.ctx.content_index]
      <3> HIDE DEF e, v
      <3> QED BY <2>1 DEF ToClaude!emit
    <2> HIDE DEF e, v, m, s
    <2> DEFINE x == r.ctx.content_index
    <2>3. x \in Nat /\ s = [m EXCEPT !.ctx.thinking_block_started = TRUE, !.ctx.thinking_index = x]
      BY <1>1, <2>2
    <2> HIDE DEF x
    <2>4. s \in ToClaudeResult /\ s.out = m.out
            /\ s.ctx = [m.ctx EXCEPT !.thinking_block_started = TRUE, !.thinking_index = x]
      BY <1>3, <2>3, NestOpenThinking, Zenon
    <2> QED BY <1>3, <2>4 DEF x
  <1> HIDE DEF m, s, b, v, e
  <1> QED BY <1>2, <1>3, <1>4 DEF Feeds, Tracks, View, v, e, s

\* The start of a text block.
LEMMA StartText ==
    ASSUME NEW d \in Seq(ClaudeEvent), NEW r, Feeds(d, r), View(d, r).kind = "none"
    PROVE  /\ Feeds(d, [ToClaude!emit(r, ToClaude!event("content_block_start", "text", r.ctx.content_index)) EXCEPT !.ctx.content_block_started = TRUE])
           /\ View(d, [ToClaude!emit(r, ToClaude!event("content_block_start", "text", r.ctx.content_index)) EXCEPT !.ctx.content_block_started = TRUE]) = VAfter(View(d, r), ClaudeEv("content_block_start", "text", r.ctx.content_index))
  <1> DEFINE v == View(d, r)
             e == ClaudeEv("content_block_start", "text", r.ctx.content_index)
             b == [r.ctx EXCEPT !.content_block_started = TRUE]
             m == ToClaude!emit(r, e)
             s == [ToClaude!emit(r, ToClaude!event("content_block_start", "text", r.ctx.content_index)) EXCEPT !.ctx.content_block_started = TRUE]
  <1>1. /\ r \in ToClaudeResult /\ r.ctx \in ChatCtx /\ r = [ctx |-> r.ctx, out |-> r.out]
        /\ CValid(d \o r.out) /\ Linked(r.ctx, v) /\ Ready(r.ctx, v)
        /\ v \in ViewType /\ (v.kind # "none" => v.blocks > 0)
        /\ r.ctx.content_index \in Nat /\ r.ctx.content_index + 1 \in Nat
        /\ r.ctx.thinking_index \in Nat /\ r.ctx.thinking_index + 1 \in Nat
             /\ r.ctx.tool_index \in Nat
      BY FeedsHas
  <1>2. VMay(v, e) /\ b \in ChatCtx /\ Linked(b, VAfter(v, e)) /\ Ready(b, VAfter(v, e))
    <2> HIDE DEF v
    <2> QED BY <1>1, MayStartText DEF v
  <1>3. /\ m \in ToClaudeResult /\ m.ctx = r.ctx /\ m.out = Append(r.out, e)
        /\ CValid(d \o Append(r.out, e)) /\ CView(d \o Append(r.out, e)) = VAfter(v, e)
    <2> HIDE DEF b
    <2> QED BY <1>1, <1>2, Emit DEF View
  <1>4. s \in ToClaudeResult /\ s.ctx = b /\ s.out = m.out
    <2>1. e = ToClaude!event("content_block_start", "text", r.ctx.content_index)
      BY DEF ClaudeEv, ToClaude!event
    <2>2. s = [m EXCEPT !.ctx.content_block_started = TRUE]
      <3> HIDE DEF e, v
      <3> QED BY <2>1 DEF ToClaude!emit
    <2> HIDE DEF e, v, m, s
    <2> QED BY <1>1, <1>3, <2>2, NestOpenText
  <1> HIDE DEF m, s, b, v, e
  <1> QED BY <1>2, <1>3, <1>4 DEF Feeds, Tracks, View, v, e, s

\* A thinking delta.
LEMMA Think ==
    ASSUME NEW d \in Seq(ClaudeEvent), NEW r, Feeds(d, r), View(d, r).kind = "thinking"
    PROVE  /\ Feeds(d, ToClaude!emit(r, ToClaude!event("content_block_delta", "thinking", r.ctx.thinking_index)))
           /\ View(d, ToClaude!emit(r, ToClaude!event("content_block_delta", "thinking", r.ctx.thinking_index))) = VAfter(View(d, r), ClaudeEv("content_block_delta", "thinking", r.ctx.thinking_index))
  <1> DEFINE v == View(d, r)
             e == ClaudeEv("content_block_delta", "thinking", r.ctx.thinking_index)
             b == r.ctx
             m == ToClaude!emit(r, e)
             s == ToClaude!emit(r, ToClaude!event("content_block_delta", "thinking", r.ctx.thinking_index))
  <1>1. /\ r \in ToClaudeResult /\ r.ctx \in ChatCtx /\ r = [ctx |-> r.ctx, out |-> r.out]
        /\ CValid(d \o r.out) /\ Linked(r.ctx, v) /\ Ready(r.ctx, v)
        /\ v \in ViewType /\ (v.kind # "none" => v.blocks > 0)
        /\ r.ctx.content_index \in Nat /\ r.ctx.content_index + 1 \in Nat
        /\ r.ctx.thinking_index \in Nat /\ r.ctx.thinking_index + 1 \in Nat
             /\ r.ctx.tool_index \in Nat
      BY FeedsHas
  <1>2. VMay(v, e) /\ b \in ChatCtx /\ Linked(b, VAfter(v, e)) /\ Ready(b, VAfter(v, e))
    <2> HIDE DEF v
    <2> QED BY <1>1, MayThink DEF v
  <1>3. /\ m \in ToClaudeResult /\ m.ctx = r.ctx /\ m.out = Append(r.out, e)
        /\ CValid(d \o Append(r.out, e)) /\ CView(d \o Append(r.out, e)) = VAfter(v, e)
    <2> HIDE DEF b
    <2> QED BY <1>1, <1>2, Emit DEF View
  <1>4. s \in ToClaudeResult /\ s.ctx = b /\ s.out = m.out
    <2>1. e = ToClaude!event("content_block_delta", "thinking", r.ctx.thinking_index)
      BY DEF ClaudeEv, ToClaude!event
    <2>2. s = m
      <3> HIDE DEF e, v
      <3> QED BY <2>1 DEF ToClaude!emit
    <2> HIDE DEF e, v, m, s
    <2> QED BY <1>3, <2>2
  <1> HIDE DEF m, s, b, v, e
  <1> QED BY <1>2, <1>3, <1>4 DEF Feeds, Tracks, View, v, e, s

\* A text delta.
LEMMA Say ==
    ASSUME NEW d \in Seq(ClaudeEvent), NEW r, Feeds(d, r), View(d, r).kind = "text"
    PROVE  /\ Feeds(d, ToClaude!emit(r, ToClaude!event("content_block_delta", "text", r.ctx.content_index)))
           /\ View(d, ToClaude!emit(r, ToClaude!event("content_block_delta", "text", r.ctx.content_index))) = VAfter(View(d, r), ClaudeEv("content_block_delta", "text", r.ctx.content_index))
  <1> DEFINE v == View(d, r)
             e == ClaudeEv("content_block_delta", "text", r.ctx.content_index)
             b == r.ctx
             m == ToClaude!emit(r, e)
             s == ToClaude!emit(r, ToClaude!event("content_block_delta", "text", r.ctx.content_index))
  <1>1. /\ r \in ToClaudeResult /\ r.ctx \in ChatCtx /\ r = [ctx |-> r.ctx, out |-> r.out]
        /\ CValid(d \o r.out) /\ Linked(r.ctx, v) /\ Ready(r.ctx, v)
        /\ v \in ViewType /\ (v.kind # "none" => v.blocks > 0)
        /\ r.ctx.content_index \in Nat /\ r.ctx.content_index + 1 \in Nat
        /\ r.ctx.thinking_index \in Nat /\ r.ctx.thinking_index + 1 \in Nat
             /\ r.ctx.tool_index \in Nat
      BY FeedsHas
  <1>2. VMay(v, e) /\ b \in ChatCtx /\ Linked(b, VAfter(v, e)) /\ Ready(b, VAfter(v, e))
    <2> HIDE DEF v
    <2> QED BY <1>1, MaySay DEF v
  <1>3. /\ m \in ToClaudeResult /\ m.ctx = r.ctx /\ m.out = Append(r.out, e)
        /\ CValid(d \o Append(r.out, e)) /\ CView(d \o Append(r.out, e)) = VAfter(v, e)
    <2> HIDE DEF b
    <2> QED BY <1>1, <1>2, Emit DEF View
  <1>4. s \in ToClaudeResult /\ s.ctx = b /\ s.out = m.out
    <2>1. e = ToClaude!event("content_block_delta", "text", r.ctx.content_index)
      BY DEF ClaudeEv, ToClaude!event
    <2>2. s = m
      <3> HIDE DEF e, v
      <3> QED BY <2>1 DEF ToClaude!emit
    <2> HIDE DEF e, v, m, s
    <2> QED BY <1>3, <2>2
  <1> HIDE DEF m, s, b, v, e
  <1> QED BY <1>2, <1>3, <1>4 DEF Feeds, Tracks, View, v, e, s

\* A piece of the arguments of a tool call.
LEMMA Call ==
    ASSUME NEW d \in Seq(ClaudeEvent), NEW r, Feeds(d, r), View(d, r).kind = "tool_use"
    PROVE  /\ Feeds(d, ToClaude!emit(r, ToClaude!event("content_block_delta", "tool_use", r.ctx.tool_index)))
           /\ View(d, ToClaude!emit(r, ToClaude!event("content_block_delta", "tool_use", r.ctx.tool_index))) = VAfter(View(d, r), ClaudeEv("content_block_delta", "tool_use", r.ctx.tool_index))
  <1> DEFINE v == View(d, r)
             e == ClaudeEv("content_block_delta", "tool_use", r.ctx.tool_index)
             b == r.ctx
             m == ToClaude!emit(r, e)
             s == ToClaude!emit(r, ToClaude!event("content_block_delta", "tool_use", r.ctx.tool_index))
  <1>1. /\ r \in ToClaudeResult /\ r.ctx \in ChatCtx /\ r = [ctx |-> r.ctx, out |-> r.out]
        /\ CValid(d \o r.out) /\ Linked(r.ctx, v) /\ Ready(r.ctx, v)
        /\ v \in ViewType /\ (v.kind # "none" => v.blocks > 0)
        /\ r.ctx.content_index \in Nat /\ r.ctx.content_index + 1 \in Nat
        /\ r.ctx.thinking_index \in Nat /\ r.ctx.thinking_index + 1 \in Nat
             /\ r.ctx.tool_index \in Nat
      BY FeedsHas
  <1>2. VMay(v, e) /\ b \in ChatCtx /\ Linked(b, VAfter(v, e)) /\ Ready(b, VAfter(v, e))
    <2> HIDE DEF v
    <2> QED BY <1>1, MayCall DEF v
  <1>3. /\ m \in ToClaudeResult /\ m.ctx = r.ctx /\ m.out = Append(r.out, e)
        /\ CValid(d \o Append(r.out, e)) /\ CView(d \o Append(r.out, e)) = VAfter(v, e)
    <2> HIDE DEF b
    <2> QED BY <1>1, <1>2, Emit DEF View
  <1>4. s \in ToClaudeResult /\ s.ctx = b /\ s.out = m.out
    <2>1. e = ToClaude!event("content_block_delta", "tool_use", r.ctx.tool_index)
      BY DEF ClaudeEv, ToClaude!event
    <2>2. s = m
      <3> HIDE DEF e, v
      <3> QED BY <2>1 DEF ToClaude!emit
    <2> HIDE DEF e, v, m, s
    <2> QED BY <1>3, <2>2
  <1> HIDE DEF m, s, b, v, e
  <1> QED BY <1>2, <1>3, <1>4 DEF Feeds, Tracks, View, v, e, s

\* A stop leaves no block open and says nothing.
LEMMA AfterStop ==
    ASSUME NEW v, NEW x
    PROVE  LET w == VAfter(v, ClaudeEv("content_block_stop", "none", x))
           IN w.kind = "none" /\ w.said = v.said /\ w.calls = v.calls
  BY DEF VAfter, ClaudeEv

\* A start opens its kind of block, and counts a tool call.
LEMMA AfterStart ==
    ASSUME NEW v, NEW x, NEW k
    PROVE  LET w == VAfter(v, ClaudeEv("content_block_start", k, x))
           IN w.kind = k /\ w.said = v.said /\ w.calls = IF k = "tool_use" THEN v.calls + 1
               ELSE v.calls
  BY DEF VAfter, ClaudeEv

\* A delta says one piece.
LEMMA AfterDelta ==
    ASSUME NEW v, NEW x, NEW k
    PROVE  LET w == VAfter(v, ClaudeEv("content_block_delta", k, x))
           IN /\ w.kind = v.kind /\ w.calls = v.calls
              /\ w.said = Append(v.said, <<k, IF k = "tool_use" THEN v.calls ELSE 0>>)
  BY DEF VAfter, ClaudeEv

\* text_done, whether or not a text block is open.
LEMMA TextDone ==
    ASSUME NEW d \in Seq(ClaudeEvent), NEW r, Feeds(d, r)
    PROVE  LET s == ToClaude!text_done(r)
               v == View(d, r)
               w == View(d, s)
           IN /\ Feeds(d, s)
              /\ w.kind = (IF v.kind = "text" THEN "none" ELSE v.kind)
              /\ w.said = v.said /\ w.calls = v.calls
  <1>1. r.ctx.content_block_started <=> View(d, r).kind = "text"
      BY FeedsHas DEF Linked
  <1>2. CASE ~r.ctx.content_block_started
    <2>1. ToClaude!text_done(r) = r
      BY <1>2 DEF ToClaude!text_done
    <2> QED BY <1>1, <1>2, <2>1
  <1>3. CASE r.ctx.content_block_started
      BY <1>1, <1>3, CloseText, AfterStop
  <1> QED BY <1>2, <1>3

\* tool_done, whether or not a tool block is open.
LEMMA ToolDone ==
    ASSUME NEW d \in Seq(ClaudeEvent), NEW r, Feeds(d, r)
    PROVE  LET s == ToClaude!tool_done(r)
               v == View(d, r)
               w == View(d, s)
           IN /\ Feeds(d, s)
              /\ w.kind = (IF v.kind = "tool_use" THEN "none" ELSE v.kind)
              /\ w.said = v.said /\ w.calls = v.calls
  <1>1. r.ctx.tool_block_started <=> View(d, r).kind = "tool_use"
      BY FeedsHas DEF Linked
  <1>2. CASE ~r.ctx.tool_block_started
    <2>1. ToClaude!tool_done(r) = r
      BY <1>2 DEF ToClaude!tool_done
    <2> QED BY <1>1, <1>2, <2>1
  <1>3. CASE r.ctx.tool_block_started
      BY <1>1, <1>3, CloseTool, AfterStop
  <1> QED BY <1>2, <1>3

\* close_thinking_block, whether or not a thinking block is open.
LEMMA ThinkingDone ==
    ASSUME NEW d \in Seq(ClaudeEvent), NEW r, Feeds(d, r)
    PROVE  LET s == ToClaude!close_thinking_block(r)
               v == View(d, r)
               w == View(d, s)
           IN /\ Feeds(d, s)
              /\ w.kind = (IF v.kind = "thinking" THEN "none" ELSE v.kind)
              /\ w.said = v.said /\ w.calls = v.calls
  <1>1. r.ctx.thinking_block_started <=> View(d, r).kind = "thinking"
      BY FeedsHas DEF Linked
  <1>2. CASE ~r.ctx.thinking_block_started
    <2>1. ToClaude!close_thinking_block(r) = r
      BY <1>2 DEF ToClaude!close_thinking_block
    <2> QED BY <1>1, <1>2, <2>1
  <1>3. CASE r.ctx.thinking_block_started
      BY <1>1, <1>3, CloseThinking, AfterStop
  <1> QED BY <1>2, <1>3

\* emit_thinking_delta puts the delta into a thinking block.
LEMMA ThinkingDelta ==
    ASSUME NEW d \in Seq(ClaudeEvent), NEW r, Feeds(d, r)
    PROVE  LET s == ToClaude!emit_thinking_delta(r)
               v == View(d, r)
               w == View(d, s)
           IN /\ Feeds(d, s) /\ w.kind = "thinking"
              /\ w.said = Append(v.said, <<"thinking", 0>>) /\ w.calls = v.calls
  <1> DEFINE c == ToClaude!tool_done(ToClaude!text_done(r))
             s == IF c.ctx.thinking_block_started THEN c
                  ELSE [ToClaude!emit(c, ToClaude!event("content_block_start", "thinking", c.ctx.content_index))
                          EXCEPT !.ctx.thinking_block_started = TRUE,
                                 !.ctx.thinking_index = c.ctx.content_index]
  <1>1. /\ Feeds(d, c) /\ View(d, c).kind \in {"none", "thinking"}
        /\ View(d, c).said = View(d, r).said /\ View(d, c).calls = View(d, r).calls
    <2>1. Feeds(d, ToClaude!text_done(r))
      BY TextDone
    <2>2. View(d, r).kind \in Kinds \cup {"none"}
      BY FeedsHas DEF ViewType
    <2> QED BY <2>1, <2>2, TextDone, ToolDone DEF Kinds
  <1>2. c.ctx.thinking_block_started <=> View(d, c).kind = "thinking"
    <2> HIDE DEF c
    <2> QED BY <1>1, FeedsHas DEF Linked
  <1> HIDE DEF c
  <1>3. /\ Feeds(d, s) /\ View(d, s).kind = "thinking"
        /\ View(d, s).said = View(d, r).said /\ View(d, s).calls = View(d, r).calls
    <2>1. CASE c.ctx.thinking_block_started
      BY <1>1, <1>2, <2>1
    <2>2. CASE ~c.ctx.thinking_block_started
      <3>1. View(d, c).kind = "none"
        BY <1>1, <1>2, <2>2
      <3>2. s = [ToClaude!emit(c, ToClaude!event("content_block_start", "thinking", c.ctx.content_index))
                          EXCEPT !.ctx.thinking_block_started = TRUE,
                                 !.ctx.thinking_index = c.ctx.content_index]
        BY <2>2, Zenon
      <3> DEFINE e == ClaudeEv("content_block_start", "thinking", c.ctx.content_index)
      <3>3. Feeds(d, s) /\ View(d, s) = VAfter(View(d, c), e)
        <4> HIDE DEF s, e
        <4> QED BY <1>1, <3>1, <3>2, StartThinking, Zenon DEF e
      <3> HIDE DEF s
      <3> QED BY <1>1, <3>3, AfterStart
    <2> QED BY <2>1, <2>2
  <1>4. ToClaude!emit_thinking_delta(r)
          = ToClaude!emit(s, ToClaude!event("content_block_delta", "thinking", s.ctx.thinking_index))
      BY Zenon DEF ToClaude!emit_thinking_delta, c
  <1> HIDE DEF s
  <1> QED BY <1>3, <1>4, Think, AfterDelta

\* emit_text_delta puts the delta into a text block.
LEMMA TextDelta ==
    ASSUME NEW d \in Seq(ClaudeEvent), NEW r, Feeds(d, r)
    PROVE  LET s == ToClaude!emit_text_delta(r)
               v == View(d, r)
               w == View(d, s)
           IN /\ Feeds(d, s) /\ w.kind = "text"
              /\ w.said = Append(v.said, <<"text", 0>>) /\ w.calls = v.calls
  <1> DEFINE c == ToClaude!tool_done(ToClaude!close_thinking_block(r))
             s == IF c.ctx.content_block_started THEN c
                  ELSE [ToClaude!emit(c, ToClaude!event("content_block_start", "text", c.ctx.content_index))
                          EXCEPT !.ctx.content_block_started = TRUE]
  <1>1. /\ Feeds(d, c) /\ View(d, c).kind \in {"none", "text"}
        /\ View(d, c).said = View(d, r).said /\ View(d, c).calls = View(d, r).calls
    <2>1. Feeds(d, ToClaude!close_thinking_block(r))
      BY ThinkingDone
    <2>2. View(d, r).kind \in Kinds \cup {"none"}
      BY FeedsHas DEF ViewType
    <2> QED BY <2>1, <2>2, ThinkingDone, ToolDone DEF Kinds
  <1>2. c.ctx.content_block_started <=> View(d, c).kind = "text"
    <2> HIDE DEF c
    <2> QED BY <1>1, FeedsHas DEF Linked
  <1> HIDE DEF c
  <1>3. /\ Feeds(d, s) /\ View(d, s).kind = "text"
        /\ View(d, s).said = View(d, r).said /\ View(d, s).calls = View(d, r).calls
    <2>1. CASE c.ctx.content_block_started
      BY <1>1, <1>2, <2>1
    <2>2. CASE ~c.ctx.content_block_started
      <3>1. View(d, c).kind = "none"
        BY <1>1, <1>2, <2>2
      <3> QED BY <1>1, <2>2, <3>1, StartText, AfterStart
    <2> QED BY <2>1, <2>2
  <1>4. ToClaude!emit_text_delta(r)
          = ToClaude!emit(s, ToClaude!event("content_block_delta", "text", s.ctx.content_index))
      BY Zenon DEF ToClaude!emit_text_delta, c
  <1> HIDE DEF s
  <1> QED BY <1>3, <1>4, Say, AfterDelta

\* emit_tool_call, of a call with an id or of arguments for the open call.
LEMMA ToolCalled ==
    ASSUME NEW d \in Seq(ClaudeEvent), NEW r, Feeds(d, r), NEW tc, tc.id \in BOOLEAN,
           tc.args \in BOOLEAN,
           tc.id \/ View(d, r).kind = "tool_use"
    PROVE  LET s == ToClaude!emit_tool_call(r, tc)
               v == View(d, r)
               w == View(d, s)
           IN /\ Feeds(d, s) /\ w.kind = "tool_use"
              /\ w.calls = (IF tc.id THEN v.calls + 1 ELSE v.calls)
              /\ w.said = (IF tc.args THEN Append(v.said, <<"tool_use", w.calls>>)
                           ELSE v.said)
  <1> DEFINE p == ToClaude!tool_done(ToClaude!text_done(ToClaude!close_thinking_block(r)))
             named == IF tc.id THEN ToClaude!open_tool(p) ELSE r
             opened == IF tc.args /\ ~named.ctx.tool_block_started
                 THEN ToClaude!open_tool(named) ELSE named
  <1>1. /\ Feeds(d, p) /\ View(d, p).kind = "none"
        /\ View(d, p).said = View(d, r).said /\ View(d, p).calls = View(d, r).calls
    <2>1. Feeds(d, ToClaude!close_thinking_block(r))
      BY ThinkingDone
    <2>2. Feeds(d, ToClaude!text_done(ToClaude!close_thinking_block(r)))
      BY <2>1, TextDone
    <2>3. View(d, r).kind \in Kinds \cup {"none"}
      BY FeedsHas DEF ViewType
    <2> QED BY <2>1, <2>2, <2>3, ThinkingDone, TextDone, ToolDone DEF Kinds
  <1>2. ToClaude!emit_tool_call(r, tc)
          = IF tc.args THEN ToClaude!emit(opened, ToClaude!event("content_block_delta", "tool_use", opened.ctx.tool_index))
            ELSE opened
      BY Zenon DEF ToClaude!emit_tool_call
  <1> HIDE DEF p
  <1>3. /\ Feeds(d, named) /\ View(d, named).kind = "tool_use"
             /\ View(d, named).said = View(d, r).said
        /\ View(d, named).calls = (IF tc.id THEN View(d, r).calls + 1 ELSE View(d, r).calls)
      BY <1>1, OpenTool, AfterStart
  <1> HIDE DEF named
  <1>4. named.ctx.tool_block_started
      BY <1>3, FeedsHas DEF Linked
  <1>5. opened = named
      BY <1>4
  <1>6. CASE ~tc.args
      BY <1>2, <1>3, <1>5, <1>6
  <1>7. CASE tc.args
    <2>1. ToClaude!emit_tool_call(r, tc)
            = ToClaude!emit(named, ToClaude!event("content_block_delta", "tool_use", named.ctx.tool_index))
      BY <1>2, <1>5, <1>7
    <2> QED BY <1>3, <1>7, <2>1, Call, AfterDelta
  <1> QED BY <1>6, <1>7

\* What a result that follows its stream has: its types, its view and the link
\* between them.
LEMMA TracksHas ==
    ASSUME NEW d, NEW r, Tracks(d, r)
    PROVE  /\ r \in ToClaudeResult /\ r.ctx \in ChatCtx /\ r = [ctx |-> r.ctx, out |-> r.out]
           /\ CValid(d \o r.out) /\ Linked(r.ctx, View(d, r))
           /\ View(d, r) \in ViewType /\ (View(d, r).kind # "none" => View(d, r).blocks > 0)
           /\ r.ctx.content_index \in Nat /\ r.ctx.content_index + 1 \in Nat
           /\ r.ctx.thinking_index \in Nat /\ r.ctx.thinking_index + 1 \in Nat
                /\ r.ctx.tool_index \in Nat
  <1>1. /\ r \in ToClaudeResult /\ CValid(d \o r.out) /\ Linked(r.ctx, View(d, r))
      BY DEF Tracks, View
  <1>2. r.ctx \in ChatCtx /\ r = [ctx |-> r.ctx, out |-> r.out]
      BY <1>1 DEF ToClaudeResult
  <1>3. View(d, r) \in ViewType /\ (View(d, r).kind # "none" => View(d, r).blocks > 0)
      BY <1>1, ViewOfValid DEF View
  <1> QED BY <1>1, <1>2, <1>3 DEF ChatCtx

\* emit_message_start on a stream that has not started.
LEMMA Start ==
    ASSUME NEW d \in Seq(ClaudeEvent), NEW r, Tracks(d, r), ~r.ctx.message_start_sent,
           ~r.ctx.finish_reason_sent, View(d, r).kind = "none", ~View(d, r).stopped,
           r.ctx.content_index = View(d, r).blocks
    PROVE  /\ Feeds(d, ToClaude!emit_message_start(r))
           /\ View(d, ToClaude!emit_message_start(r))
                = VAfter(View(d, r), ClaudeEv("message_start", "none", 0))
  <1> DEFINE v == View(d, r)
             e == ClaudeEv("message_start", "none", 0)
             b == [r.ctx EXCEPT !.message_start_sent = TRUE]
             m == ToClaude!emit(r, e)
             s == ToClaude!emit_message_start(r)
  <1>1. /\ r \in ToClaudeResult /\ r.ctx \in ChatCtx /\ r = [ctx |-> r.ctx, out |-> r.out]
        /\ CValid(d \o r.out) /\ Linked(r.ctx, v)
        /\ v \in ViewType /\ (v.kind # "none" => v.blocks > 0)
        /\ r.ctx.content_index \in Nat /\ r.ctx.content_index + 1 \in Nat
        /\ r.ctx.thinking_index \in Nat /\ r.ctx.thinking_index + 1 \in Nat
             /\ r.ctx.tool_index \in Nat
      BY TracksHas
  <1>2. VMay(v, e) /\ b \in ChatCtx /\ Linked(b, VAfter(v, e)) /\ Ready(b, VAfter(v, e))
    <2> HIDE DEF v
    <2> QED BY <1>1, MayStart DEF v
  <1>3. /\ m \in ToClaudeResult /\ m.ctx = r.ctx /\ m.out = Append(r.out, e)
        /\ CValid(d \o Append(r.out, e)) /\ CView(d \o Append(r.out, e)) = VAfter(v, e)
    <2> HIDE DEF b
    <2> QED BY <1>1, <1>2, Emit DEF View
  <1>4. s \in ToClaudeResult /\ s.ctx = b /\ s.out = m.out
    <2>1. e = ToClaude!event("message_start", "none", 0)
      BY DEF ClaudeEv, ToClaude!event
    <2>2. s = [m EXCEPT !.ctx.message_start_sent = TRUE]
      <3> HIDE DEF e, v
      <3> QED BY <2>1 DEF ToClaude!emit_message_start
    <2> HIDE DEF e, v, m, s
    <2> QED BY <1>1, <1>3, <2>2, NestStart
  <1> HIDE DEF m, s, b, v, e
  <1> QED BY <1>2, <1>3, <1>4 DEF Feeds, Tracks, View, v, e, s

\* close_text_block on an open text block.
LEMMA EndText ==
    ASSUME NEW d \in Seq(ClaudeEvent), NEW r, Tracks(d, r), r.ctx.content_block_started
    PROVE  /\ Tracks(d, ToClaude!close_text_block(r))
           /\ View(d, ToClaude!close_text_block(r))
                = VAfter(View(d, r),
                         ClaudeEv("content_block_stop", "none", r.ctx.content_index))
  <1> DEFINE v == View(d, r)
             e == ClaudeEv("content_block_stop", "none", r.ctx.content_index)
             b == [r.ctx EXCEPT !.content_block_started = FALSE]
             m == ToClaude!emit(r, e)
             s == ToClaude!close_text_block(r)
  <1>1. /\ r \in ToClaudeResult /\ r.ctx \in ChatCtx /\ r = [ctx |-> r.ctx, out |-> r.out]
        /\ CValid(d \o r.out) /\ Linked(r.ctx, v)
        /\ v \in ViewType /\ (v.kind # "none" => v.blocks > 0)
        /\ r.ctx.content_index \in Nat /\ r.ctx.content_index + 1 \in Nat
        /\ r.ctx.thinking_index \in Nat /\ r.ctx.thinking_index + 1 \in Nat
             /\ r.ctx.tool_index \in Nat
      BY TracksHas
  <1>2. VMay(v, e) /\ b \in ChatCtx /\ Linked(b, VAfter(v, e))
    <2> HIDE DEF v
    <2> QED BY <1>1, MayEndText DEF v
  <1>3. /\ m \in ToClaudeResult /\ m.ctx = r.ctx /\ m.out = Append(r.out, e)
        /\ CValid(d \o Append(r.out, e)) /\ CView(d \o Append(r.out, e)) = VAfter(v, e)
    <2> HIDE DEF b
    <2> QED BY <1>1, <1>2, Emit DEF View
  <1>4. s \in ToClaudeResult /\ s.ctx = b /\ s.out = m.out
    <2>1. e = ToClaude!event("content_block_stop", "none", r.ctx.content_index)
      BY DEF ClaudeEv, ToClaude!event
    <2>2. s = [m EXCEPT !.ctx.content_block_started = FALSE]
      <3> HIDE DEF e, v
      <3> QED BY <2>1 DEF ToClaude!close_text_block
    <2> HIDE DEF e, v, m, s
    <2> QED BY <1>1, <1>3, <2>2, NestCloseText
  <1> HIDE DEF m, s, b, v, e
  <1> QED BY <1>2, <1>3, <1>4 DEF Tracks, View, v, e, s

\* close_tool_block on an open tool block.
LEMMA EndTool ==
    ASSUME NEW d \in Seq(ClaudeEvent), NEW r, Tracks(d, r), r.ctx.tool_block_started
    PROVE  /\ Tracks(d, ToClaude!close_tool_block(r))
           /\ View(d, ToClaude!close_tool_block(r))
                = VAfter(View(d, r), ClaudeEv("content_block_stop", "none", r.ctx.tool_index))
  <1> DEFINE v == View(d, r)
             e == ClaudeEv("content_block_stop", "none", r.ctx.tool_index)
             b == [r.ctx EXCEPT !.tool_block_started = FALSE]
             m == ToClaude!emit(r, e)
             s == ToClaude!close_tool_block(r)
  <1>1. /\ r \in ToClaudeResult /\ r.ctx \in ChatCtx /\ r = [ctx |-> r.ctx, out |-> r.out]
        /\ CValid(d \o r.out) /\ Linked(r.ctx, v)
        /\ v \in ViewType /\ (v.kind # "none" => v.blocks > 0)
        /\ r.ctx.content_index \in Nat /\ r.ctx.content_index + 1 \in Nat
        /\ r.ctx.thinking_index \in Nat /\ r.ctx.thinking_index + 1 \in Nat
             /\ r.ctx.tool_index \in Nat
      BY TracksHas
  <1>2. VMay(v, e) /\ b \in ChatCtx /\ Linked(b, VAfter(v, e))
    <2> HIDE DEF v
    <2> QED BY <1>1, MayEndTool DEF v
  <1>3. /\ m \in ToClaudeResult /\ m.ctx = r.ctx /\ m.out = Append(r.out, e)
        /\ CValid(d \o Append(r.out, e)) /\ CView(d \o Append(r.out, e)) = VAfter(v, e)
    <2> HIDE DEF b
    <2> QED BY <1>1, <1>2, Emit DEF View
  <1>4. s \in ToClaudeResult /\ s.ctx = b /\ s.out = m.out
    <2>1. e = ToClaude!event("content_block_stop", "none", r.ctx.tool_index)
      BY DEF ClaudeEv, ToClaude!event
    <2>2. s = [m EXCEPT !.ctx.tool_block_started = FALSE]
      <3> HIDE DEF e, v
      <3> QED BY <2>1 DEF ToClaude!close_tool_block
    <2> HIDE DEF e, v, m, s
    <2> QED BY <1>1, <1>3, <2>2, NestCloseTool
  <1> HIDE DEF m, s, b, v, e
  <1> QED BY <1>2, <1>3, <1>4 DEF Tracks, View, v, e, s

\* close_thinking_block on an open thinking block.
LEMMA EndThinking ==
    ASSUME NEW d \in Seq(ClaudeEvent), NEW r, Tracks(d, r), r.ctx.thinking_block_started
    PROVE  /\ Tracks(d, ToClaude!close_thinking_block(r))
           /\ View(d, ToClaude!close_thinking_block(r))
                = VAfter(View(d, r),
                         ClaudeEv("content_block_stop", "none", r.ctx.thinking_index))
  <1> DEFINE v == View(d, r)
             e == ClaudeEv("content_block_stop", "none", r.ctx.thinking_index)
             b == [r.ctx EXCEPT !.thinking_block_started = FALSE,
                   !.content_index = r.ctx.thinking_index + 1]
             m == ToClaude!emit(r, e)
             s == ToClaude!close_thinking_block(r)
  <1>1. /\ r \in ToClaudeResult /\ r.ctx \in ChatCtx /\ r = [ctx |-> r.ctx, out |-> r.out]
        /\ CValid(d \o r.out) /\ Linked(r.ctx, v)
        /\ v \in ViewType /\ (v.kind # "none" => v.blocks > 0)
        /\ r.ctx.content_index \in Nat /\ r.ctx.content_index + 1 \in Nat
        /\ r.ctx.thinking_index \in Nat /\ r.ctx.thinking_index + 1 \in Nat
             /\ r.ctx.tool_index \in Nat
      BY TracksHas
  <1>2. VMay(v, e) /\ b \in ChatCtx /\ Linked(b, VAfter(v, e))
    <2> HIDE DEF v
    <2> QED BY <1>1, MayEndThinking, Zenon DEF v
  <1>3. /\ m \in ToClaudeResult /\ m.ctx = r.ctx /\ m.out = Append(r.out, e)
        /\ CValid(d \o Append(r.out, e)) /\ CView(d \o Append(r.out, e)) = VAfter(v, e)
    <2> HIDE DEF b
    <2> QED BY <1>1, <1>2, Emit DEF View
  <1>4. s \in ToClaudeResult /\ s.ctx = b /\ s.out = m.out
    <2>1. e = ToClaude!event("content_block_stop", "none", r.ctx.thinking_index)
      BY DEF ClaudeEv, ToClaude!event
    <2>2. s = [m EXCEPT !.ctx.thinking_block_started = FALSE,
               !.ctx.content_index = r.ctx.thinking_index + 1]
      <3> HIDE DEF e, v
      <3> QED BY <2>1 DEF ToClaude!close_thinking_block
    <2> HIDE DEF e, v, m, s
    <2> DEFINE x == r.ctx.thinking_index + 1
    <2>3. x \in Nat /\ s = [m EXCEPT !.ctx.thinking_block_started = FALSE, !.ctx.content_index = x]
      BY <1>1, <2>2
    <2> HIDE DEF x
    <2>4. s \in ToClaudeResult /\ s.out = m.out
            /\ s.ctx = [m.ctx EXCEPT !.thinking_block_started = FALSE, !.content_index = x]
      BY <1>3, <2>3, NestCloseThinking, Zenon
    <2> QED BY <1>3, <2>4 DEF x
  <1> HIDE DEF m, s, b, v, e
  <1> QED BY <1>2, <1>3, <1>4 DEF Tracks, View, v, e, s

\* stop_reason on a running stream with no block open.
LEMMA GiveReason ==
    ASSUME NEW d \in Seq(ClaudeEvent), NEW r, Tracks(d, r), View(d, r).started,
           ~View(d, r).stopped, View(d, r).kind = "none"
    PROVE  /\ Tracks(d, ToClaude!stop_reason(r))
           /\ View(d, ToClaude!stop_reason(r))
                = VAfter(View(d, r), ClaudeEv("message_delta", "stop", 0))
  <1> DEFINE v == View(d, r)
             e == ClaudeEv("message_delta", "stop", 0)
             b == [r.ctx EXCEPT !.finish_reason_sent = TRUE]
             m == ToClaude!emit(r, e)
             s == ToClaude!stop_reason(r)
  <1>1. /\ r \in ToClaudeResult /\ r.ctx \in ChatCtx /\ r = [ctx |-> r.ctx, out |-> r.out]
        /\ CValid(d \o r.out) /\ Linked(r.ctx, v)
        /\ v \in ViewType /\ (v.kind # "none" => v.blocks > 0)
        /\ r.ctx.content_index \in Nat /\ r.ctx.content_index + 1 \in Nat
        /\ r.ctx.thinking_index \in Nat /\ r.ctx.thinking_index + 1 \in Nat
             /\ r.ctx.tool_index \in Nat
      BY TracksHas
  <1>2. VMay(v, e) /\ b \in ChatCtx /\ Linked(b, VAfter(v, e))
    <2> HIDE DEF v
    <2> QED BY <1>1, MayGiveReason DEF v
  <1>3. /\ m \in ToClaudeResult /\ m.ctx = r.ctx /\ m.out = Append(r.out, e)
        /\ CValid(d \o Append(r.out, e)) /\ CView(d \o Append(r.out, e)) = VAfter(v, e)
    <2> HIDE DEF b
    <2> QED BY <1>1, <1>2, Emit DEF View
  <1>4. s \in ToClaudeResult /\ s.ctx = b /\ s.out = m.out
    <2>1. e = ToClaude!event("message_delta", "stop", 0)
      BY DEF ClaudeEv, ToClaude!event
    <2>2. s = [m EXCEPT !.ctx.finish_reason_sent = TRUE]
      <3> HIDE DEF e, v
      <3> QED BY <2>1 DEF ToClaude!stop_reason
    <2> HIDE DEF e, v, m, s
    <2> QED BY <1>1, <1>3, <2>2, NestReason
  <1> HIDE DEF m, s, b, v, e
  <1> QED BY <1>2, <1>3, <1>4 DEF Tracks, View, v, e, s

\* emit_usage on a running stream.
LEMMA GiveUsage ==
    ASSUME NEW d \in Seq(ClaudeEvent), NEW r, Tracks(d, r), View(d, r).started,
           ~View(d, r).stopped
    PROVE  /\ Tracks(d, ToClaude!emit_usage(r))
           /\ View(d, ToClaude!emit_usage(r))
                = VAfter(View(d, r), ClaudeEv("message_delta", "usage", 0))
  <1> DEFINE v == View(d, r)
             e == ClaudeEv("message_delta", "usage", 0)
             b == r.ctx
             m == ToClaude!emit(r, e)
             s == ToClaude!emit_usage(r)
  <1>1. /\ r \in ToClaudeResult /\ r.ctx \in ChatCtx /\ r = [ctx |-> r.ctx, out |-> r.out]
        /\ CValid(d \o r.out) /\ Linked(r.ctx, v)
        /\ v \in ViewType /\ (v.kind # "none" => v.blocks > 0)
        /\ r.ctx.content_index \in Nat /\ r.ctx.content_index + 1 \in Nat
        /\ r.ctx.thinking_index \in Nat /\ r.ctx.thinking_index + 1 \in Nat
             /\ r.ctx.tool_index \in Nat
      BY TracksHas
  <1>2. VMay(v, e) /\ b \in ChatCtx /\ Linked(b, VAfter(v, e))
    <2> HIDE DEF v
    <2> QED BY <1>1, MayGiveUsage DEF v
  <1>3. /\ m \in ToClaudeResult /\ m.ctx = r.ctx /\ m.out = Append(r.out, e)
        /\ CValid(d \o Append(r.out, e)) /\ CView(d \o Append(r.out, e)) = VAfter(v, e)
    <2> HIDE DEF b
    <2> QED BY <1>1, <1>2, Emit DEF View
  <1>4. s \in ToClaudeResult /\ s.ctx = b /\ s.out = m.out
    <2>1. e = ToClaude!event("message_delta", "usage", 0)
      BY DEF ClaudeEv, ToClaude!event
    <2>2. s = m
      <3> HIDE DEF e, v
      <3> QED BY <2>1 DEF ToClaude!emit_usage
    <2> HIDE DEF e, v, m, s
    <2> QED BY <1>3, <2>2
  <1> HIDE DEF m, s, b, v, e
  <1> QED BY <1>2, <1>3, <1>4 DEF Tracks, View, v, e, s

\* message_stop with no block open.
LEMMA Stop ==
    ASSUME NEW d \in Seq(ClaudeEvent), NEW r, Tracks(d, r), View(d, r).started,
           View(d, r).kind = "none"
    PROVE  /\ Tracks(d, ToClaude!emit(r, ToClaude!event("message_stop", "none", 0)))
           /\ View(d, ToClaude!emit(r, ToClaude!event("message_stop", "none", 0)))
                = VAfter(View(d, r), ClaudeEv("message_stop", "none", 0))
  <1> DEFINE v == View(d, r)
             e == ClaudeEv("message_stop", "none", 0)
             b == r.ctx
             m == ToClaude!emit(r, e)
             s == ToClaude!emit(r, ToClaude!event("message_stop", "none", 0))
  <1>1. /\ r \in ToClaudeResult /\ r.ctx \in ChatCtx /\ r = [ctx |-> r.ctx, out |-> r.out]
        /\ CValid(d \o r.out) /\ Linked(r.ctx, v)
        /\ v \in ViewType /\ (v.kind # "none" => v.blocks > 0)
        /\ r.ctx.content_index \in Nat /\ r.ctx.content_index + 1 \in Nat
        /\ r.ctx.thinking_index \in Nat /\ r.ctx.thinking_index + 1 \in Nat
             /\ r.ctx.tool_index \in Nat
      BY TracksHas
  <1>2. VMay(v, e) /\ b \in ChatCtx /\ Linked(b, VAfter(v, e))
    <2> HIDE DEF v
    <2> QED BY <1>1, MayStop DEF v
  <1>3. /\ m \in ToClaudeResult /\ m.ctx = r.ctx /\ m.out = Append(r.out, e)
        /\ CValid(d \o Append(r.out, e)) /\ CView(d \o Append(r.out, e)) = VAfter(v, e)
    <2> HIDE DEF b
    <2> QED BY <1>1, <1>2, Emit, Zenon DEF View
  <1>4. s \in ToClaudeResult /\ s.ctx = b /\ s.out = m.out
    <2>1. e = ToClaude!event("message_stop", "none", 0)
      BY DEF ClaudeEv, ToClaude!event
    <2>2. s = m
      <3> HIDE DEF e, v
      <3> QED BY <2>1 DEF ToClaude!emit
    <2> HIDE DEF e, v, m, s
    <2> QED BY <1>3, <2>2
  <1> HIDE DEF m, s, b, v, e
  <1> QED BY <1>2, <1>3, <1>4 DEF Tracks, View, v, e, s

\* Everything but the open block stays as it is.
Same(v, w) ==
    /\ w.started = v.started /\ w.stopped = v.stopped /\ w.reason = v.reason
    /\ w.said = v.said /\ w.calls = v.calls

\* What a stop changes in the view of a stream.
LEMMA AfterEnd ==
    ASSUME NEW v \in ViewType, NEW x
    PROVE  LET w == VAfter(v, ClaudeEv("content_block_stop", "none", x)) IN Same(v, w)
             /\ w.kind = "none"
  BY DEF VAfter, ClaudeEv, Same, ViewType

\* close_all leaves no block open and says nothing.
LEMMA CloseAll ==
    ASSUME NEW d \in Seq(ClaudeEvent), NEW r, Tracks(d, r)
    PROVE  LET s == ToClaude!close_all(r)
           IN /\ Tracks(d, s) /\ Same(View(d, r), View(d, s)) /\ View(d, s).kind = "none"
              /\ s.ctx.message_start_sent = r.ctx.message_start_sent
              /\ s.ctx.finish_reason_sent = r.ctx.finish_reason_sent
  <1> DEFINE h == ToClaude!close_thinking_block(r)
             x == ToClaude!close_text_block(h)
             s == ToClaude!close_tool_block(x)
  <1>1. ASSUME NEW q, Tracks(d, q) PROVE
          /\ q.ctx.content_block_started <=> View(d, q).kind = "text"
          /\ q.ctx.thinking_block_started <=> View(d, q).kind = "thinking"
          /\ q.ctx.tool_block_started <=> View(d, q).kind = "tool_use"
          /\ q.ctx.message_start_sent = View(d, q).started
          /\ q.ctx.finish_reason_sent = View(d, q).reason
          /\ View(d, q).kind \in {"none", "text", "thinking", "tool_use"}
          /\ View(d, q) \in ViewType
    <2>1. View(d, q).kind \in {"none", "text", "thinking", "tool_use"}
            /\ View(d, q) \in ViewType
      BY <1>1, TracksHas DEF ViewType, Kinds
    <2> QED BY <1>1, <2>1, TracksHas DEF Linked
  <1>2. Tracks(d, h) /\ Same(View(d, r), View(d, h))
          /\ View(d, h).kind \in {"none", "text", "tool_use"}
    <2>1. CASE ~r.ctx.thinking_block_started
      <3>1. h = r
        BY <2>1 DEF ToClaude!close_thinking_block
      <3> QED BY <1>1, <2>1, <3>1 DEF Same
    <2>2. CASE r.ctx.thinking_block_started
      BY <1>1, <2>2, EndThinking, AfterEnd
    <2> QED BY <2>1, <2>2
  <1> HIDE DEF h
  <1>3. Tracks(d, x) /\ Same(View(d, h), View(d, x))
          /\ View(d, x).kind \in {"none", "tool_use"}
    <2>1. CASE ~h.ctx.content_block_started
      <3>1. x = h
        BY <2>1 DEF ToClaude!close_text_block
      <3> QED BY <1>1, <1>2, <2>1, <3>1 DEF Same
    <2>2. CASE h.ctx.content_block_started
      BY <1>1, <1>2, <2>2, EndText, AfterEnd
    <2> QED BY <2>1, <2>2
  <1> HIDE DEF x
  <1>4. Tracks(d, s) /\ Same(View(d, x), View(d, s)) /\ View(d, s).kind = "none"
    <2>1. CASE ~x.ctx.tool_block_started
      <3>1. s = x
        BY <2>1 DEF ToClaude!close_tool_block
      <3> QED BY <1>1, <1>3, <2>1, <3>1 DEF Same
    <2>2. CASE x.ctx.tool_block_started
      BY <1>1, <1>3, <2>2, EndTool, AfterEnd
    <2> QED BY <2>1, <2>2
  <1>5. ToClaude!close_all(r) = s
      BY DEF ToClaude!close_all, h, x
  <1> HIDE DEF s
  <1>6. Same(View(d, r), View(d, s))
      BY <1>2, <1>3, <1>4 DEF Same
  <1>7. s.ctx.message_start_sent = r.ctx.message_start_sent
          /\ s.ctx.finish_reason_sent = r.ctx.finish_reason_sent
      BY <1>1, <1>4, <1>6 DEF Same
  <1> QED BY <1>4, <1>5, <1>6, <1>7

\* What the stop reason changes in the view of a stream.
LEMMA AfterReason ==
    ASSUME NEW v \in ViewType
    PROVE  LET w == VAfter(v, ClaudeEv("message_delta", "stop", 0))
           IN /\ w.started = v.started /\ w.stopped = v.stopped /\ w.reason = TRUE
                   /\ w.kind = v.kind
              /\ w.said = v.said /\ w.calls = v.calls /\ w.blocks = v.blocks
  BY DEF VAfter, ClaudeEv, ViewType

\* The usage changes nothing in the view of a stream.
LEMMA AfterUsage ==
    ASSUME NEW v \in ViewType
    PROVE  LET w == VAfter(v, ClaudeEv("message_delta", "usage", 0))
           IN Same(v, w) /\ w.kind = v.kind /\ w.blocks = v.blocks
  BY DEF VAfter, ClaudeEv, Same, ViewType

\* What message_stop changes in the view of a stream.
LEMMA AfterMessageStop ==
    ASSUME NEW v \in ViewType
    PROVE  LET w == VAfter(v, ClaudeEv("message_stop", "none", 0))
           IN /\ w.started = v.started /\ w.stopped = TRUE /\ w.reason = v.reason
                   /\ w.kind = v.kind
              /\ w.said = v.said /\ w.calls = v.calls
  BY DEF VAfter, ClaudeEv, ViewType

\* What message_start changes in the view of a stream.
LEMMA AfterMessageStart ==
    ASSUME NEW v \in ViewType
    PROVE  LET w == VAfter(v, ClaudeEv("message_start", "none", 0))
           IN /\ w.started = TRUE /\ w.stopped = v.stopped /\ w.reason = v.reason
                   /\ w.kind = v.kind
              /\ w.said = v.said /\ w.calls = v.calls
  BY DEF VAfter, ClaudeEv, ViewType

\* finalize_openai_stream_to_claude closes what is open and stops the message.
LEMMA Finalized ==
    ASSUME NEW d \in Seq(ClaudeEvent), NEW c, Tracks(d, [ctx |-> c, out |-> << >>]),
           LET v == View(d, [ctx |-> c, out |-> << >>]) IN v.started /\ v.stopped => v.reason
    PROVE  LET r == [ctx |-> c, out |-> << >>]
               s == ToClaude!finalize_openai_stream_to_claude(c)
               w == View(d, s)
           IN /\ Tracks(d, s) /\ w.kind = "none"
              /\ w.started = View(d, r).started
              /\ w.started => w.stopped /\ w.reason
              /\ w.said = View(d, r).said /\ w.calls = View(d, r).calls
  <1> DEFINE r == [ctx |-> c, out |-> << >>]
             closed == ToClaude!close_all(r)
             reason == IF c.message_start_sent /\ ~c.finish_reason_sent
                 THEN ToClaude!stop_reason(closed) ELSE closed
             s == ToClaude!finalize_openai_stream_to_claude(c)
  <1>0. r.ctx = c
      OBVIOUS
  <1>1. s = IF c.message_start_sent
          THEN ToClaude!emit(reason, ToClaude!event("message_stop", "none", 0)) ELSE reason
      BY Zenon DEF ToClaude!finalize_openai_stream_to_claude
  <1>2. /\ Tracks(d, closed) /\ Same(View(d, r), View(d, closed))
             /\ View(d, closed).kind = "none"
      BY CloseAll
  <1>3. /\ c.message_start_sent = View(d, r).started
             /\ c.finish_reason_sent = View(d, r).reason
        /\ View(d, r) \in ViewType /\ View(d, closed) \in ViewType
      BY <1>0, <1>2, TracksHas DEF Linked
  <1>3a. View(d, r).started /\ View(d, r).stopped => View(d, r).reason
      OBVIOUS
  <1> HIDE DEF r, closed
  <1>4. /\ Tracks(d, reason) /\ View(d, reason).kind = "none"
             /\ View(d, reason).started = View(d, r).started
        /\ View(d, reason).started => View(d, reason).reason
        /\ View(d, reason).said = View(d, r).said /\ View(d, reason).calls = View(d, r).calls
        /\ View(d, reason) \in ViewType
    <2>1. CASE c.message_start_sent /\ ~c.finish_reason_sent
      <3>1. View(d, closed).started /\ ~View(d, closed).stopped
        BY <1>2, <1>3, <1>3a, <2>1 DEF Same, ViewType
      <3>2. Tracks(d, ToClaude!stop_reason(closed))
            /\ View(d, ToClaude!stop_reason(closed))
                 = VAfter(View(d, closed), ClaudeEv("message_delta", "stop", 0))
        BY <1>2, <3>1, GiveReason
      <3>3. reason = ToClaude!stop_reason(closed)
        BY <2>1
      <3>4. View(d, reason) \in ViewType
        BY <3>2, <3>3, TracksHas
      <3> HIDE DEF reason
      <3> QED BY <1>2, <1>3, <3>2, <3>3, <3>4, AfterReason, Zenon DEF Same
    <2>2. CASE ~(c.message_start_sent /\ ~c.finish_reason_sent)
      <3>1. reason = closed
        BY <2>2
      <3>2. View(d, r).started => View(d, r).reason
        BY <1>3, <2>2
      <3>3. View(d, closed).started => View(d, closed).reason
        BY <1>2, <3>2 DEF Same
      <3> HIDE DEF reason
      <3> QED BY <1>2, <1>3, <3>1, <3>3, Zenon DEF Same
    <2> QED BY <2>1, <2>2
  <1> HIDE DEF reason
  <1>5. CASE c.message_start_sent
    <2>1. View(d, reason).started
      BY <1>3, <1>4, <1>5
    <2>2. Tracks(d, s) /\ View(d, s)
            = VAfter(View(d, reason), ClaudeEv("message_stop", "none", 0))
      BY <1>1, <1>4, <1>5, <2>1, Stop
    <2> HIDE DEF s
    <2>3. /\ Tracks(d, s) /\ View(d, s).kind = "none"
               /\ View(d, s).started = View(d, r).started
          /\ View(d, s).stopped /\ View(d, s).reason
          /\ View(d, s).said = View(d, r).said /\ View(d, s).calls = View(d, r).calls
      BY <1>4, <2>1, <2>2, AfterMessageStop
    <2> QED BY <2>3 DEF r, s
  <1>6. CASE ~c.message_start_sent
    <2>1. s = reason
      BY <1>1, <1>6
    <2> HIDE DEF s
    <2>2. ~View(d, s).started
      BY <1>3, <1>4, <1>6, <2>1
    <2> QED BY <1>4, <2>1, <2>2 DEF r, s
  <1> QED BY <1>5, <1>6

-----------------------------------------------------------------------------
(* Streams of the Responses protocol and their views.                      *)

RespTypes == {"created", "item_added", "part_added", "text_delta", "args_delta",
              "reasoning_delta",
              "text_done", "part_done", "args_done", "reasoning_done", "item_done",
              "completed", "failed", "done"}

ItemKinds == {"message", "function_call", "reasoning"}

RespKinds == ItemKinds \cup {"none", "text", "args"}

RespEvent == [type : RespTypes, kind : RespKinds, index : Nat, n : Nat]

RespEv(type, kind, index, n) == [type |-> type, kind |-> kind, index |-> index, n |-> n]

RHas(es, types) == \E i \in 1..Len(es) : es[i].type \in types

RAdded(es) == {i \in 1..Len(es) : es[i].type = "item_added"}

RDoneAt(es, i) == \E j \in i..Len(es) : es[j].type = "item_done" /\ es[j].index = es[i].index

ROpen(es) == {i \in RAdded(es) : ~RDoneAt(es, i)}

RSince(es, i, type) == {j \in i..Len(es) : es[j].type = type}

RespMay(indexes, es, e) ==
    \/ es = << >> /\ e = RespEv("created", "none", 0, 0)
    \/ /\ RHas(es, {"created"}) /\ ~RHas(es, {"completed", "failed"}) /\ ROpen(es) = {}
       /\ \E k \in ItemKinds, x \in indexes :
             /\ \A i \in RAdded(es) : es[i].index < x
             /\ e = RespEv("item_added", k, x, 0)
    \/ \E i \in ROpen(es) :
          /\ es[i].kind = "message" /\ RSince(es, i, "part_added") = {}
          /\ e = RespEv("part_added", "text", es[i].index, 0)
    \/ \E i \in ROpen(es) :
          /\ RSince(es, i, "part_added") # {} /\ RSince(es, i, "text_done") = {}
          /\ e = RespEv("text_delta", "text", es[i].index, 0)
    \/ \E i \in ROpen(es) :
          /\ es[i].kind = "function_call" /\ RSince(es, i, "args_done") = {}
          /\ e = RespEv("args_delta", "args", es[i].index, 0)
    \/ \E i \in ROpen(es) :
          /\ es[i].kind = "reasoning" /\ RSince(es, i, "reasoning_done") = {}
          /\ e = RespEv("reasoning_delta", "reasoning", es[i].index, 0)
    \/ \E i \in ROpen(es) :
          \/ /\ RSince(es, i, "part_added") # {} /\ RSince(es, i, "text_done") = {}
             /\ e = RespEv("text_done", "text", es[i].index, 0)
          \/ /\ RSince(es, i, "text_done") # {} /\ RSince(es, i, "part_done") = {}
             /\ e = RespEv("part_done", "text", es[i].index, 0)
          \/ /\ es[i].kind = "function_call" /\ RSince(es, i, "args_done") = {}
             /\ e = RespEv("args_done", "args", es[i].index,
                           Cardinality(RSince(es, i, "args_delta")))
          \/ /\ es[i].kind = "reasoning" /\ RSince(es, i, "reasoning_done") = {}
             /\ e = RespEv("reasoning_done", "reasoning", es[i].index, 0)
    \/ \E i \in ROpen(es) :
          /\ \/ RSince(es, i, "text_done") # {} \/ RSince(es, i, "args_done") # {}
             \/ RSince(es, i, "reasoning_done") # {}
          /\ e = RespEv("item_done", es[i].kind, es[i].index, 0)
    \/ /\ RHas(es, {"created"}) /\ ~RHas(es, {"completed", "failed"}) /\ ROpen(es) = {}
       /\ \E t \in {"completed", "failed"} : e = RespEv(t, "none", 0, 0)
    \/ /\ RHas(es, {"completed", "failed"}) /\ ~RHas(es, {"done"})
       /\ e = RespEv("done", "none", 0, 0)

\* The index after the last item's.
RIsNext(es, n) == /\ \A i \in RAdded(es) : es[i].index < n
                  /\ n = 0 \/ \E i \in RAdded(es) : es[i].index + 1 = n

RNext(es) == CHOOSE n \in Nat : RIsNext(es, n)

RItem(es) == CHOOSE i \in ROpen(es) : TRUE

RSeen(es, type) == ROpen(es) # {} /\ RSince(es, RItem(es), type) # {}

RCalls(es) == {i \in RAdded(es) : es[i].kind = "function_call"}

RView(es) ==
    [created |-> RHas(es, {"created"}), ended |-> RHas(es, {"completed", "failed"}),
     finished |-> RHas(es, {"done"}), next |-> RNext(es), calls |-> Cardinality(RCalls(es)),
     kind |-> IF ROpen(es) = {} THEN "none" ELSE es[RItem(es)].kind,
     part |-> RSeen(es, "part_added"), texted |-> RSeen(es, "text_done"),
     parted |-> RSeen(es, "part_done"), called |-> RSeen(es, "args_done"),
     thinking |-> RSeen(es, "reasoning_delta"), thought |-> RSeen(es, "reasoning_done"),
     deltas |-> IF ROpen(es) = {} THEN 0
         ELSE Cardinality(RSince(es, RItem(es), "args_delta"))]

RShape(es) ==
    /\ es \in Seq(RespEvent)
    /\ es # << >> => RHas(es, {"created"})
    /\ RNext(es) \in Nat /\ RIsNext(es, RNext(es))
    /\ \A i \in ROpen(es) : es[i].index + 1 = RNext(es)
    /\ \A i \in ROpen(es), j \in RAdded(es) : j <= i
    /\ \A i \in RAdded(es) : es[i].kind \in ItemKinds
    /\ RHas(es, {"completed", "failed"}) => ROpen(es) = {}

\* An event that the view admits.
VRMay(indexes, v, e) ==
    \/ ~v.created /\ e = RespEv("created", "none", 0, 0)
    \/ /\ v.created /\ ~v.ended /\ v.kind = "none"
       /\ \E k \in ItemKinds, x \in indexes : v.next <= x /\ e = RespEv("item_added", k, x, 0)
    \/ v.kind = "message" /\ ~v.part /\ e = RespEv("part_added", "text", v.next - 1, 0)
    \/ v.part /\ ~v.texted /\ e = RespEv("text_delta", "text", v.next - 1, 0)
    \/ v.kind = "function_call" /\ ~v.called
         /\ e = RespEv("args_delta", "args", v.next - 1, 0)
    \/ v.kind = "reasoning" /\ ~v.thought
         /\ e = RespEv("reasoning_delta", "reasoning", v.next - 1, 0)
    \/ v.part /\ ~v.texted /\ e = RespEv("text_done", "text", v.next - 1, 0)
    \/ v.texted /\ ~v.parted /\ e = RespEv("part_done", "text", v.next - 1, 0)
    \/ v.kind = "function_call" /\ ~v.called
         /\ e = RespEv("args_done", "args", v.next - 1, v.deltas)
    \/ v.kind = "reasoning" /\ ~v.thought
         /\ e = RespEv("reasoning_done", "reasoning", v.next - 1, 0)
    \/ (v.texted \/ v.called \/ v.thought) /\ e = RespEv("item_done", v.kind, v.next - 1, 0)
    \/ /\ v.created /\ ~v.ended /\ v.kind = "none"
       /\ \E t \in {"completed", "failed"} : e = RespEv(t, "none", 0, 0)
    \/ v.ended /\ ~v.finished /\ e = RespEv("done", "none", 0, 0)

\* The view after it.
VRAfter(v, e) ==
    LET closes == e.type = "item_done"
        opens == e.type = "item_added"
        seen(b, t) == ~closes /\ ~opens /\ (b \/ (v.kind # "none" /\ e.type = t))
    IN [created |-> v.created \/ e.type = "created",
        ended |-> v.ended \/ e.type \in {"completed", "failed"},
        finished |-> v.finished \/ e.type = "done",
        next |-> IF opens THEN e.index + 1 ELSE v.next,
        calls |-> IF opens /\ e.kind = "function_call" THEN v.calls + 1 ELSE v.calls,
        kind |-> IF opens THEN e.kind ELSE IF closes THEN "none" ELSE v.kind,
        part |-> seen(v.part, "part_added"), texted |-> seen(v.texted, "text_done"),
        parted |-> seen(v.parted, "part_done"), called |-> seen(v.called, "args_done"),
        thinking |-> seen(v.thinking, "reasoning_delta"),
            thought |-> seen(v.thought, "reasoning_done"),
        deltas |-> IF opens \/ closes THEN 0
                   ELSE IF e.type = "args_delta" /\ v.kind # "none" THEN v.deltas + 1
                       ELSE v.deltas]

\* What one more Responses event changes in a stream.
LEMMA RAppend ==
    ASSUME NEW es \in Seq(RespEvent), NEW e \in RespEvent
    PROVE  LET fs == Append(es, e) n == Len(es) + 1 IN
           /\ fs \in Seq(RespEvent) /\ Len(fs) = n /\ fs[n] = e /\ fs # << >>
           /\ \A i \in 1..Len(es) : fs[i] = es[i]
           /\ \A T : RHas(fs, T) <=> RHas(es, T) \/ e.type \in T
           /\ RAdded(fs) = IF e.type = "item_added" THEN RAdded(es) \cup {n} ELSE RAdded(es)
           /\ ROpen(fs) = IF e.type = "item_added" THEN ROpen(es) \cup {n}
                          ELSE {i \in ROpen(es) : ~(e.type = "item_done"
                              /\ e.index = es[i].index)}
           /\ RCalls(fs) = IF e.type = "item_added" /\ e.kind = "function_call"
                             THEN RCalls(es) \cup {n} ELSE RCalls(es)
  <1> DEFINE fs == Append(es, e)
             n == Len(es) + 1
  <1>1. fs \in Seq(RespEvent) /\ Len(fs) = n /\ fs[n] = e /\ fs # << >> /\ Len(es) \in Nat
      OBVIOUS
  <1>2. \A i \in 1..Len(es) : fs[i] = es[i]
      OBVIOUS
  <1>3. 1..n = 1..Len(es) \cup {n} /\ n \notin 1..Len(es)
      BY <1>1
  <1> HIDE DEF fs
  <1>4. \A T : RHas(fs, T) <=> RHas(es, T) \/ e.type \in T
      BY <1>1, <1>2, <1>3 DEF RHas
  <1>6. RAdded(fs) = IF e.type = "item_added" THEN RAdded(es) \cup {n} ELSE RAdded(es)
      BY <1>1, <1>2, <1>3 DEF RAdded
  <1>7. RCalls(fs) = IF e.type = "item_added" /\ e.kind = "function_call"
                             THEN RCalls(es) \cup {n} ELSE RCalls(es)
      BY <1>1, <1>2, <1>3 DEF RCalls, RAdded
  <1>8. ASSUME NEW i \in 1..Len(es)
        PROVE RDoneAt(fs, i)
                 <=> RDoneAt(es, i) \/ (e.type = "item_done" /\ e.index = es[i].index)
    <2>1. i..n = i..Len(es) \cup {n} /\ i..Len(es) \subseteq 1..Len(es)
      BY <1>1
    <2> QED BY <1>1, <1>2, <2>1 DEF RDoneAt
  <1>9. e.type = "item_added" => ~RDoneAt(fs, n)
    <2>1. n..n = {n}
      BY <1>1
    <2> QED BY <1>1, <2>1 DEF RDoneAt
  <1>10. ROpen(fs) = IF e.type = "item_added" THEN ROpen(es) \cup {n}
                          ELSE {i \in ROpen(es) : ~(e.type = "item_done"
                              /\ e.index = es[i].index)}
    <2>1. RAdded(es) \subseteq 1..Len(es)
      BY DEF RAdded
    <2>2. \A i \in RAdded(es) : RDoneAt(fs, i)
            <=> RDoneAt(es, i) \/ (e.type = "item_done" /\ e.index = es[i].index)
      BY <1>8, <2>1
    <2> HIDE DEF n
    <2> QED BY <1>6, <2>2, <1>9 DEF ROpen
  <1> QED BY <1>1, <1>2, <1>4, <1>6, <1>7, <1>10 DEF fs

\* What one more Responses event adds to what followed an item.
LEMMA RSinceAppend ==
    ASSUME NEW es \in Seq(RespEvent), NEW e \in RespEvent, NEW type
    PROVE  LET fs == Append(es, e) n == Len(es) + 1 IN
           /\ \A i \in 1..Len(es) : /\ RSince(fs, i, type) = IF e.type = type
                                         THEN RSince(es, i, type) \cup {n}
                                                             ELSE RSince(es, i, type)
                                    /\ RSince(es, i, type) \in SUBSET (1..Len(es))
           /\ RSince(fs, n, type) = IF e.type = type THEN {n} ELSE {}
  <1> DEFINE fs == Append(es, e)
             n == Len(es) + 1
  <1>1. Len(fs) = n /\ fs[n] = e /\ Len(es) \in Nat /\ \A i \in 1..Len(es) : fs[i] = es[i]
      OBVIOUS
  <1> HIDE DEF fs
  <1>2. ASSUME NEW i \in 1..Len(es)
        PROVE /\ RSince(fs, i, type) = IF e.type = type THEN RSince(es, i, type) \cup {n}
                   ELSE RSince(es, i, type)
              /\ RSince(es, i, type) \in SUBSET (1..Len(es))
    <2>1. i..n = i..Len(es) \cup {n} /\ i..Len(es) \subseteq 1..Len(es)
      BY <1>1
    <2> QED BY <1>1, <2>1 DEF RSince
  <1>3. RSince(fs, n, type) = IF e.type = type THEN {n} ELSE {}
    <2>1. n..n = {n}
      BY <1>1
    <2> QED BY <1>1, <2>1 DEF RSince
  <1> QED BY <1>2, <1>3 DEF fs

\* The index after the last item's is unique.
LEMMA RNextIs ==
    ASSUME NEW es, NEW n \in Nat, \A i \in RAdded(es) : es[i].index \in Nat, RIsNext(es, n)
    PROVE  RNext(es) = n
  <1>1. ASSUME NEW m \in Nat, RIsNext(es, m) PROVE m = n
    <2>1. CASE m = 0 /\ n # 0
      BY <1>1, <2>1 DEF RIsNext
    <2>2. CASE n = 0 /\ m # 0
      BY <1>1, <2>2 DEF RIsNext
    <2>3. CASE m # 0 /\ n # 0
      <3>1. PICK i \in RAdded(es) : es[i].index + 1 = n
        BY <2>3 DEF RIsNext
      <3>2. PICK j \in RAdded(es) : es[j].index + 1 = m
        BY <1>1, <2>3 DEF RIsNext
      <3>3. es[i].index < m /\ es[j].index < n
        BY <1>1 DEF RIsNext
      <3> QED BY <3>1, <3>2, <3>3
    <2> QED BY <2>1, <2>2, <2>3
  <1> QED BY <1>1 DEF RNext

\* The view of a well-formed Responses stream says which item is open and
\* which index comes next.
LEMMA RViewOf ==
    ASSUME NEW es, RShape(es)
    PROVE  LET v == RView(es) IN
           /\ es \in Seq(RespEvent) /\ Len(es) \in Nat
           /\ v.created = RHas(es, {"created"}) /\ v.ended = RHas(es, {"completed", "failed"})
           /\ v.finished = RHas(es, {"done"})
           /\ v.created <=> es # << >>
           /\ v.next \in Nat /\ v.next = RNext(es)
           /\ v.calls \in Nat /\ v.calls = Cardinality(RCalls(es))
           /\ v.kind \in ItemKinds \cup {"none"}
           /\ v.kind = "none" <=> ROpen(es) = {}
           /\ ROpen(es) # {} => /\ ROpen(es) = {RItem(es)} /\ RItem(es) \in 1..Len(es)
                                /\ es[RItem(es)].kind = v.kind
                                /\ es[RItem(es)].index = v.next - 1 /\ v.next - 1 \in Nat
           /\ v.ended => v.kind = "none"
  <1> DEFINE v == RView(es)
  <1>1. es \in Seq(RespEvent) /\ Len(es) \in Nat
      BY DEF RShape
  <1>2. /\ v.created = RHas(es, {"created"}) /\ v.ended = RHas(es, {"completed", "failed"})
        /\ v.finished = RHas(es, {"done"}) /\ v.next = RNext(es)
             /\ v.calls = Cardinality(RCalls(es))
        /\ v.kind = IF ROpen(es) = {} THEN "none" ELSE es[RItem(es)].kind
      BY DEF RView
  <1> HIDE DEF v
  <1>3. RHas(es, {"created"}) <=> es # << >>
      BY DEF RShape, RHas
  <1>4. RCalls(es) \in SUBSET (1..Len(es)) /\ RAdded(es) \subseteq 1..Len(es)
          /\ ROpen(es) \subseteq RAdded(es)
      BY DEF RCalls, RAdded, ROpen
  <1>5. Cardinality(RCalls(es)) \in Nat
      BY <1>1, <1>4, CountStep
  <1>6. ASSUME ROpen(es) # {}
        PROVE  /\ ROpen(es) = {RItem(es)} /\ RItem(es) \in 1..Len(es)
               /\ es[RItem(es)].index + 1 = RNext(es) /\ es[RItem(es)].kind \in ItemKinds
               /\ es[RItem(es)].index \in Nat
    <2>1. RItem(es) \in ROpen(es)
      BY <1>6 DEF RItem
    <2>2. \A i, j \in ROpen(es) : i = j
      BY <1>4, <1>1 DEF RShape
    <2>3. RItem(es) \in 1..Len(es) /\ RItem(es) \in RAdded(es)
      BY <1>4, <2>1
    <2>4. es[RItem(es)] \in RespEvent
      BY <1>1, <2>3
    <2>5. es[RItem(es)].index \in Nat
      BY <2>4 DEF RespEvent
    <2>6. es[RItem(es)].index + 1 = RNext(es) /\ es[RItem(es)].kind \in ItemKinds
      BY <2>1, <2>3 DEF RShape
    <2> QED BY <2>1, <2>2, <2>3, <2>5, <2>6
  <1>7. RNext(es) \in Nat
      BY DEF RShape
  <1>8. "none" \notin ItemKinds
      BY DEF ItemKinds
  <1>9. v.kind = "none" <=> ROpen(es) = {}
      BY <1>2, <1>6, <1>8
  <1>10. v.ended => v.kind = "none"
      BY <1>2, <1>9 DEF RShape
  <1>11. v.kind \in ItemKinds \cup {"none"}
      BY <1>2, <1>6
  <1>12. ROpen(es) # {} => v.next - 1 = es[RItem(es)].index /\ es[RItem(es)].kind = v.kind
      BY <1>2, <1>6, <1>7
  <1> QED BY <1>1, <1>2, <1>3, <1>5, <1>6, <1>7, <1>9, <1>10, <1>11, <1>12 DEF v

\* A type has been seen since the open item was added.
LEMMA RSeenIs ==
    ASSUME NEW es, RShape(es), NEW type
    PROVE  /\ RSeen(es, type) \in BOOLEAN
           /\ RSeen(es, type) => RView(es).kind # "none"
           /\ ROpen(es) # {} => (RSeen(es, type) <=> RSince(es, RItem(es), type) # {})
  BY RViewOf DEF RSeen

\* The flags of the view of a Responses stream.
LEMMA RViewFields ==
    ASSUME NEW es
    PROVE  LET v == RView(es) IN
           /\ v.part = RSeen(es, "part_added") /\ v.texted = RSeen(es, "text_done")
           /\ v.parted = RSeen(es, "part_done") /\ v.called = RSeen(es, "args_done")
           /\ v.thinking = RSeen(es, "reasoning_delta")
                /\ v.thought = RSeen(es, "reasoning_done")
           /\ v.deltas = IF ROpen(es) = {} THEN 0
                ELSE Cardinality(RSince(es, RItem(es), "args_delta"))
  BY DEF RView

\* The protocol in terms of the view.
LEMMA RMayView ==
    ASSUME NEW es, RShape(es), NEW ix \in SUBSET Nat, NEW e
    PROVE  RespMay(ix, es, e) <=> VRMay(ix, RView(es), e)
  <1> DEFINE v == RView(es)
             o == RItem(es)
  <1>0. /\ v.created = RHas(es, {"created"}) /\ v.ended = RHas(es, {"completed", "failed"})
        /\ v.finished = RHas(es, {"done"}) /\ (v.created <=> es # << >>)
        /\ v.next \in Nat /\ v.next = RNext(es)
        /\ v.kind = "none" <=> ROpen(es) = {}
        /\ ROpen(es) # {}
             => ROpen(es) = {o} /\ es[o].kind = v.kind /\ es[o].index = v.next - 1
      BY RViewOf
  <1>1. /\ v.part = RSeen(es, "part_added") /\ v.texted = RSeen(es, "text_done")
        /\ v.parted = RSeen(es, "part_done") /\ v.called = RSeen(es, "args_done")
        /\ v.thought = RSeen(es, "reasoning_done")
        /\ v.deltas = IF ROpen(es) = {} THEN 0 ELSE Cardinality(RSince(es, o, "args_delta"))
      BY RViewFields
  <1>2. \A type : /\ RSeen(es, type) => ROpen(es) # {}
                  /\ ROpen(es) # {} => (RSeen(es, type) <=> RSince(es, o, type) # {})
      BY RSeenIs, <1>0
  <1>3. ASSUME NEW x \in ix PROVE (\A i \in RAdded(es) : es[i].index < x) <=> v.next <= x
    <2>1. x \in Nat /\ RIsNext(es, v.next)
      BY <1>0 DEF RShape
    <2>2. \A i \in RAdded(es) : es[i].index \in Nat
      <3>1. es \in Seq(RespEvent) /\ RAdded(es) \subseteq 1..Len(es)
        BY DEF RAdded, RShape
      <3>2. \A i \in RAdded(es) : es[i] \in RespEvent
        BY <3>1
      <3> QED BY <3>2 DEF RespEvent
    <2> QED BY <2>1, <2>2, <1>0 DEF RIsNext
  <1> HIDE DEF v, o
  <1>4. CASE ROpen(es) = {}
    <2>1. v.kind = "none" /\ ~v.part /\ ~v.texted /\ ~v.called /\ ~v.thought
      BY <1>0, <1>1, <1>2, <1>4
    <2>2. v.kind # "message" /\ v.kind # "function_call" /\ v.kind # "reasoning"
      BY <2>1
    <2>3. (\E k \in ItemKinds, x \in ix : (\A i \in RAdded(es) : es[i].index < x)
            /\ e = RespEv("item_added", k, x, 0))
            <=> (\E k \in ItemKinds, x \in ix : v.next <= x
                /\ e = RespEv("item_added", k, x, 0))
      BY <1>3
    <2> QED BY <1>0, <1>4, <2>1, <2>2, <2>3, Zenon DEF RespMay, VRMay, v
  <1>5. CASE ROpen(es) # {}
    <2>1. v.kind # "none" /\ ROpen(es) = {o} /\ es[o].kind = v.kind
            /\ es[o].index = v.next - 1 /\ v.created /\ ~v.ended
      BY <1>0, <1>5, RViewOf DEF v
    <2>2. /\ v.part <=> RSince(es, o, "part_added") # {}
          /\ v.texted <=> RSince(es, o, "text_done") # {}
          /\ v.parted <=> RSince(es, o, "part_done") # {}
          /\ v.called <=> RSince(es, o, "args_done") # {}
          /\ v.thought <=> RSince(es, o, "reasoning_done") # {}
          /\ v.deltas = Cardinality(RSince(es, o, "args_delta"))
      BY <1>1, <1>2, <1>5
    <2>3. es # << >>
      BY <1>0, <2>1
    <2>4. RHas(es, {"completed", "failed"}) <=> v.ended
      BY <1>0
    <2> HIDE DEF RespEv
    <2> QED BY <1>5, <2>1, <2>2, <2>3, <2>4 DEF RespMay, VRMay, v
  <1> QED BY <1>4, <1>5

\* The types of the events that the view admits.
LEMMA VRTyped ==
    ASSUME NEW es, RShape(es), NEW ix \in SUBSET Nat, NEW e, VRMay(ix, RView(es), e)
    PROVE  e \in RespEvent
  <1> DEFINE v == RView(es)
  <1>1. v.kind \in ItemKinds \cup {"none"} /\ (v.kind # "none" => v.next - 1 \in Nat)
      BY RViewOf
  <1>2. (v.part \/ v.texted \/ v.called \/ v.thought) => v.kind # "none"
      BY RSeenIs, RViewFields
  <1>3. v.deltas \in Nat
    <2>1. ROpen(es) # {}
            => RSince(es, RItem(es), "args_delta") \in SUBSET (1..Len(es)) /\ Len(es) \in Nat
      <3>1. Len(es) \in Nat /\ (ROpen(es) # {} => RItem(es) \in 1..Len(es))
        BY RViewOf
      <3> QED BY <3>1 DEF RSince
    <2>2. ROpen(es) # {} => Cardinality(RSince(es, RItem(es), "args_delta")) \in Nat
      BY <2>1, CountStep
    <2> QED BY <2>2, RViewFields
  <1>4. \A t \in RespTypes, k \in RespKinds, x \in Nat,
          n \in Nat : RespEv(t, k, x, n) \in RespEvent
      BY DEF RespEv, RespEvent
  <1>5. v.kind \in RespKinds /\ ItemKinds \subseteq RespKinds
          /\ {"text", "args", "reasoning", "none"} \subseteq RespKinds
      BY <1>1 DEF RespKinds, ItemKinds
  <1>6. RespTypes = {"created", "item_added", "part_added", "text_delta", "args_delta", "reasoning_delta",
              "text_done", "part_done", "args_done", "reasoning_done", "item_done",
              "completed", "failed", "done"}
      BY DEF RespTypes
  <1>7. VRMay(ix, v, e)
      OBVIOUS
  <1>8. v.kind \in {"message", "function_call", "reasoning"} => v.kind # "none"
      OBVIOUS
  <1> HIDE DEF v
  <1> QED
    <2>1. CASE v.kind = "none"
      <3>1. ~v.part /\ ~v.texted /\ ~v.called /\ ~v.thought /\ v.kind # "message"
              /\ v.kind # "function_call" /\ v.kind # "reasoning"
        BY <1>2, <2>1
      <3> HIDE DEF RespEv
      <3> QED BY <1>4, <1>5, <1>6, <1>7, <3>1 DEF VRMay
    <2>2. CASE v.kind # "none"
      <3>1. v.next - 1 \in Nat
        BY <1>1, <2>2
      <3> HIDE DEF RespEv
      <3> QED BY <1>3, <1>4, <1>5, <1>6, <1>7, <2>2, <3>1 DEF VRMay
    <2> QED BY <2>1, <2>2

\* What every event a Responses stream may send next has in common.
LEMMA VRMayFacts ==
    ASSUME NEW v, NEW ix, NEW e, VRMay(ix, v, e),
           v.texted \/ v.called \/ v.thought => v.kind # "none"
    PROVE  /\ v.created \/ e.type = "created" \/ v.kind # "none" \/ v.part \/ v.texted
                \/ v.ended
           /\ e.type = "item_added"
                => v.kind = "none" /\ ~v.ended /\ e.index \in ix /\ v.next <= e.index
                /\ e.kind \in ItemKinds
           /\ e.type = "item_done" => v.kind # "none" /\ e.index = v.next - 1
           /\ e.type \in {"completed", "failed"} => v.kind = "none"
  BY DEF VRMay, RespEv

\* What becomes of the open item.
LEMMA RItemAfter ==
    ASSUME NEW es, RShape(es), NEW ix \in SUBSET Nat, NEW e, VRMay(ix, RView(es), e)
    PROVE  LET fs == Append(es, e) n == Len(es) + 1 IN
           /\ e.type = "item_added" => ROpen(fs) = {n} /\ RItem(fs) = n /\ fs[n] = e
           /\ e.type = "item_done" => ROpen(fs) = {} /\ ROpen(es) # {}
           /\ e.type \notin {"item_added", "item_done"} =>
                 /\ ROpen(fs) = ROpen(es) /\ RItem(fs) = RItem(es)
                 /\ ROpen(es) # {}
                      => fs[RItem(es)] = es[RItem(es)] /\ RItem(es) \in 1..Len(es)
  <1> DEFINE fs == Append(es, e)
             n == Len(es) + 1
             v == RView(es)
  <1>1. e \in RespEvent /\ es \in Seq(RespEvent)
      BY VRTyped, RViewOf
  <1>2. /\ ROpen(fs) = IF e.type = "item_added" THEN ROpen(es) \cup {n}
                          ELSE {i \in ROpen(es) : ~(e.type = "item_done"
                              /\ e.index = es[i].index)}
        /\ fs[n] = e /\ \A i \in 1..Len(es) : fs[i] = es[i]
      BY <1>1, RAppend
  <1>3. v.texted \/ v.called \/ v.thought => v.kind # "none"
      BY RSeenIs, RViewFields
  <1>4. /\ e.type = "item_added" => v.kind = "none"
        /\ e.type = "item_done" => v.kind # "none" /\ e.index = v.next - 1
      BY <1>3, VRMayFacts
  <1>5. /\ v.kind = "none" <=> ROpen(es) = {}
        /\ ROpen(es) # {}
             => ROpen(es) = {RItem(es)} /\ RItem(es) \in 1..Len(es)
             /\ es[RItem(es)].index = v.next - 1
      BY RViewOf
  <1> HIDE DEF fs, v
  <1>6. e.type = "item_added" => ROpen(fs) = {n} /\ RItem(fs) = n /\ fs[n] = e
      BY <1>2, <1>4, <1>5 DEF RItem
  <1>7. e.type = "item_done" => ROpen(fs) = {} /\ ROpen(es) # {}
      BY <1>2, <1>4, <1>5
  <1>8. e.type \notin {"item_added", "item_done"} => ROpen(fs) = ROpen(es)
      BY <1>2
  <1>9. e.type \notin {"item_added", "item_done"} => RItem(fs) = RItem(es)
      BY <1>8 DEF RItem
  <1> QED BY <1>2, <1>5, <1>6, <1>7, <1>8, <1>9 DEF fs

\* What one more event changes in the types seen since the open item was
\* added.
LEMMA RSeenAfter ==
    ASSUME NEW es, RShape(es), NEW ix \in SUBSET Nat, NEW e, VRMay(ix, RView(es), e),
           NEW type, type \notin {"item_added", "item_done"}
    PROVE  RSeen(Append(es, e), type) =
             (e.type # "item_done" /\ e.type # "item_added"
                /\ (RSeen(es, type) \/ (RView(es).kind # "none" /\ e.type = type)))
  <1> DEFINE fs == Append(es, e)
             n == Len(es) + 1
             v == RView(es)
  <1>1. e \in RespEvent /\ es \in Seq(RespEvent)
      BY VRTyped, RViewOf
  <1>2. /\ e.type = "item_added" => ROpen(fs) = {n} /\ RItem(fs) = n /\ fs[n] = e
        /\ e.type = "item_done" => ROpen(fs) = {} /\ ROpen(es) # {}
        /\ e.type \notin {"item_added", "item_done"} =>
                 /\ ROpen(fs) = ROpen(es) /\ RItem(fs) = RItem(es)
                 /\ ROpen(es) # {}
                      => fs[RItem(es)] = es[RItem(es)] /\ RItem(es) \in 1..Len(es)
      BY RItemAfter
  <1>3. /\ \A i \in 1..Len(es) : /\ RSince(fs, i, type) = IF e.type = type
                                      THEN RSince(es, i, type) \cup {n}
                                                             ELSE RSince(es, i, type)
                                 /\ RSince(es, i, type) \in SUBSET (1..Len(es))
        /\ RSince(fs, n, type) = IF e.type = type THEN {n} ELSE {}
      BY <1>1, RSinceAppend
  <1>4. v.kind = "none" <=> ROpen(es) = {}
      BY RViewOf
  <1> HIDE DEF fs, v
  <1>5. CASE e.type = "item_added"
    <2>1. ~RSeen(fs, type)
      BY <1>2, <1>3, <1>5 DEF RSeen
    <2> QED BY <2>1, <1>5 DEF RSeen, fs
  <1>6. CASE e.type = "item_done"
    <2>1. ~RSeen(fs, type)
      BY <1>2, <1>6 DEF RSeen
    <2> QED BY <2>1, <1>6 DEF RSeen, fs
  <1>7. CASE e.type \notin {"item_added", "item_done"}
    <2>1. RSeen(fs, type) <=> RSeen(es, type) \/ (v.kind # "none" /\ e.type = type)
      BY <1>2, <1>3, <1>4, <1>7 DEF RSeen
    <2>2. RSeen(fs, type) \in BOOLEAN /\ RSeen(es, type) \in BOOLEAN
      BY DEF RSeen
    <2> QED BY <1>7, <2>1, <2>2 DEF fs, v
  <1> QED BY <1>5, <1>6, <1>7

\* One more event and the pieces of arguments of the open item.
LEMMA RDeltasAfter ==
    ASSUME NEW es, RShape(es), NEW ix \in SUBSET Nat, NEW e, VRMay(ix, RView(es), e)
    PROVE  /\ RView(es).deltas \in Nat
           /\ RView(Append(es, e)).deltas =
                IF e.type = "item_added" \/ e.type = "item_done" THEN 0
                ELSE IF e.type = "args_delta" /\ RView(es).kind # "none"
                    THEN RView(es).deltas + 1 ELSE RView(es).deltas
  <1> DEFINE fs == Append(es, e)
             n == Len(es) + 1
             v == RView(es)
             type == "args_delta"
             d(q) == IF ROpen(q) = {} THEN 0
                 ELSE Cardinality(RSince(q, RItem(q), "args_delta"))
  <1>1. e \in RespEvent /\ es \in Seq(RespEvent) /\ Len(es) \in Nat
      BY VRTyped, RViewOf
  <1>2. /\ e.type = "item_added" => ROpen(fs) = {n} /\ RItem(fs) = n /\ fs[n] = e
        /\ e.type = "item_done" => ROpen(fs) = {} /\ ROpen(es) # {}
        /\ e.type \notin {"item_added", "item_done"} =>
                 /\ ROpen(fs) = ROpen(es) /\ RItem(fs) = RItem(es)
                 /\ ROpen(es) # {}
                      => fs[RItem(es)] = es[RItem(es)] /\ RItem(es) \in 1..Len(es)
      BY RItemAfter
  <1>3. /\ \A i \in 1..Len(es) : /\ RSince(fs, i, type) = IF e.type = type
                                      THEN RSince(es, i, type) \cup {n}
                                                             ELSE RSince(es, i, type)
                                 /\ RSince(es, i, type) \in SUBSET (1..Len(es))
        /\ RSince(fs, n, type) = IF e.type = type THEN {n} ELSE {}
      BY <1>1, RSinceAppend
  <1>4. /\ v.kind = "none" <=> ROpen(es) = {}
        /\ ROpen(es) # {} => RItem(es) \in 1..Len(es)
      BY RViewOf
  <1>5. v.deltas = d(es) /\ RView(fs).deltas = d(fs)
      BY RViewFields
  <1>6. ASSUME ROpen(es) # {}
        PROVE  /\ Cardinality(RSince(es, RItem(es), type)) \in Nat
               /\ Cardinality(RSince(es, RItem(es), type) \cup {n})
                    = Cardinality(RSince(es, RItem(es), type)) + 1
      BY <1>1, <1>3, <1>4, <1>6, CountStep
  <1> HIDE DEF fs, v, n
  <1>7. d(es) \in Nat
      BY <1>6
  <1>8. CASE e.type = "item_added"
    <2>1. RSince(fs, RItem(fs), type) = {}
      BY <1>2, <1>3, <1>8
    <2>2. d(fs) = 0
      BY <1>2, <1>8, <2>1, FS_EmptySet
    <2> QED BY <1>5, <1>7, <1>8, <2>2 DEF fs, v
  <1>9. CASE e.type = "item_done"
      BY <1>2, <1>5, <1>7, <1>9 DEF fs, v
  <1>10. CASE e.type \notin {"item_added", "item_done"}
    <2>1. CASE ROpen(es) = {}
      BY <1>2, <1>4, <1>5, <1>7, <1>10, <2>1 DEF fs, v
    <2>2. CASE ROpen(es) # {}
      <3>1. RSince(fs, RItem(fs), type) = IF e.type = type
              THEN RSince(es, RItem(es), type) \cup {n} ELSE RSince(es, RItem(es), type)
        BY <1>2, <1>3, <1>4, <1>10, <2>2
      <3>2. d(fs) = IF e.type = type THEN d(es) + 1 ELSE d(es)
        BY <1>2, <1>6, <1>10, <2>2, <3>1
      <3> QED BY <1>4, <1>5, <1>7, <1>10, <2>2, <3>2 DEF fs, v
    <2> QED BY <2>1, <2>2
  <1> QED BY <1>8, <1>9, <1>10

\* One more event and the next index.
LEMMA RNextAfter ==
    ASSUME NEW es, RShape(es), NEW ix \in SUBSET Nat, NEW e, VRMay(ix, RView(es), e)
    PROVE  LET fs == Append(es, e) m == IF e.type = "item_added" THEN e.index + 1
             ELSE RNext(es) IN
           m \in Nat /\ RIsNext(fs, m) /\ RNext(fs) = m
  <1> DEFINE fs == Append(es, e)
             n == Len(es) + 1
             v == RView(es)
             m == IF e.type = "item_added" THEN e.index + 1 ELSE RNext(es)
  <1>1. e \in RespEvent /\ es \in Seq(RespEvent) /\ e.index \in Nat
    <2>1. e \in RespEvent /\ es \in Seq(RespEvent)
      BY VRTyped, RViewOf
    <2> QED BY <2>1 DEF RespEvent
  <1>2. /\ fs \in Seq(RespEvent) /\ Len(fs) = n
        /\ RAdded(fs) = IF e.type = "item_added" THEN RAdded(es) \cup {n} ELSE RAdded(es)
        /\ fs[n] = e /\ \A i \in 1..Len(es) : fs[i] = es[i]
      BY <1>1, RAppend
  <1>3. RAdded(es) \subseteq 1..Len(es) /\ RAdded(fs) \subseteq 1..Len(fs)
      BY DEF RAdded
  <1>4. \A i \in RAdded(fs) : fs[i].index \in Nat
    <2>1. \A i \in RAdded(fs) : fs[i] \in RespEvent
      BY <1>2, <1>3
    <2> QED BY <2>1 DEF RespEvent
  <1>5. v.texted \/ v.called \/ v.thought => v.kind # "none"
      BY RSeenIs, RViewFields
  <1>6. e.type = "item_added" => v.next <= e.index
      BY <1>5, VRMayFacts
  <1>7. v.next = RNext(es) /\ RNext(es) \in Nat /\ RIsNext(es, RNext(es))
      BY RViewOf DEF RShape
  <1> HIDE DEF fs, v, n
  <1>8. m \in Nat
      BY <1>1, <1>7
  <1>9. RIsNext(fs, m)
    <2>1. CASE e.type = "item_added"
      <3>1. \A i \in RAdded(es) : fs[i].index < m
        <4>1. \A i \in RAdded(es) : es[i].index < v.next /\ fs[i].index = es[i].index
                /\ fs[i].index \in Nat
          BY <1>2, <1>3, <1>4, <1>7 DEF RIsNext
        <4> QED BY <1>1, <1>6, <1>7, <2>1, <4>1
      <3>2. fs[n].index < m /\ fs[n].index + 1 = m /\ n \in RAdded(fs)
        BY <1>1, <1>2, <2>1
      <3> QED BY <1>2, <2>1, <3>1, <3>2 DEF RIsNext
    <2>2. CASE e.type # "item_added"
      BY <1>2, <1>3, <1>7, <2>2 DEF RIsNext
    <2> QED BY <2>1, <2>2
  <1>10. RNext(fs) = m
      BY <1>4, <1>8, <1>9, RNextIs
  <1> QED BY <1>8, <1>9, <1>10 DEF fs

\* A Responses stream stays well formed by an event it may send.
LEMMA RShapeAfter ==
    ASSUME NEW es, RShape(es), NEW ix \in SUBSET Nat, NEW e, VRMay(ix, RView(es), e)
    PROVE  RShape(Append(es, e))
  <1> DEFINE fs == Append(es, e)
             n == Len(es) + 1
             v == RView(es)
  <1>1. e \in RespEvent /\ es \in Seq(RespEvent) /\ Len(es) \in Nat
      BY VRTyped, RViewOf
  <1>2. /\ fs \in Seq(RespEvent) /\ Len(fs) = n /\ fs[n] = e /\ fs # << >>
        /\ \A i \in 1..Len(es) : fs[i] = es[i]
        /\ \A T : RHas(fs, T) <=> RHas(es, T) \/ e.type \in T
        /\ RAdded(fs) = IF e.type = "item_added" THEN RAdded(es) \cup {n} ELSE RAdded(es)
        /\ ROpen(fs) = IF e.type = "item_added" THEN ROpen(es) \cup {n}
                          ELSE {i \in ROpen(es) : ~(e.type = "item_done"
                              /\ e.index = es[i].index)}
        /\ RCalls(fs) = IF e.type = "item_added" /\ e.kind = "function_call"
                             THEN RCalls(es) \cup {n} ELSE RCalls(es)
      BY <1>1, RAppend
  <1>3. v.texted \/ v.called \/ v.thought \/ v.part => v.kind # "none"
      BY RSeenIs, RViewFields
  <1>4. /\ v.created \/ e.type = "created" \/ v.kind # "none" \/ v.part \/ v.texted \/ v.ended
        /\ e.type = "item_added" => v.kind = "none" /\ ~v.ended /\ e.kind \in ItemKinds
        /\ e.type \in {"completed", "failed"} => v.kind = "none"
    <2>1. v.texted \/ v.called \/ v.thought => v.kind # "none"
      BY <1>3
    <2> QED BY <2>1, VRMayFacts
  <1>5. /\ v.created = RHas(es, {"created"}) /\ v.ended = RHas(es, {"completed", "failed"})
        /\ v.created <=> es # << >>
        /\ v.kind = "none" <=> ROpen(es) = {}
        /\ v.ended => v.kind = "none"
      BY RViewOf
  <1>6. /\ e.type = "item_added" => ROpen(fs) = {n}
        /\ e.type = "item_done" => ROpen(fs) = {}
        /\ e.type \notin {"item_added", "item_done"} => ROpen(fs) = ROpen(es)
    <2>1. /\ e.type = "item_added" => ROpen(fs) = {n} /\ RItem(fs) = n /\ fs[n] = e
          /\ e.type = "item_done" => ROpen(fs) = {} /\ ROpen(es) # {}
          /\ e.type \notin {"item_added", "item_done"} =>
                 /\ ROpen(fs) = ROpen(es) /\ RItem(fs) = RItem(es)
                 /\ ROpen(es) # {}
                      => fs[RItem(es)] = es[RItem(es)] /\ RItem(es) \in 1..Len(es)
      BY RItemAfter
    <2> HIDE DEF fs, n
    <2> QED BY <2>1
  <1>7. LET m == IF e.type = "item_added" THEN e.index + 1 ELSE RNext(es) IN
           m \in Nat /\ RIsNext(fs, m) /\ RNext(fs) = m
      BY RNextAfter
  <1>8. RAdded(es) \subseteq 1..Len(es) /\ ROpen(es) \subseteq RAdded(es)
      BY DEF RAdded, ROpen
  <1>9. es = << >> => ROpen(es) = {} /\ ~RHas(es, {"completed", "failed"})
      BY DEF ROpen, RAdded, RHas
  <1> HIDE DEF fs, v
  <1>10. RHas(fs, {"created"})
    <2>1. RHas(es, {"created"}) \/ e.type = "created"
      BY <1>3, <1>4, <1>5, <1>9
    <2> QED BY <1>2, <2>1
  <1>11. RNext(fs) \in Nat /\ RIsNext(fs, RNext(fs))
      BY <1>7
  <1>12. \A i \in ROpen(fs) : fs[i].index + 1 = RNext(fs)
    <2>1. CASE e.type = "item_added"
      BY <1>2, <1>6, <1>7, <2>1
    <2>2. CASE e.type # "item_added"
      <3>1. ROpen(fs) \subseteq ROpen(es) /\ RNext(fs) = RNext(es)
        BY <1>2, <1>7, <2>2
      <3>2. \A i \in ROpen(es) : fs[i] = es[i] /\ es[i].index + 1 = RNext(es)
        BY <1>2, <1>8 DEF RShape
      <3> QED BY <3>1, <3>2
    <2> QED BY <2>1, <2>2
  <1>13. \A i \in ROpen(fs), j \in RAdded(fs) : j <= i
    <2>1. CASE e.type = "item_added"
      BY <1>1, <1>2, <1>6, <1>8, <2>1
    <2>2. CASE e.type # "item_added"
      BY <1>2, <2>2 DEF RShape
    <2> QED BY <2>1, <2>2
  <1>14. \A i \in RAdded(fs) : fs[i].kind \in ItemKinds
    <2>1. \A i \in RAdded(es) : fs[i].kind \in ItemKinds
      BY <1>2, <1>8 DEF RShape
    <2> QED BY <1>2, <1>4, <2>1
  <1>15. RHas(fs, {"completed", "failed"}) => ROpen(fs) = {}
    <2>1. CASE e.type \in {"completed", "failed"}
      BY <1>4, <1>5, <1>6, <2>1
    <2>2. CASE e.type \notin {"completed", "failed"}
      BY <1>2, <1>4, <1>5, <1>6, <2>2
    <2> QED BY <2>1, <2>2
  <1> QED BY <1>2, <1>10, <1>11, <1>12, <1>13, <1>14, <1>15 DEF RShape, fs

\* The view of a Responses stream follows an event it may send.
LEMMA RViewAfter ==
    ASSUME NEW es, RShape(es), NEW ix \in SUBSET Nat, NEW e, VRMay(ix, RView(es), e)
    PROVE  RView(Append(es, e)) = VRAfter(RView(es), e)
  <1> DEFINE fs == Append(es, e)
             n == Len(es) + 1
             v == RView(es)
             opens == e.type = "item_added"
             closes == e.type = "item_done"
             seen(b, t) == ~closes /\ ~opens /\ (b \/ (v.kind # "none" /\ e.type = t))
  <1>1. e \in RespEvent /\ es \in Seq(RespEvent) /\ Len(es) \in Nat
      BY VRTyped, RViewOf
  <1>2. /\ \A T : RHas(fs, T) <=> RHas(es, T) \/ e.type \in T
        /\ RCalls(fs) = IF e.type = "item_added" /\ e.kind = "function_call"
                             THEN RCalls(es) \cup {n} ELSE RCalls(es)
      BY <1>1, RAppend
  <1>3. RHas(fs, {"created"}) = (v.created \/ e.type = "created")
    <2>1. RHas(fs, {"created"}) \in BOOLEAN /\ RHas(es, {"created"}) \in BOOLEAN
            /\ v.created = RHas(es, {"created"})
      BY DEF RHas, RView
    <2> HIDE DEF fs, v
    <2> QED BY <1>2, <2>1
  <1>4. RHas(fs, {"completed", "failed"}) = (v.ended \/ e.type \in {"completed", "failed"})
    <2>1. /\ RHas(fs, {"completed", "failed"}) \in BOOLEAN
               /\ RHas(es, {"completed", "failed"}) \in BOOLEAN
          /\ v.ended = RHas(es, {"completed", "failed"})
      BY DEF RHas, RView
    <2> HIDE DEF fs, v
    <2> QED BY <1>2, <2>1
  <1>5. RHas(fs, {"done"}) = (v.finished \/ e.type = "done")
    <2>1. RHas(fs, {"done"}) \in BOOLEAN /\ RHas(es, {"done"}) \in BOOLEAN
            /\ v.finished = RHas(es, {"done"})
      BY DEF RHas, RView
    <2> HIDE DEF fs, v
    <2> QED BY <1>2, <2>1
  <1>6. RNext(fs) = IF opens THEN e.index + 1 ELSE v.next
      BY RNextAfter, RViewOf
  <1>7. Cardinality(RCalls(fs)) = IF opens /\ e.kind = "function_call" THEN v.calls + 1
          ELSE v.calls
    <2>1. RCalls(es) \in SUBSET (1..Len(es))
      BY DEF RCalls, RAdded
    <2>2. v.calls = Cardinality(RCalls(es))
      BY DEF RView
    <2> QED BY <1>1, <1>2, <2>1, <2>2, CountStep
  <1>8. (IF ROpen(fs) = {} THEN "none" ELSE fs[RItem(fs)].kind)
           = IF opens THEN e.kind ELSE IF closes THEN "none" ELSE v.kind
    <2>1. /\ e.type = "item_added" => ROpen(fs) = {n} /\ RItem(fs) = n /\ fs[n] = e
          /\ e.type = "item_done" => ROpen(fs) = {} /\ ROpen(es) # {}
          /\ e.type \notin {"item_added", "item_done"} =>
                 /\ ROpen(fs) = ROpen(es) /\ RItem(fs) = RItem(es)
                 /\ ROpen(es) # {}
                      => fs[RItem(es)] = es[RItem(es)] /\ RItem(es) \in 1..Len(es)
      BY RItemAfter
    <2>2. v.kind = IF ROpen(es) = {} THEN "none" ELSE es[RItem(es)].kind
      BY DEF RView
    <2> HIDE DEF fs, v, n
    <2> QED BY <2>1, <2>2
  <1>9. /\ RSeen(fs, "part_added") = seen(v.part, "part_added")
        /\ RSeen(fs, "text_done") = seen(v.texted, "text_done")
        /\ RSeen(fs, "part_done") = seen(v.parted, "part_done")
        /\ RSeen(fs, "args_done") = seen(v.called, "args_done")
        /\ RSeen(fs, "reasoning_delta") = seen(v.thinking, "reasoning_delta")
        /\ RSeen(fs, "reasoning_done") = seen(v.thought, "reasoning_done")
    <2>1. \A type \in {"part_added", "text_done", "part_done", "args_done", "reasoning_delta",
                       "reasoning_done"} :
             RSeen(fs, type)
                 = (e.type # "item_done" /\ e.type # "item_added"
                 /\ (RSeen(es, type) \/ (v.kind # "none" /\ e.type = type)))
      BY RSeenAfter
    <2>2. /\ v.part = RSeen(es, "part_added") /\ v.texted = RSeen(es, "text_done")
           /\ v.parted = RSeen(es, "part_done") /\ v.called = RSeen(es, "args_done")
           /\ v.thinking = RSeen(es, "reasoning_delta")
                /\ v.thought = RSeen(es, "reasoning_done")
      BY RViewFields
    <2> HIDE DEF fs, v
    <2> QED BY <2>1, <2>2
  <1>10. (IF ROpen(fs) = {} THEN 0 ELSE Cardinality(RSince(fs, RItem(fs), "args_delta")))
          = IF opens \/ closes THEN 0
                   ELSE IF e.type = "args_delta" /\ v.kind # "none" THEN v.deltas + 1
                       ELSE v.deltas
      BY RDeltasAfter, RViewFields
  <1> HIDE DEF fs, v
  <1>11. RView(fs) = VRAfter(v, e)
      BY <1>3, <1>4, <1>5, <1>6, <1>7, <1>8, <1>9, <1>10, Zenon DEF RView, VRAfter
  <1> QED BY <1>11 DEF fs, v

RValid(ix, es) == RShape(es) /\ \A k \in Nat : k < Len(es)
    => RespMay(ix, SubSeq(es, 1, k), es[k + 1])

VRNew == [created |-> FALSE, ended |-> FALSE, finished |-> FALSE, next |-> 0, calls |-> 0,
          kind |-> "none",
          part |-> FALSE, texted |-> FALSE, parted |-> FALSE, called |-> FALSE,
          thinking |-> FALSE, thought |-> FALSE, deltas |-> 0]

\* The empty Responses stream and its view.
LEMMA RValidEmpty ==
    ASSUME NEW ix
    PROVE  RValid(ix, << >>) /\ RView(<< >>) = VRNew
  <1>1. RAdded(<< >>) = {} /\ RCalls(<< >>) = {} /\ ROpen(<< >>) = {}
      BY DEF RAdded, RCalls, ROpen
  <1>2. RHas(<< >>, {"created"}) = FALSE /\ RHas(<< >>, {"completed", "failed"}) = FALSE
          /\ RHas(<< >>, {"done"}) = FALSE
      BY DEF RHas
  <1>3. RIsNext(<< >>, 0)
      BY <1>1 DEF RIsNext
  <1>4. RNext(<< >>) = 0
      BY <1>1, <1>3, RNextIs
  <1>5. RShape(<< >>)
      BY <1>1, <1>3, <1>4 DEF RShape
  <1>6. \A t : RSeen(<< >>, t) = FALSE
      BY <1>1 DEF RSeen
  <1>7. RView(<< >>) = VRNew
      BY <1>1, <1>2, <1>4, <1>6, FS_EmptySet DEF RView, VRNew
  <1> QED BY <1>5, <1>7 DEF RValid

\* A Responses stream extended by an event it may send.
LEMMA RExtend ==
    ASSUME NEW ix \in SUBSET Nat, NEW es, RValid(ix, es), NEW e, VRMay(ix, RView(es), e)
    PROVE  /\ RValid(ix, Append(es, e)) /\ RView(Append(es, e)) = VRAfter(RView(es), e)
           /\ e \in RespEvent
  <1>1. /\ e \in RespEvent /\ RShape(Append(es, e))
        /\ RView(Append(es, e)) = VRAfter(RView(es), e)
      BY VRTyped, RShapeAfter, RViewAfter DEF RValid
  <1>2. es \in Seq(RespEvent) /\ Len(es) \in Nat
      BY DEF RValid, RShape
  <1>3. ASSUME NEW k \in Nat, k < Len(Append(es, e))
        PROVE  RespMay(ix, SubSeq(Append(es, e), 1, k), Append(es, e)[k + 1])
    <2>1. CASE k < Len(es)
      <3>1. SubSeq(Append(es, e), 1, k) = SubSeq(es, 1, k) /\ Append(es, e)[k + 1] = es[k + 1]
        BY <1>1, <1>2, <2>1
      <3> QED BY <2>1, <3>1 DEF RValid
    <2>2. CASE k = Len(es)
      <3>1. SubSeq(Append(es, e), 1, k) = es /\ Append(es, e)[k + 1] = e
        BY <1>1, <1>2, <2>2
      <3> QED BY <3>1, RMayView DEF RValid
    <2> QED BY <1>1, <1>2, <1>3, <2>1, <2>2
  <1> QED BY <1>1, <1>3 DEF RValid

\* What the view's parts say together.
VRType(v) ==
    /\ v.kind \in ItemKinds \cup {"none"} /\ v.next \in Nat /\ v.calls \in Nat
         /\ v.deltas \in Nat
    /\ v.kind # "none" => v.next > 0
    /\ {v.created, v.ended, v.finished, v.part, v.texted, v.parted, v.called, v.thinking,
         v.thought} \subseteq BOOLEAN
    /\ v.part => v.kind = "message"
    /\ v.texted => v.part
    /\ v.parted => v.texted
    /\ v.called => v.kind = "function_call"
    /\ v.thinking => v.kind = "reasoning"
    /\ v.thought => v.kind = "reasoning"
    /\ v.ended => v.kind = "none" /\ v.created
    /\ v.finished => v.ended
    /\ v.kind # "none" => v.created

\* The view of the empty Responses stream has its type.
LEMMA VRTypeNew == VRType(VRNew)
  BY DEF VRType, VRNew

\* The view keeps its type.
LEMMA VRTypeAfter ==
    ASSUME NEW ix \in SUBSET Nat, NEW v, VRType(v), NEW e, VRMay(ix, v, e)
    PROVE  VRType(VRAfter(v, e))
  <1> DEFINE w == VRAfter(v, e)
             closes == e.type = "item_done"
             opens == e.type = "item_added"
             seen(b, t) == ~closes /\ ~opens /\ (b \/ (v.kind # "none" /\ e.type = t))
  <1>1. /\ w.created = (v.created \/ e.type = "created")
        /\ w.ended = (v.ended \/ e.type \in {"completed", "failed"})
        /\ w.finished = (v.finished \/ e.type = "done")
        /\ w.next = (IF opens THEN e.index + 1 ELSE v.next)
        /\ w.calls = (IF opens /\ e.kind = "function_call" THEN v.calls + 1 ELSE v.calls)
        /\ w.kind = (IF opens THEN e.kind ELSE IF closes THEN "none" ELSE v.kind)
        /\ w.part = seen(v.part, "part_added") /\ w.texted = seen(v.texted, "text_done")
        /\ w.parted = seen(v.parted, "part_done") /\ w.called = seen(v.called, "args_done")
        /\ w.thinking = seen(v.thinking, "reasoning_delta")
             /\ w.thought = seen(v.thought, "reasoning_done")
        /\ w.deltas = (IF opens \/ closes THEN 0
                   ELSE IF e.type = "args_delta" /\ v.kind # "none" THEN v.deltas + 1
                       ELSE v.deltas)
      BY DEF VRAfter
  <1>2. /\ e.type = "item_added"
             => v.kind = "none" /\ ~v.ended /\ e.index \in ix /\ v.next <= e.index
             /\ e.kind \in ItemKinds
        /\ e.type = "item_done" => v.kind # "none" /\ e.index = v.next - 1
        /\ e.type \in {"completed", "failed"} => v.kind = "none"
      BY VRMayFacts DEF VRType
  <1>3. /\ e.type = "part_added" => v.kind = "message"
        /\ e.type = "text_done" => v.part
        /\ e.type = "part_done" => v.texted
        /\ e.type = "args_done" => v.kind = "function_call"
        /\ e.type \in {"reasoning_delta", "reasoning_done"} => v.kind = "reasoning"
        /\ e.type \in {"completed", "failed", "item_added"} => v.created
        /\ e.type = "done" => v.ended
        /\ e.type = "item_added" => v.created
      BY DEF VRMay, RespEv
  <1> SUFFICES VRType(w)
      OBVIOUS
  <1> HIDE DEF w
  <1>4. CASE opens
    <2>1. e.index \in Nat /\ e.kind \in ItemKinds /\ v.created /\ ~v.ended /\ ~v.finished
      BY <1>2, <1>3, <1>4 DEF VRType
    <2>2. /\ ~w.part /\ ~w.texted /\ ~w.parted /\ ~w.called /\ ~w.thinking /\ ~w.thought
          /\ {w.part, w.texted, w.parted, w.called, w.thinking, w.thought} \subseteq BOOLEAN
      BY <1>1, <1>4
    <2>3. w.created /\ ~w.ended /\ ~w.finished
            /\ {w.created, w.ended, w.finished} \subseteq BOOLEAN
      BY <1>1, <1>4, <2>1
    <2>4. w.kind = e.kind /\ w.next = e.index + 1 /\ w.deltas = 0 /\ w.calls \in Nat
      BY <1>1, <1>4 DEF VRType
    <2> QED BY <2>1, <2>2, <2>3, <2>4 DEF VRType
  <1>5. CASE closes
      BY <1>1, <1>2, <1>3, <1>5 DEF VRType, ItemKinds
  <1>6. CASE ~opens /\ ~closes
      BY <1>1, <1>2, <1>3, <1>6 DEF VRType
  <1> QED BY <1>4, <1>5, <1>6

-----------------------------------------------------------------------------
(* The steps of the upstream: what it has sent stays well formed.          *)

\* The cardinality of the instance of the Claude protocol is the usual one.
LEMMA ClaudeCard == \A S : ClaudeUp!Cardinality(S) = Cardinality(S)
  BY DEF ClaudeUp!Cardinality, Cardinality

\* The cardinality of the instance of the Responses protocol is the usual one.
LEMMA RespCard == \A S : RespUp!Cardinality(S) = Cardinality(S)
  BY DEF RespUp!Cardinality, Cardinality

\* A step of the Claude protocol sends an event it may send.
LEMMA ClaudeSends ==
    ASSUME ClaudeUp!Next
    PROVE  \E e : ClaudeMay(sent, e) /\ sent' = Append(sent, e)
  <1>1. /\ \A t : ClaudeUp!has(t) <=> CHas(sent, t)
        /\ ClaudeUp!blocks = CBlocks(sent)
        /\ ClaudeUp!openBlocks = COpen(sent)
        /\ ClaudeUp!started <=> CHas(sent, "message_start")
        /\ ClaudeUp!stopped <=> CHas(sent, "message_stop")
      BY Zenon DEF ClaudeUp!has, CHas, ClaudeUp!blocks, CBlocks, ClaudeUp!openBlocks, COpen,
         ClaudeUp!isOpen, COpenAt,
             ClaudeUp!started, ClaudeUp!stopped
  <1>2. \A t, k, x : ClaudeUp!event(t, k, x) = ClaudeEv(t, k, x)
      BY DEF ClaudeUp!event, ClaudeEv
  <1>3. \A e : ClaudeUp!send(e) <=> sent' = Append(sent, e)
      BY DEF ClaudeUp!send
  <1>4. Kinds = {"text", "thinking", "tool_use"}
      BY DEF Kinds
  <1>5. CASE ClaudeUp!MessageStart
      BY <1>1, <1>2, <1>3, <1>5, Zenon DEF ClaudeUp!MessageStart, ClaudeMay
  <1>6. CASE ClaudeUp!BlockStart
    <2>1. PICK k \in {"text", "thinking",
                      "tool_use"} : ClaudeUp!send(ClaudeUp!event("content_block_start", k,
            Cardinality(ClaudeUp!blocks)))
      BY <1>6, ClaudeCard, Zenon DEF ClaudeUp!BlockStart
    <2>2. CHas(sent, "message_start") /\ ~CHas(sent, "message_stop") /\ COpen(sent) = {}
      BY <1>1, <1>6, Zenon DEF ClaudeUp!BlockStart
    <2>3. k \in Kinds /\ sent'
            = Append(sent, ClaudeEv("content_block_start", k, Cardinality(CBlocks(sent))))
      BY <1>1, <1>2, <1>3, <1>4, <2>1
    <2> QED BY <2>2, <2>3, Zenon DEF ClaudeMay
  <1>7. CASE ClaudeUp!BlockDelta
      BY <1>1, <1>2, <1>3, <1>7, Zenon DEF ClaudeUp!BlockDelta, ClaudeMay
  <1>8. CASE ClaudeUp!BlockStop
      BY <1>1, <1>2, <1>3, <1>8, Zenon DEF ClaudeUp!BlockStop, ClaudeMay
  <1>9. CASE ClaudeUp!MessageDelta
      BY <1>1, <1>2, <1>3, <1>9, Zenon DEF ClaudeUp!MessageDelta, ClaudeMay
  <1>10. CASE ClaudeUp!MessageStop
      BY <1>1, <1>2, <1>3, <1>10, Zenon DEF ClaudeUp!MessageStop, ClaudeMay
  <1> QED BY <1>5, <1>6, <1>7, <1>8, <1>9, <1>10 DEF ClaudeUp!Next

\* A step of the Responses protocol sends an event it may send.
LEMMA RespSends ==
    ASSUME RespUp!Next
    PROVE  \E e : RespMay(0..MaxIndex, sent, e) /\ sent' = Append(sent, e)
  <1>1. /\ \A t : RespUp!has(t) <=> RHas(sent, t)
        /\ RespUp!ended <=> RHas(sent, {"completed", "failed"})
        /\ RespUp!added = RAdded(sent)
        /\ RespUp!openItems = ROpen(sent)
        /\ \A i, t : RespUp!since(i, t) = RSince(sent, i, t)
      BY Zenon DEF RespUp!has, RHas, RespUp!ended, RespUp!added, RAdded, RespUp!openItems,
         ROpen, RespUp!isDone, RDoneAt,
             RespUp!since, RSince
  <1>2. \A t, k, x, n : RespUp!event(t, k, x, n) = RespEv(t, k, x, n)
      BY DEF RespUp!event, RespEv
  <1>3. \A e : RespUp!send(e) <=> sent' = Append(sent, e)
      BY DEF RespUp!send
  <1>4. ItemKinds = {"message", "function_call", "reasoning"}
      BY DEF ItemKinds
  <1>5. CASE RespUp!Created
      BY <1>1, <1>2, <1>3, <1>5, Zenon DEF RespUp!Created, RespMay
  <1>6. CASE RespUp!ItemAdded
      BY <1>1, <1>2, <1>3, <1>4, <1>6, Zenon DEF RespUp!ItemAdded, RespMay
  <1>7. CASE RespUp!PartAdded
      BY <1>1, <1>2, <1>3, <1>7, Zenon DEF RespUp!PartAdded, RespMay
  <1>8. CASE RespUp!TextDelta
      BY <1>1, <1>2, <1>3, <1>8, Zenon DEF RespUp!TextDelta, RespMay
  <1>9. CASE RespUp!ArgsDelta
      BY <1>1, <1>2, <1>3, <1>9, Zenon DEF RespUp!ArgsDelta, RespMay
  <1>10. CASE RespUp!ReasoningDelta
      BY <1>1, <1>2, <1>3, <1>10, Zenon DEF RespUp!ReasoningDelta, RespMay
  <1>11. CASE RespUp!Closing
    <2>1. PICK i \in ROpen(sent) :
             \/ /\ RSince(sent, i, "part_added") # {} /\ RSince(sent, i, "text_done") = {}
                /\ sent' = Append(sent, RespEv("text_done", "text", sent[i].index, 0))
             \/ /\ RSince(sent, i, "text_done") # {} /\ RSince(sent, i, "part_done") = {}
                /\ sent' = Append(sent, RespEv("part_done", "text", sent[i].index, 0))
             \/ /\ sent[i].kind = "function_call" /\ RSince(sent, i, "args_done") = {}
                /\ sent' = Append(sent, RespEv("args_done", "args", sent[i].index, Cardinality(RSince(sent, i, "args_delta"))))
             \/ /\ sent[i].kind = "reasoning" /\ RSince(sent, i, "reasoning_done") = {}
                /\ sent' = Append(sent, RespEv("reasoning_done", "reasoning", sent[i].index, 0))
      <3>1. PICK i \in RespUp!openItems :
             \/ /\ RespUp!since(i, "part_added") # {} /\ RespUp!since(i, "text_done") = {}
                /\ RespUp!send(RespUp!event("text_done", "text", sent[i].index, 0))
             \/ /\ RespUp!since(i, "text_done") # {} /\ RespUp!since(i, "part_done") = {}
                /\ RespUp!send(RespUp!event("part_done", "text", sent[i].index, 0))
             \/ /\ sent[i].kind = "function_call" /\ RespUp!since(i, "args_done") = {}
                /\ RespUp!send(RespUp!event("args_done", "args", sent[i].index,
                                            Cardinality(RespUp!since(i, "args_delta"))))
             \/ /\ sent[i].kind = "reasoning" /\ RespUp!since(i, "reasoning_done") = {}
                /\ RespUp!send(RespUp!event("reasoning_done", "reasoning", sent[i].index, 0))
        BY <1>11, RespCard, Zenon DEF RespUp!Closing
      <3>2. i \in ROpen(sent)
        BY <1>1, <3>1
      <3> QED BY <1>1, <1>2, <1>3, <3>1, <3>2, Zenon
    <2> QED BY <2>1, Zenon DEF RespMay
  <1>12. CASE RespUp!ItemDone
      BY <1>1, <1>2, <1>3, <1>12, Zenon DEF RespUp!ItemDone, RespMay
  <1>13. CASE RespUp!Ended
      BY <1>1, <1>2, <1>3, <1>13, Zenon DEF RespUp!Ended, RespMay
  <1>14. CASE RespUp!Done
      BY <1>1, <1>2, <1>3, <1>14, Zenon DEF RespUp!Done, RespMay
  <1> QED BY <1>5, <1>6, <1>7, <1>8, <1>9, <1>10, <1>11, <1>12, <1>13, <1>14 DEF RespUp!Next

UpIndexes == 0..MaxIndex

\* What a step of a Claude upstream sends.
LEMMA ClaudeStep ==
    ASSUME CValid(sent), SendsClaudeEvent
    PROVE  \E e \in ClaudeEvent :
              /\ VMay(CView(sent), e) /\ sent' = Append(sent, e) /\ sent'[Len(sent')] = e
              /\ CValid(sent') /\ CView(sent') = VAfter(CView(sent), e)
              /\ ~CView(sent).stopped
              /\ e.kind = "stop" => ~CView(sent).reason
              /\ CView(sent).reason => e.type \in {"message_delta", "message_stop"}
              /\ Len(sent) < MaxEvents /\ upstream' = upstream
  <1>1. ClaudeUp!Next
      BY Zenon DEF SendsClaudeEvent
  <1>2. PICK e : ClaudeMay(sent, e) /\ sent' = Append(sent, e)
      BY <1>1, ClaudeSends, Zenon
  <1>3. CShape(sent) /\ sent \in Seq(ClaudeEvent)
      BY DEF CValid, CShape
  <1>4. VMay(CView(sent), e)
      BY <1>2, <1>3, CMayView
  <1>5. CValid(Append(sent, e)) /\ CView(Append(sent, e)) = VAfter(CView(sent), e)
      BY <1>4, CExtend
  <1>6. e \in ClaudeEvent
      BY <1>3, <1>4, CStep
  <1>7. sent'[Len(sent')] = e
      BY <1>2, <1>3, <1>6
  <1>8. /\ ~CHas(sent, "message_stop")
        /\ e.kind = "stop" => \A i \in 1..Len(sent) : sent[i].kind # "stop"
        /\ (\E i \in 1..Len(sent) : sent[i].kind = "stop")
             => e.type \in {"message_delta", "message_stop"}
        /\ Len(sent) < MaxEvents /\ upstream' = upstream
    <2>1. ~CHas(sent, "message_stop")
      BY Zenon DEF SendsClaudeEvent, ClaudeUp!stopped, ClaudeUp!has, CHas
    <2> QED BY <1>7, <2>1 DEF SendsClaudeEvent
  <1>9. CView(sent).stopped = CHas(sent, "message_stop") /\ CView(sent).reason = CReason(sent)
      BY DEF CView
  <1>10. /\ ~CView(sent).stopped
         /\ e.kind = "stop" => ~CView(sent).reason
         /\ CView(sent).reason => e.type \in {"message_delta", "message_stop"}
      BY <1>8, <1>9 DEF CReason
  <1> QED BY <1>2, <1>4, <1>5, <1>6, <1>7, <1>8, <1>10

\* What a step of a Responses upstream sends.
LEMMA RespStep ==
    ASSUME RValid(UpIndexes, sent), VRType(RView(sent)), SendsResponsesEvent
    PROVE  \E e \in RespEvent :
              /\ VRMay(UpIndexes, RView(sent), e) /\ sent' = Append(sent, e)
                   /\ sent'[Len(sent')] = e
              /\ RValid(UpIndexes, sent') /\ RView(sent') = VRAfter(RView(sent), e)
                   /\ VRType(RView(sent'))
              /\ e.type = "item_done"
                   => sent[Len(sent)].type \in {"part_done", "args_done", "reasoning_done"}
              /\ Len(sent) < MaxEvents /\ upstream' = upstream
  <1>1. RespUp!Next
      BY Zenon DEF SendsResponsesEvent
  <1>2. PICK e : RespMay(UpIndexes, sent, e) /\ sent' = Append(sent, e)
      BY <1>1, RespSends, Zenon DEF UpIndexes
  <1>3. RShape(sent) /\ sent \in Seq(RespEvent) /\ UpIndexes \in SUBSET Nat
      BY DEF RValid, RShape, UpIndexes
  <1>4. VRMay(UpIndexes, RView(sent), e)
      BY <1>2, <1>3, RMayView
  <1>5. RValid(UpIndexes, Append(sent, e)) /\ RView(Append(sent, e)) = VRAfter(RView(sent), e)
          /\ e \in RespEvent
      BY <1>3, <1>4, RExtend
  <1>6. VRType(RView(Append(sent, e)))
      BY <1>3, <1>4, <1>5, VRTypeAfter
  <1>7. sent'[Len(sent')] = e
      BY <1>2, <1>3, <1>5
  <1>8. /\ e.type = "item_done"
             => sent[Len(sent)].type \in {"part_done", "args_done", "reasoning_done"}
        /\ Len(sent) < MaxEvents /\ upstream' = upstream
      BY <1>7 DEF SendsResponsesEvent
  <1> QED BY <1>2, <1>4, <1>5, <1>6, <1>7, <1>8, Zenon

\* The converter, the style of its upstream and what the upstream has sent.
SentInv ==
    /\ conv \in Converters
    /\ conv.name \notin {"cc_openai", "cx_resp_openai"} => style = "conforming"
    /\ conv.name = "cc_openai" => style \in {"conforming", "any"}
    /\ conv.name = "cx_resp_openai" => style \in {"conforming", "single"}
    /\ conv.from = "responses" => ids \in RespToClaude!IdStyle
    /\ conv.from = "claude" => CValid(sent)
    /\ conv.from = "responses" => RValid(UpIndexes, sent) /\ VRType(RView(sent))

\* The six converters, by the protocols of their two sides.
LEMMA ConverterIs ==
    ASSUME conv \in Converters
    PROVE  /\ conv.name \in {"cc_openai", "cc_openai2", "cx_chat_claude", "cx_chat_openai2",
                             "cx_resp_claude", "cx_resp_openai"}
           /\ conv.name \in {"cc_openai", "cc_openai2"} <=> conv.client = "claude"
           /\ conv.name \in {"cx_chat_claude", "cx_chat_openai2"} <=> conv.client = "chat"
           /\ conv.name \in {"cx_resp_claude", "cx_resp_openai"} <=> conv.client = "responses"
           /\ conv.name \in {"cc_openai", "cx_resp_openai"} <=> conv.from = "chat"
           /\ conv.name \in {"cx_chat_claude", "cx_resp_claude"} <=> conv.from = "claude"
           /\ conv.name \in {"cc_openai2", "cx_chat_openai2"} <=> conv.from = "responses"
  BY DEF Converters

\* What is sent by an upstream of the Claude or Responses protocol is a stream
\* of it.
LEMMA SentIsInvariant == Spec => []SentInv
  <1>1. Init => SentInv
    <2> SUFFICES ASSUME Init PROVE SentInv
      OBVIOUS
    <2>1. conv \in Converters /\ sent = << >>
      BY Zenon DEF Init
    <2>2. /\ conv.name \notin {"cc_openai", "cx_resp_openai"} => style = "conforming"
          /\ conv.name = "cc_openai" => style \in {"conforming", "any"}
          /\ conv.name = "cx_resp_openai" => style \in {"conforming", "single"}
          /\ conv.from = "responses" => ids \in RespToClaude!IdStyle
      BY <2>1, ConverterIs DEF Init
    <2>3. CValid(<< >>) /\ RValid(UpIndexes, << >>) /\ VRType(RView(<< >>))
      BY CValidEmpty, RValidEmpty, VRTypeNew
    <2> QED BY <2>1, <2>2, <2>3 DEF SentInv
  <1>2. SentInv /\ [Next]_vars => SentInv'
    <2> SUFFICES ASSUME SentInv, [Next]_vars PROVE SentInv'
      OBVIOUS
    <2>1. CASE sent' = sent /\ conv' = conv /\ style' = style /\ ids' = ids
      BY <2>1 DEF SentInv
    <2>2. CASE ConvertEvent
      <3>1. conv' = conv /\ style' = style /\ ids' = ids
        BY <2>2, Zenon DEF ConvertEvent
      <3>2. CASE conv.from = "chat"
        BY <3>1, <3>2 DEF SentInv
      <3>3. CASE conv.from = "claude"
        <4>1. SendsClaudeEvent
          BY <2>2, <3>3 DEF ConvertEvent
        <4>2. CValid(sent')
          BY <3>3, <4>1, ClaudeStep DEF SentInv
        <4> QED BY <3>1, <3>3, <4>2 DEF SentInv
      <3>4. CASE conv.from = "responses"
        <4>1. SendsResponsesEvent
          BY <2>2, <3>4 DEF ConvertEvent
        <4>2. RValid(UpIndexes, sent') /\ VRType(RView(sent'))
          BY <3>4, <4>1, RespStep DEF SentInv
        <4> QED BY <3>1, <3>4, <4>2 DEF SentInv, UpIndexes
      <3> QED BY <3>2, <3>3, <3>4, ConverterIs DEF SentInv
    <2>3. CASE ConvertDone
      BY <2>1, <2>3, Zenon DEF ConvertDone
    <2>4. CASE EndStream
      BY <2>1, <2>4, Zenon DEF EndStream
    <2>5. CASE Deliver
      BY <2>1, <2>5, Zenon DEF Deliver
    <2>6. CASE UNCHANGED vars
      BY <2>1, <2>6 DEF vars
    <2> QED BY <2>2, <2>3, <2>4, <2>5, <2>6, Zenon DEF Next
  <1> QED BY <1>1, <1>2, PTL DEF Spec

-----------------------------------------------------------------------------
(* Converters for a chat client.                                           *)

ChatTypes == {"role", "content", "tool", "args", "finish", "done"}

ChatEvent == [type : ChatTypes, index : Nat]

ChatEv(type, index) == [type |-> type, index |-> index]

DownIndexes == 0..(MaxIndex + MaxEvents)

HHas(es, type) == \E i \in 1..Len(es) : es[i].type = type

HAnnounced(es) == {es[i].index : i \in {j \in 1..Len(es) : es[j].type = "tool"}}

HRunning(es) == ~HHas(es, "finish") /\ ~HHas(es, "done")

ChatMay(es, e) ==
    \/ HRunning(es) /\ ~HHas(es, "role") /\ ~HHas(es, "content") /\ e = ChatEv("role", 0)
    \/ HRunning(es) /\ \E x \in DownIndexes : e = ChatEv("content", x)
    \/ HRunning(es) /\ \E x \in DownIndexes \ HAnnounced(es) : e = ChatEv("tool", x)
    \/ HRunning(es) /\ \E x \in HAnnounced(es) : e = ChatEv("args", x)
    \/ HRunning(es) /\ \E x \in {0, 1} : e = ChatEv("finish", x)
    \/ ~HHas(es, "done") /\ e = ChatEv("done", 0)

HValid(es) == es \in Seq(ChatEvent) /\ \A k \in Nat : k < Len(es)
    => ChatMay(SubSeq(es, 1, k), es[k + 1])

\* What one more chat event changes in a stream.
LEMMA HAppend ==
    ASSUME NEW es \in Seq(ChatEvent), NEW e \in ChatEvent
    PROVE  /\ \A t : HHas(Append(es, e), t) <=> HHas(es, t) \/ e.type = t
           /\ HAnnounced(Append(es, e)) = IF e.type = "tool"
                THEN HAnnounced(es) \cup {e.index} ELSE HAnnounced(es)
  <1> DEFINE fs == Append(es, e)
             n == Len(es) + 1
  <1>1. Len(fs) = n /\ fs[n] = e /\ Len(es) \in Nat /\ \A i \in 1..Len(es) : fs[i] = es[i]
      OBVIOUS
  <1>2. 1..n = 1..Len(es) \cup {n} /\ n \notin 1..Len(es)
      BY <1>1
  <1> HIDE DEF fs
  <1>3. \A t : HHas(fs, t) <=> HHas(es, t) \/ e.type = t
      BY <1>1, <1>2 DEF HHas
  <1>4. HAnnounced(fs) = IF e.type = "tool" THEN HAnnounced(es) \cup {e.index}
          ELSE HAnnounced(es)
      BY <1>1, <1>2 DEF HAnnounced
  <1> QED BY <1>3, <1>4 DEF fs

\* Tool calls are announced by a natural.
LEMMA HAnnouncedTyped ==
    ASSUME NEW es \in Seq(ChatEvent)
    PROVE  HAnnounced(es) \subseteq Nat
  <1>1. \A i \in 1..Len(es) : es[i] \in ChatEvent
      OBVIOUS
  <1>2. \A i \in 1..Len(es) : es[i].index \in Nat
      BY <1>1 DEF ChatEvent
  <1> QED BY <1>2 DEF HAnnounced

\* A chat stream extended by an event it may send.
LEMMA HExtend ==
    ASSUME NEW es, HValid(es), NEW e, ChatMay(es, e)
    PROVE  HValid(Append(es, e)) /\ e \in ChatEvent
  <1>1. es \in Seq(ChatEvent) /\ Len(es) \in Nat
      BY DEF HValid
  <1>2. e \in ChatEvent
    <2>1. \A t \in ChatTypes, x \in Nat : ChatEv(t, x) \in ChatEvent
      BY DEF ChatEv, ChatEvent
    <2>2. DownIndexes \subseteq Nat /\ HAnnounced(es) \subseteq Nat /\ {0, 1} \subseteq Nat
      BY <1>1, HAnnouncedTyped DEF DownIndexes
    <2>3. {"role", "content", "tool", "args", "finish", "done"} \subseteq ChatTypes
      BY DEF ChatTypes
    <2> QED BY <2>1, <2>2, <2>3 DEF ChatMay
  <1>3. Append(es, e) \in Seq(ChatEvent)
      BY <1>1, <1>2
  <1>4. ASSUME NEW k \in Nat, k < Len(Append(es, e))
        PROVE  ChatMay(SubSeq(Append(es, e), 1, k), Append(es, e)[k + 1])
    <2>1. CASE k < Len(es)
      <3>1. SubSeq(Append(es, e), 1, k) = SubSeq(es, 1, k) /\ Append(es, e)[k + 1] = es[k + 1]
        BY <1>1, <1>2, <2>1
      <3> QED BY <2>1, <3>1 DEF HValid
    <2>2. CASE k = Len(es)
      <3>1. SubSeq(Append(es, e), 1, k) = es /\ Append(es, e)[k + 1] = e
        BY <1>1, <1>2, <2>2
      <3> QED BY <3>1
    <2> QED BY <1>1, <1>2, <1>4, <2>1, <2>2
  <1> QED BY <1>2, <1>3, <1>4 DEF HValid

\* The next event of a chat stream is one the client may be sent.
LEMMA HDeliver ==
    ASSUME NEW d \in Seq(ChatEvent), NEW w \in Seq(ChatEvent), w # << >>, HValid(d \o w)
    PROVE  ChatMay(d, w[1])
  <1>1. Len(d) \in Nat /\ Len(d) < Len(d \o w) /\ (d \o w)[Len(d) + 1] = w[1]
      OBVIOUS
  <1>2. SubSeq(d \o w, 1, Len(d)) = d
      OBVIOUS
  <1> QED BY <1>1, <1>2 DEF HValid

\* The events of one call after those delivered.
LEMMA OneMore ==
    ASSUME NEW E, NEW d \in Seq(E)
    PROVE  /\ d \o << >> = d
           /\ \A e \in E : <<e>> \in Seq(E) /\ d \o <<e>> = Append(d, e)
           /\ \A e, f \in E : <<e, f>> \in Seq(E) /\ d \o <<e, f>> = Append(Append(d, e), f)
  OBVIOUS

\* Claude events as chat events.
LEMMA ClaudeChat ==
    ASSUME NEW c, NEW e \in ClaudeEvent
    PROVE  OpenAI!claude_stream_to_openai(c, e).out =
             IF e.type = "content_block_delta" /\ e.kind = "text"
                 THEN <<ChatEv("content", 0)>>
             ELSE IF e.type = "message_delta" /\ e.kind = "stop" THEN <<ChatEv("finish", 0)>>
             ELSE IF e.type = "message_stop" THEN <<ChatEv("done", 0)>> ELSE << >>
  <1> DEFINE r == [ctx |-> c, out |-> << >>]
  <1>1. r.out = << >> /\ \A x : OpenAI!emit(r, x).out = <<x>>
      BY DEF OpenAI!emit
  <1>2. \A t, x : OpenAI!chat(t, x) = ChatEv(t, x)
      BY DEF OpenAI!chat, ChatEv
  <1>3. [r EXCEPT !.ctx.message_id = TRUE].out = << >>
      OBVIOUS
  <1>4. OpenAI!claude_stream_to_openai(c, e) =
    CASE e.type = "message_start" -> [r EXCEPT !.ctx.message_id = TRUE]
      [] e.type = "content_block_delta"
          /\ e.kind = "text" -> OpenAI!emit(r, OpenAI!chat("content", 0))
      [] e.type = "message_delta"
          /\ e.kind = "stop" -> OpenAI!emit(r, OpenAI!chat("finish", 0))
      [] e.type = "message_stop" -> OpenAI!emit(r, OpenAI!chat("done", 0))
      [] OTHER -> r
      BY Zenon DEF OpenAI!claude_stream_to_openai
  <1> HIDE DEF r
  <1> QED BY <1>1, <1>2, <1>3, <1>4

\* What of the chat log the events sent account for.
ClaudeChatInv(log, up) ==
    /\ HValid(log)
    /\ HHas(log, "finish") => CReason(up)
    /\ HHas(log, "done") => CHas(up, "message_stop")

\* claude_stream_to_openai: the chat client's stream stays one of its
\* protocol.
LEMMA ClaudeChatStep ==
    ASSUME NEW up, CValid(up), NEW d, ClaudeChatInv(d, up), NEW c, NEW e \in ClaudeEvent,
           ~CView(up).stopped, e.kind = "stop" => ~CView(up).reason,
           CView(up).reason => e.type \in {"message_delta", "message_stop"}
    PROVE  LET out == OpenAI!claude_stream_to_openai(c, e).out IN
           out \in Seq(ChatEvent) /\ ClaudeChatInv(d \o out, Append(up, e))
  <1> DEFINE out == OpenAI!claude_stream_to_openai(c, e).out
             us == Append(up, e)
  <1>1. up \in Seq(ClaudeEvent) /\ d \in Seq(ChatEvent)
      BY DEF CValid, CShape, ClaudeChatInv, HValid
  <1>2. /\ \A t : CHas(us, t) <=> CHas(up, t) \/ e.type = t
        /\ CReason(us) <=> CReason(up) \/ e.kind = "stop"
      BY <1>1, CAppend
  <1>3. CView(up).stopped = CHas(up, "message_stop") /\ CView(up).reason = CReason(up)
      BY DEF CView
  <1>4. ~CHas(up, "message_stop") /\ ~HHas(d, "done")
      BY <1>3 DEF ClaudeChatInv
  <1>5. \A t \in ChatTypes : ChatEv(t, 0) \in ChatEvent /\ ChatEv(t, 0).type = t
      BY DEF ChatEv, ChatEvent
  <1>6. \A f \in ChatEvent : <<f>> \in Seq(ChatEvent) /\ d \o <<f>> = Append(d, f)
      BY <1>1, OneMore
  <1>7. \A f \in ChatEvent : ChatMay(d, f)
          => HValid(Append(d, f)) /\ \A t : HHas(Append(d, f), t) <=> HHas(d, t) \/ f.type = t
      BY <1>1, HExtend, HAppend DEF ClaudeChatInv
  <1>8. {"content", "finish", "done"} \subseteq ChatTypes /\ 0 \in DownIndexes
      BY TransformerAssumption DEF ChatTypes, DownIndexes
  <1> SUFFICES out \in Seq(ChatEvent) /\ ClaudeChatInv(d \o out, us)
      BY Zenon
  <1> HIDE DEF us, out
  <1>9. CASE e.type = "content_block_delta" /\ e.kind = "text"
    <2>1. ~CReason(up) /\ ~HHas(d, "finish")
      BY <1>3, <1>9 DEF ClaudeChatInv
    <2>2. ChatMay(d, ChatEv("content", 0))
      BY <1>4, <1>8, <2>1 DEF ChatMay, HRunning
    <2>4. HValid(Append(d, ChatEv("content", 0)))
            /\ \A t : HHas(Append(d, ChatEv("content", 0)), t) <=> HHas(d, t) \/ t = "content"
      BY <1>5, <1>7, <1>8, <2>2
    <2>3. out = <<ChatEv("content", 0)>>
      BY <1>9, ClaudeChat DEF out
    <2>5. out \in Seq(ChatEvent) /\ d \o out = Append(d, ChatEv("content", 0))
      BY <1>5, <1>6, <1>8, <2>3
    <2> HIDE DEF ChatEv
    <2> QED BY <1>2, <1>4, <2>1, <2>4, <2>5 DEF ClaudeChatInv
  <1>10. CASE e.type = "message_delta" /\ e.kind = "stop"
    <2>1. ~CReason(up) /\ ~HHas(d, "finish")
      BY <1>3, <1>10 DEF ClaudeChatInv
    <2>2. ChatMay(d, ChatEv("finish", 0))
      BY <1>4, <2>1 DEF ChatMay, HRunning
    <2>4. HValid(Append(d, ChatEv("finish", 0)))
            /\ \A t : HHas(Append(d, ChatEv("finish", 0)), t) <=> HHas(d, t) \/ t = "finish"
      BY <1>5, <1>7, <1>8, <2>2
    <2>3. out = <<ChatEv("finish", 0)>>
      BY <1>10, ClaudeChat DEF out
    <2>5. out \in Seq(ChatEvent) /\ d \o out = Append(d, ChatEv("finish", 0))
      BY <1>5, <1>6, <1>8, <2>3
    <2> HIDE DEF ChatEv
    <2> QED BY <1>2, <1>4, <1>10, <2>4, <2>5 DEF ClaudeChatInv
  <1>11. CASE e.type = "message_stop"
    <2>2. ChatMay(d, ChatEv("done", 0))
      BY <1>4 DEF ChatMay, HRunning
    <2>4. HValid(Append(d, ChatEv("done", 0))) /\ \A t : HHas(Append(d, ChatEv("done", 0)), t)
            <=> HHas(d, t) \/ t = "done"
      BY <1>5, <1>7, <1>8, <2>2
    <2>3. out = <<ChatEv("done", 0)>>
      BY <1>11, ClaudeChat DEF out
    <2>5. out \in Seq(ChatEvent) /\ d \o out = Append(d, ChatEv("done", 0))
      BY <1>5, <1>6, <1>8, <2>3
    <2> HIDE DEF ChatEv
    <2> QED BY <1>2, <1>4, <1>11, <2>4, <2>5 DEF ClaudeChatInv
  <1>12. CASE ~(e.type = "content_block_delta" /\ e.kind = "text")
           /\ ~(e.type = "message_delta" /\ e.kind = "stop")
               /\ e.type # "message_stop"
    <2>1. out = << >>
      BY <1>12, ClaudeChat DEF out
    <2>2. d \o out = d /\ out \in Seq(ChatEvent)
      BY <1>1, <2>1, OneMore
    <2> QED BY <1>2, <2>2 DEF ClaudeChatInv, out, us
  <1> QED BY <1>9, <1>10, <1>11, <1>12

OpenCtx == [message_id : BOOLEAN, message_start_sent : BOOLEAN, finish_reason_sent : BOOLEAN,
            content_block_started : BOOLEAN, content_index : Nat,
            tool_block_started : BOOLEAN, tool_index : Nat,
            current_tool_id : BOOLEAN, tool_arguments : Nat]

\* A new context of the converters between the OpenAI protocols.
LEMMA OpenNew == OpenAI!NewContext \in OpenCtx /\ ~OpenAI!NewContext.message_start_sent
  BY DEF OpenAI!NewContext, OpenCtx

\* Responses events as chat events.
RespChatOut(c, e) ==
    IF e.type = "text_delta"
          THEN IF c.message_start_sent THEN <<ChatEv("content", e.index)>>
               ELSE <<ChatEv("role", 0), ChatEv("content", e.index)>>
        ELSE IF e.type = "item_added" /\ e.kind = "function_call"
            THEN <<ChatEv("tool", e.index)>>
        ELSE IF e.type = "args_delta" THEN <<ChatEv("args", e.index)>>
        ELSE IF e.type = "completed"
            THEN <<ChatEv("finish", IF c.current_tool_id THEN 1 ELSE 0)>>
        ELSE IF e.type = "done" THEN <<ChatEv("done", 0)>> ELSE << >>

\* Appending to a sequence of one.
LEMMA AppendPair ==
    ASSUME NEW E, NEW a \in E, NEW b \in E
    PROVE  Append(<<a>>, b) = <<a, b>>
  <1>1. <<a>> \in Seq(E) /\ Len(<<a>>) = 1 /\ <<a>>[1] = a
    OBVIOUS
  <1>2. Append(<<a>>, b) \in Seq(E) /\ Len(Append(<<a>>, b)) = 2 /\ Append(<<a>>, b)[1] = a
          /\ Append(<<a>>, b)[2] = b
    BY <1>1
  <1>3. <<a, b>> \in Seq(E) /\ Len(<<a, b>>) = 2 /\ <<a, b>>[1] = a /\ <<a, b>>[2] = b
    OBVIOUS
  <1> DEFINE s == Append(<<a>>, b)
             t == <<a, b>>
  <1> HIDE DEF s, t
  <1>4. \A i \in 1..2 : s[i] = t[i]
    BY <1>2, <1>3 DEF s, t
  <1>5. s = [i \in 1..2 |-> s[i]] /\ t = [i \in 1..2 |-> t[i]]
    BY <1>2, <1>3 DEF s, t
  <1> QED BY <1>4, <1>5 DEF s, t

\* openai_responses_stream_to_chat, event type by event type.
LEMMA RespChat ==
    ASSUME NEW c \in OpenCtx, NEW e \in RespEvent
    PROVE  /\ OpenAI!openai_responses_stream_to_chat(c, e).ctx \in OpenCtx
           /\ e.type = "text_delta"
                => OpenAI!openai_responses_stream_to_chat(c, e).ctx.message_start_sent = TRUE
           /\ e.type # "text_delta"
                => OpenAI!openai_responses_stream_to_chat(c, e).ctx.message_start_sent
                = c.message_start_sent
           /\ OpenAI!openai_responses_stream_to_chat(c, e).out = RespChatOut(c, e)
  <1> DEFINE r == [ctx |-> c, out |-> << >>]
             rr == OpenAI!openai_responses_stream_to_chat(c, e)
  <1>1. \A t, x : OpenAI!chat(t, x) = ChatEv(t, x)
      BY DEF OpenAI!chat, ChatEv
  <1>0. \A x : OpenAI!emit(r, x).ctx = c /\ OpenAI!emit(r, x).out = <<x>>
      BY DEF OpenAI!emit
  <1>2. rr =
      CASE e.type = "created" -> [r EXCEPT !.ctx.message_id = TRUE]
         [] e.type = "text_delta" -> OpenAI!emit(OpenAI!role_if_needed(r),
                                                 OpenAI!chat("content", e.index))
         [] e.type = "item_added" /\ e.kind = "function_call" ->
               [OpenAI!emit(r, OpenAI!chat("tool", e.index))
                  EXCEPT !.ctx.current_tool_id = TRUE, !.ctx.tool_index = e.index]
         [] e.type = "args_delta" ->
               [OpenAI!emit(r, OpenAI!chat("args", e.index)) EXCEPT !.ctx.tool_arguments
                   = @ + 1]
         [] e.type = "completed" -> OpenAI!emit(r, OpenAI!chat("finish", IF c.current_tool_id THEN 1 ELSE 0))
         [] e.type = "done" -> OpenAI!emit(r, OpenAI!chat("done", 0))
         [] OTHER -> r
      BY Zenon DEF OpenAI!openai_responses_stream_to_chat
  <1>3. e.index \in Nat /\ e.type \in RespTypes
      BY DEF RespEvent
  <1> SUFFICES /\ rr.ctx \in OpenCtx
               /\ e.type = "text_delta" => rr.ctx.message_start_sent = TRUE
               /\ e.type # "text_delta" => rr.ctx.message_start_sent = c.message_start_sent
               /\ rr.out = RespChatOut(c, e)
      BY Zenon
  <1> HIDE DEF rr
  <1>4. CASE e.type = "created"
    <2>1. rr = [r EXCEPT !.ctx.message_id = TRUE]
      BY <1>2, <1>4
    <2>2. rr.ctx = [c EXCEPT !.message_id = TRUE] /\ rr.out = << >>
      BY <2>1
    <2>3. RespChatOut(c, e) = << >>
      BY <1>4 DEF RespChatOut
    <2> QED BY <1>4, <2>2, <2>3 DEF OpenCtx
  <1>5. CASE e.type = "text_delta"
    <2> DEFINE x == ChatEv("content", e.index)
    <2>1. rr = OpenAI!emit(OpenAI!role_if_needed(r), x)
      BY <1>1, <1>2, <1>5
    <2>2. CASE c.message_start_sent
      <3>0. OpenAI!role_if_needed(r) = r
        BY <2>2 DEF OpenAI!role_if_needed
      <3> HIDE DEF x
      <3>1. rr.ctx = c /\ rr.out = <<x>>
        BY <1>0, <2>1, <3>0, Zenon
      <3>2. RespChatOut(c, e) = <<x>>
        BY <1>5, <2>2 DEF RespChatOut, x
      <3>3. c.message_start_sent = TRUE
        BY <2>2 DEF OpenCtx
      <3> QED BY <1>5, <3>1, <3>2, <3>3
    <2>3. CASE ~c.message_start_sent
      <3> DEFINE s == [OpenAI!emit(r, ChatEv("role", 0)) EXCEPT !.ctx.message_start_sent
            = TRUE]
      <3>1. rr = OpenAI!emit(s, x)
        BY <1>1, <2>1, <2>3 DEF OpenAI!role_if_needed
      <3> HIDE DEF x
      <3>2. s.ctx = [c EXCEPT !.message_start_sent = TRUE] /\ s.out = <<ChatEv("role", 0)>>
        BY DEF OpenAI!emit
      <3>3. rr.ctx = s.ctx /\ rr.out = Append(s.out, x)
        BY <3>1 DEF OpenAI!emit
      <3> HIDE DEF s
      <3>6. Append(<<ChatEv("role", 0)>>, x) = <<ChatEv("role", 0), x>>
        <4>1. x \in ChatEvent /\ ChatEv("role", 0) \in ChatEvent
          BY <1>3 DEF ChatEv, ChatEvent, ChatTypes, x
        <4> QED BY <4>1, AppendPair
      <3>4. rr.ctx = [c EXCEPT !.message_start_sent = TRUE]
              /\ rr.out = <<ChatEv("role", 0), x>>
        BY <3>2, <3>3, <3>6, Zenon
      <3>7. RespChatOut(c, e) = <<ChatEv("role", 0), x>>
        BY <1>5, <2>3 DEF RespChatOut, x
      <3>5. rr.ctx \in OpenCtx /\ rr.ctx.message_start_sent = TRUE
        BY <3>4 DEF OpenCtx
      <3> QED BY <1>5, <3>4, <3>5, <3>7
    <2> QED BY <2>2, <2>3
  <1>6. CASE e.type = "item_added" /\ e.kind = "function_call"
    <2>1. rr = [OpenAI!emit(r, ChatEv("tool", e.index)) EXCEPT !.ctx.current_tool_id = TRUE,
                !.ctx.tool_index = e.index]
      BY <1>1, <1>2, <1>6
    <2>2. rr.ctx = [c EXCEPT !.current_tool_id = TRUE, !.tool_index = e.index]
            /\ rr.out = <<ChatEv("tool", e.index)>>
      BY <2>1 DEF OpenAI!emit
    <2>3. RespChatOut(c, e) = <<ChatEv("tool", e.index)>>
      BY <1>6 DEF RespChatOut
    <2>4. rr.ctx \in OpenCtx /\ rr.ctx.message_start_sent = c.message_start_sent
      BY <1>3, <2>2 DEF OpenCtx
    <2> QED BY <1>6, <2>2, <2>3, <2>4
  <1>7. CASE e.type = "args_delta"
    <2>1. rr = [OpenAI!emit(r, ChatEv("args", e.index)) EXCEPT !.ctx.tool_arguments = @ + 1]
      BY <1>1, <1>2, <1>7
    <2>2. rr.ctx = [c EXCEPT !.tool_arguments = c.tool_arguments + 1]
            /\ rr.out = <<ChatEv("args", e.index)>>
      BY <2>1 DEF OpenAI!emit, OpenCtx
    <2>3. RespChatOut(c, e) = <<ChatEv("args", e.index)>>
      BY <1>7 DEF RespChatOut
    <2>4. rr.ctx \in OpenCtx /\ rr.ctx.message_start_sent = c.message_start_sent
      BY <1>3, <2>2 DEF OpenCtx
    <2> QED BY <1>7, <2>2, <2>3, <2>4
  <1>8. CASE e.type = "completed"
    <2>1. rr = OpenAI!emit(r, ChatEv("finish", IF c.current_tool_id THEN 1 ELSE 0))
      BY <1>1, <1>2, <1>8
    <2>2. rr.ctx = c /\ rr.out = <<ChatEv("finish", IF c.current_tool_id THEN 1 ELSE 0)>>
      BY <2>1 DEF OpenAI!emit
    <2>3. RespChatOut(c, e) = <<ChatEv("finish", IF c.current_tool_id THEN 1 ELSE 0)>>
      BY <1>8 DEF RespChatOut
    <2>4. rr.ctx \in OpenCtx /\ rr.ctx.message_start_sent = c.message_start_sent
      BY <1>3, <2>2 DEF OpenCtx
    <2> QED BY <1>8, <2>2, <2>3, <2>4
  <1>9. CASE e.type = "done"
    <2>1. rr = OpenAI!emit(r, ChatEv("done", 0))
      BY <1>1, <1>2, <1>9
    <2>2. rr.ctx = c /\ rr.out = <<ChatEv("done", 0)>>
      BY <2>1 DEF OpenAI!emit
    <2>3. RespChatOut(c, e) = <<ChatEv("done", 0)>>
      BY <1>9 DEF RespChatOut
    <2>4. rr.ctx \in OpenCtx /\ rr.ctx.message_start_sent = c.message_start_sent
      BY <1>3, <2>2 DEF OpenCtx
    <2> QED BY <1>9, <2>2, <2>3, <2>4
  <1>10. CASE e.type \notin {"created", "text_delta", "args_delta", "completed", "done"}
           /\ ~(e.type = "item_added" /\ e.kind = "function_call")
    <2>1. rr = r
      BY <1>2, <1>10
    <2>2. RespChatOut(c, e) = << >>
      BY <1>10 DEF RespChatOut
    <2> QED BY <1>10, <2>1, <2>2
  <1> QED BY <1>4, <1>5, <1>6, <1>7, <1>8, <1>9, <1>10

RespChatInv(log, v, c) ==
    /\ HValid(log) /\ c \in OpenCtx
    /\ HHas(log, "finish") => v.ended
    /\ HHas(log, "done") => v.finished
    /\ ~c.message_start_sent => ~HHas(log, "role") /\ ~HHas(log, "content")
    /\ \A x \in HAnnounced(log) : x < v.next
    /\ v.kind = "function_call" => v.next - 1 \in HAnnounced(log)
    /\ v.next <= MaxIndex + 1

\* openai_responses_stream_to_chat: the chat client's stream stays one of its
\* protocol.
LEMMA RespChatStep ==
    ASSUME NEW v, VRType(v), NEW d, NEW c, RespChatInv(d, v, c), NEW e \in RespEvent,
           VRMay(UpIndexes, v, e)
    PROVE  LET r == OpenAI!openai_responses_stream_to_chat(c, e) IN
           r.out \in Seq(ChatEvent) /\ RespChatInv(d \o r.out, VRAfter(v, e), r.ctx)
  <1> DEFINE r == OpenAI!openai_responses_stream_to_chat(c, e)
             w == VRAfter(v, e)
  <1>0. MaxIndex \in Nat /\ MaxEvents \in Nat
      BY TransformerAssumption
  <1>1. d \in Seq(ChatEvent) /\ HValid(d) /\ c \in OpenCtx
      BY DEF RespChatInv, HValid
  <1>2. /\ r.ctx \in OpenCtx
        /\ e.type = "text_delta" => r.ctx.message_start_sent = TRUE
        /\ e.type # "text_delta" => r.ctx.message_start_sent = c.message_start_sent
        /\ r.out = IF e.type = "text_delta"
                        THEN IF c.message_start_sent THEN <<ChatEv("content", e.index)>>
                             ELSE <<ChatEv("role", 0), ChatEv("content", e.index)>>
                      ELSE IF e.type = "item_added" /\ e.kind = "function_call"
                          THEN <<ChatEv("tool", e.index)>>
                      ELSE IF e.type = "args_delta" THEN <<ChatEv("args", e.index)>>
                      ELSE IF e.type = "completed"
                          THEN <<ChatEv("finish", IF c.current_tool_id THEN 1 ELSE 0)>>
                      ELSE IF e.type = "done" THEN <<ChatEv("done", 0)>> ELSE << >>
    <2>1. /\ r.ctx \in OpenCtx
          /\ e.type = "text_delta" => r.ctx.message_start_sent = TRUE
          /\ e.type # "text_delta" => r.ctx.message_start_sent = c.message_start_sent
          /\ r.out = RespChatOut(c, e)
      BY <1>1, RespChat
    <2> HIDE DEF r
    <2> QED BY <2>1, Zenon DEF RespChatOut
  <1>3. /\ w.ended = (v.ended \/ e.type \in {"completed", "failed"})
        /\ w.finished = (v.finished \/ e.type = "done")
        /\ w.next = (IF e.type = "item_added" THEN e.index + 1 ELSE v.next)
        /\ w.kind = (IF e.type = "item_added" THEN e.kind ELSE IF e.type = "item_done"
                     THEN "none" ELSE v.kind)
      BY DEF VRAfter
  <1>4. /\ e.type = "item_added"
             => v.kind = "none" /\ ~v.ended /\ e.index \in UpIndexes /\ v.next <= e.index
             /\ e.kind \in ItemKinds
        /\ e.type = "text_delta" => v.kind # "none" /\ e.index = v.next - 1
        /\ e.type = "args_delta" => v.kind = "function_call" /\ e.index = v.next - 1
        /\ e.type = "completed" => ~v.ended
        /\ e.type = "done" => ~v.finished
      BY DEF VRMay, RespEv, VRType
  <1>5. e.index \in Nat /\ v.next \in Nat /\ v.next <= MaxIndex + 1
          /\ (v.kind # "none" => v.next > 0 /\ ~v.ended /\ ~v.finished)
        /\ (~v.ended => ~v.finished)
      BY DEF RespEvent, VRType, RespChatInv
  <1>6. \A t \in ChatTypes, x \in Nat : ChatEv(t, x) \in ChatEvent /\ ChatEv(t, x).type = t
          /\ ChatEv(t, x).index = x
      BY DEF ChatEv, ChatEvent
  <1>7. \A f \in ChatEvent : <<f>> \in Seq(ChatEvent) /\ d \o <<f>> = Append(d, f)
      BY <1>1, OneMore
  <1>8. \A f \in ChatEvent : ChatMay(d, f) => /\ HValid(Append(d, f))
                                                   /\ \A t : HHas(Append(d, f), t)
                                                   <=> HHas(d, t) \/ f.type = t
                                              /\ HAnnounced(Append(d, f)) = IF f.type = "tool"
                                                   THEN HAnnounced(d) \cup {f.index}
                                                   ELSE HAnnounced(d)
      BY <1>1, HExtend, HAppend
  <1>9. ChatTypes = {"role", "content", "tool", "args", "finish", "done"}
          /\ \A x \in Nat : x <= MaxIndex => x \in DownIndexes
      BY <1>0 DEF ChatTypes, DownIndexes
  <1>10. /\ HHas(d, "finish") => v.ended
         /\ HHas(d, "done") => v.finished
         /\ ~c.message_start_sent => ~HHas(d, "role") /\ ~HHas(d, "content")
         /\ \A x \in HAnnounced(d) : x < v.next
         /\ v.kind = "function_call" => v.next - 1 \in HAnnounced(d)
         /\ v.next <= MaxIndex + 1
      BY DEF RespChatInv
  <1>11. HAnnounced(d) \subseteq Nat
      BY <1>1, HAnnouncedTyped
  <1> SUFFICES r.out \in Seq(ChatEvent) /\ RespChatInv(d \o r.out, w, r.ctx)
      BY Zenon
  <1> HIDE DEF r, w, ChatEv
  <1>20. CASE e.type = "text_delta"
    <2> DEFINE x == ChatEv("content", e.index)
               y == ChatEv("role", 0)
    <2>1. ~HHas(d, "finish") /\ ~HHas(d, "done") /\ e.index \in DownIndexes
      BY <1>0, <1>4, <1>5, <1>9, <1>10, <1>20
    <2>2. x \in ChatEvent /\ x.type = "content" /\ y \in ChatEvent /\ y.type = "role"
      BY <1>5, <1>6, <1>9
    <2>3. CASE c.message_start_sent
      <3>1. ChatMay(d, x)
        BY <2>1 DEF ChatMay, HRunning
      <3>2. HValid(Append(d, x))
              /\ (\A t : HHas(Append(d, x), t) <=> HHas(d, t) \/ x.type = t)
              /\ HAnnounced(Append(d, x)) = HAnnounced(d)
        BY <1>8, <2>2, <3>1
      <3>3. r.out \in Seq(ChatEvent) /\ d \o r.out = Append(d, x)
        BY <1>2, <1>7, <1>20, <2>2, <2>3
      <3>4. r.ctx.message_start_sent
        BY <1>2, <1>20
      <3> HIDE DEF x
      <3> QED BY <1>2, <1>3, <1>10, <1>20, <2>2, <3>2, <3>3, <3>4 DEF RespChatInv
    <2>4. CASE ~c.message_start_sent
      <3> DEFINE q == Append(d, y)
      <3>1. ChatMay(d, y)
        BY <1>10, <2>1, <2>4 DEF ChatMay, HRunning
      <3>2. HValid(q) /\ (\A t : HHas(q, t) <=> HHas(d, t) \/ y.type = t)
              /\ HAnnounced(q) = HAnnounced(d) /\ q \in Seq(ChatEvent)
        BY <1>1, <1>8, <2>2, <3>1
      <3>3. r.out \in Seq(ChatEvent) /\ d \o r.out = Append(q, x)
        <4>1. <<y, x>> \in Seq(ChatEvent) /\ d \o <<y, x>> = Append(Append(d, y), x)
          BY <1>1, <2>2, OneMore
        <4> QED BY <1>2, <1>20, <2>4, <4>1
      <3>4. r.ctx.message_start_sent
        BY <1>2, <1>20
      <3> HIDE DEF q
      <3>5. ChatMay(q, x)
        BY <2>1, <2>2, <3>2 DEF ChatMay, HRunning
      <3> HIDE DEF x
      <3>6. HValid(Append(q, x))
              /\ (\A t : HHas(Append(q, x), t) <=> HHas(q, t) \/ x.type = t)
              /\ HAnnounced(Append(q, x)) = HAnnounced(q)
        BY <2>2, <3>2, <3>5, HExtend, HAppend
      <3> QED BY <1>2, <1>3, <1>10, <1>20, <2>2, <3>2, <3>3, <3>4, <3>6 DEF RespChatInv
    <2> QED BY <2>3, <2>4
  <1>21. CASE e.type = "item_added" /\ e.kind = "function_call"
    <2> DEFINE x == ChatEv("tool", e.index)
    <2>1. ~HHas(d, "finish") /\ ~HHas(d, "done") /\ e.index \in DownIndexes
            /\ e.index \notin HAnnounced(d) /\ e.index <= MaxIndex
      BY <1>0, <1>4, <1>5, <1>9, <1>10, <1>21 DEF UpIndexes
    <2>2. x \in ChatEvent /\ x.type = "tool" /\ x.index = e.index
      BY <1>5, <1>6, <1>9
    <2>3. ChatMay(d, x)
      BY <2>1 DEF ChatMay, HRunning
    <2>4. HValid(Append(d, x)) /\ (\A t : HHas(Append(d, x), t) <=> HHas(d, t) \/ x.type = t)
            /\ HAnnounced(Append(d, x)) = HAnnounced(d) \cup {e.index}
      BY <1>8, <2>2, <2>3
    <2>5. r.out \in Seq(ChatEvent) /\ d \o r.out = Append(d, x)
      BY <1>2, <1>7, <1>21, <2>2
    <2>6. r.ctx.message_start_sent = c.message_start_sent /\ w.next = e.index + 1
            /\ w.kind = "function_call"
      BY <1>2, <1>3, <1>21
    <2>7. \A y \in HAnnounced(d) \cup {e.index} : y < w.next
      BY <1>4, <1>5, <1>10, <1>11, <1>21, <2>6
    <2>8. w.next - 1 = e.index /\ w.next <= MaxIndex + 1
      BY <1>0, <1>5, <2>1, <2>6
    <2> HIDE DEF x
    <2> QED BY <1>2, <1>3, <1>10, <1>21, <2>1, <2>2, <2>4, <2>5, <2>6, <2>7,
          <2>8 DEF RespChatInv
  <1>22. CASE e.type = "args_delta"
    <2> DEFINE x == ChatEv("args", e.index)
    <2>1. ~HHas(d, "finish") /\ ~HHas(d, "done") /\ e.index \in HAnnounced(d)
      BY <1>0, <1>4, <1>5, <1>9, <1>10, <1>22
    <2>2. x \in ChatEvent /\ x.type = "args"
      BY <1>5, <1>6, <1>9
    <2>3. ChatMay(d, x)
      BY <2>1 DEF ChatMay, HRunning
    <2>4. HValid(Append(d, x)) /\ (\A t : HHas(Append(d, x), t) <=> HHas(d, t) \/ x.type = t)
            /\ HAnnounced(Append(d, x)) = HAnnounced(d)
      BY <1>8, <2>2, <2>3
    <2>5. r.out \in Seq(ChatEvent) /\ d \o r.out = Append(d, x)
      BY <1>2, <1>7, <1>22, <2>2
    <2>6. r.ctx.message_start_sent = c.message_start_sent
      BY <1>2, <1>22
    <2> HIDE DEF x
    <2> QED BY <1>2, <1>3, <1>10, <1>22, <2>1, <2>2, <2>4, <2>5, <2>6 DEF RespChatInv
  <1>23. CASE e.type = "completed"
    <2> DEFINE z == IF c.current_tool_id THEN 1 ELSE 0
               x == ChatEv("finish", z)
    <2>1. ~HHas(d, "finish") /\ ~HHas(d, "done") /\ z \in {0, 1}
      BY <1>4, <1>5, <1>10, <1>23
    <2>2. x \in ChatEvent /\ x.type = "finish"
      BY <1>6, <1>9, <2>1
    <2>3. ChatMay(d, x)
      BY <2>1 DEF ChatMay, HRunning
    <2>4. HValid(Append(d, x)) /\ (\A t : HHas(Append(d, x), t) <=> HHas(d, t) \/ x.type = t)
            /\ HAnnounced(Append(d, x)) = HAnnounced(d)
      BY <1>8, <2>2, <2>3
    <2>5. r.out \in Seq(ChatEvent) /\ d \o r.out = Append(d, x)
      BY <1>2, <1>7, <1>23, <2>2
    <2>6. r.ctx.message_start_sent = c.message_start_sent
      BY <1>2, <1>23
    <2> HIDE DEF x
    <2> QED BY <1>2, <1>3, <1>10, <1>23, <2>1, <2>2, <2>4, <2>5, <2>6 DEF RespChatInv
  <1>24. CASE e.type = "done"
    <2> DEFINE x == ChatEv("done", 0)
    <2>1. ~HHas(d, "done")
      BY <1>4, <1>10, <1>24
    <2>2. x \in ChatEvent /\ x.type = "done"
      BY <1>6, <1>9
    <2>3. ChatMay(d, x)
      BY <2>1 DEF ChatMay, HRunning
    <2>4. HValid(Append(d, x)) /\ (\A t : HHas(Append(d, x), t) <=> HHas(d, t) \/ x.type = t)
            /\ HAnnounced(Append(d, x)) = HAnnounced(d)
      BY <1>8, <2>2, <2>3
    <2>5. r.out \in Seq(ChatEvent) /\ d \o r.out = Append(d, x)
      BY <1>2, <1>7, <1>24, <2>2
    <2>6. r.ctx.message_start_sent = c.message_start_sent
      BY <1>2, <1>24
    <2> HIDE DEF x
    <2> QED BY <1>2, <1>3, <1>10, <1>24, <2>2, <2>4, <2>5, <2>6 DEF RespChatInv
  <1>25. CASE e.type \notin {"text_delta", "args_delta", "completed", "done"}
           /\ ~(e.type = "item_added" /\ e.kind = "function_call")
    <2>1. r.out = << >> /\ r.ctx.message_start_sent = c.message_start_sent
      BY <1>2, <1>25
    <2>2. d \o r.out = d /\ r.out \in Seq(ChatEvent)
      BY <1>1, <2>1, OneMore
    <2>3. /\ \A y \in HAnnounced(d) : y < w.next
          /\ w.kind = "function_call" => w.next - 1 \in HAnnounced(d)
          /\ w.next <= MaxIndex + 1
      <3>1. CASE e.type = "item_added"
        <4>1. w.next = e.index + 1 /\ w.kind # "function_call" /\ e.index <= MaxIndex
                /\ v.next <= e.index
          BY <1>0, <1>3, <1>4, <1>25, <3>1 DEF UpIndexes
        <4>2. \A y \in HAnnounced(d) : y < w.next
          BY <1>5, <1>10, <1>11, <4>1
        <4> QED BY <1>0, <1>5, <4>1, <4>2
      <3>2. CASE e.type # "item_added"
        BY <1>3, <1>10, <3>2
      <3> QED BY <3>1, <3>2
    <2> QED BY <1>1, <1>2, <1>3, <1>10, <2>1, <2>2, <2>3 DEF RespChatInv
  <1> QED BY <1>20, <1>21, <1>22, <1>23, <1>24, <1>25

Moves(d, w, d1, w1) == d1 = d \o SubSeq(w, 1, 1) /\ w1 = SubSeq(w, 1 + 1, Len(w))

\* Delivering one event moves it from the wire to the client.
LEMMA Moved ==
    ASSUME NEW E, NEW d \in Seq(E), NEW w \in Seq(E), w # << >>, NEW d1, NEW w1,
           Moves(d, w, d1, w1)
    PROVE  /\ d1 \in Seq(E) /\ w1 \in Seq(E) /\ d1 = Append(d, w[1]) /\ w[1] \in E
           /\ d1 \o w1 = d \o w
  <1> DEFINE h == SubSeq(w, 1, 1)
             b == SubSeq(w, 1 + 1, Len(w))
  <1>0. d1 = d \o h /\ w1 = b
      BY Zenon DEF Moves
  <1>1. Len(w) \in Nat /\ Len(w) > 0 /\ w[1] \in E
      OBVIOUS
  <1>2. \A i \in 1..Len(w) : w[i] \in E
      OBVIOUS
  <1>3. h \in Seq(E) /\ b \in Seq(E)
      BY <1>1, <1>2, SubSeqProperties
  <1>4. h = <<w[1]>>
    <2>1. h = SubSeq(w, 1, 1 - 1) \o <<w[1]>>
      BY <1>1, SubSeqRecursiveSecond
    <2>2. SubSeq(w, 1, 1 - 1) = << >>
      BY SubSeqEmpty
    <2>3. <<w[1]>> \in Seq(E)
      BY <1>1
    <2> HIDE DEF h
    <2> QED BY <2>1, <2>2, <2>3, ConcatEmptySeq
  <1>5. h \o b = w
    <2>1. h \o b = SubSeq(w, 1, Len(w))
      <3>1. 1 \in 1..(Len(w) + 1) /\ 1 \in (1 - 1)..Len(w) /\ Len(w) \in 1..Len(w)
        BY <1>1
      <3> QED BY <3>1, ConcatAdjacentSubSeq, Zenon
    <2> QED BY <2>1, SubSeqFull
  <1> HIDE DEF h, b
  <1>6. (d \o h) \o b = d \o w
    <2>1. (d \o h) \o b = d \o (h \o b)
      BY <1>3, ConcatAssociative
    <2> QED BY <1>5, <2>1
  <1>7. d \o h = Append(d, w[1]) /\ d \o h \in Seq(E)
      BY <1>1, <1>3, <1>4, AppendIsConcat
  <1> QED BY <1>0, <1>1, <1>3, <1>6, <1>7

ChatInv ==
    conv.client = "chat" =>
      /\ delivered \in Seq(ChatEvent) /\ wire \in Seq(ChatEvent)
      /\ conv.name = "cx_chat_claude" => ClaudeChatInv(delivered \o wire, sent)
      /\ conv.name = "cx_chat_openai2" => RespChatInv(delivered \o wire, RView(sent), ctx)

\* The chat client's invariant at the start of a stream.
LEMMA ChatInit == Init => ChatInv
  <1> SUFFICES ASSUME Init, conv.client = "chat" PROVE ChatInv
      BY DEF ChatInv
  <1>1. conv \in Converters /\ sent = << >> /\ wire = << >> /\ delivered = << >>
          /\ ctx = NewContext(conv)
      BY Zenon DEF Init
  <1>2. ctx = OpenAI!NewContext
      BY <1>1, ConverterIs DEF NewContext
  <1>3. << >> \in Seq(ChatEvent) /\ << >> \o << >> = << >>
      OBVIOUS
  <1>4. HValid(<< >>) /\ (\A t : ~HHas(<< >>, t)) /\ HAnnounced(<< >>) = {}
      BY DEF HValid, HHas, HAnnounced
  <1>5. ClaudeChatInv(<< >>, << >>)
      BY <1>4 DEF ClaudeChatInv
  <1>6. RespChatInv(<< >>, RView(<< >>), ctx)
    <2>1. RView(<< >>).next = 0 /\ RView(<< >>).kind = "none" /\ MaxIndex \in Nat
      BY RValidEmpty, TransformerAssumption DEF VRNew
    <2> QED BY <1>2, <1>4, <2>1, OpenNew DEF RespChatInv
  <1> QED BY <1>1, <1>3, <1>5, <1>6 DEF ChatInv

\* An event converted for a chat client keeps its invariant.
LEMMA ChatConverts ==
    ASSUME SentInv, ChatInv, conv.client = "chat", ConvertEvent
    PROVE  ChatInv'
  <1>1. /\ wire = << >> /\ conv' = conv /\ delivered' = delivered
        /\ ctx' = convert(conv.name, sent'[Len(sent')]).ctx
             /\ wire' = convert(conv.name, sent'[Len(sent')]).out
      BY Zenon DEF ConvertEvent, apply
  <1>2. conv \in Converters
      BY DEF SentInv
  <1>3. delivered \in Seq(ChatEvent) /\ delivered \o wire = delivered
      BY <1>1, OneMore DEF ChatInv
  <1>4. CASE conv.name = "cx_chat_claude"
    <2>1. conv.from = "claude" /\ conv.from # "chat" /\ conv.from # "responses"
            /\ CValid(sent)
      BY <1>2, <1>4, ConverterIs DEF SentInv
    <2>2. SendsClaudeEvent
      BY <2>1 DEF ConvertEvent
    <2>3. PICK e \in ClaudeEvent :
              /\ sent' = Append(sent, e) /\ sent'[Len(sent')] = e
              /\ ~CView(sent).stopped
              /\ e.kind = "stop" => ~CView(sent).reason
              /\ CView(sent).reason => e.type \in {"message_delta", "message_stop"}
      BY <2>1, <2>2, ClaudeStep
    <2>4. wire' = OpenAI!claude_stream_to_openai(ctx, e).out
      BY <1>1, <1>4, <2>3 DEF convert
    <2>5. ClaudeChatInv(delivered, sent)
      BY <1>3, <1>4 DEF ChatInv
    <2>6. wire' \in Seq(ChatEvent) /\ ClaudeChatInv(delivered \o wire', Append(sent, e))
      BY <2>1, <2>3, <2>4, <2>5, ClaudeChatStep
    <2>7. conv'.name = "cx_chat_claude"
      BY <1>1, <1>4
    <2> QED BY <1>1, <1>3, <2>3, <2>6, <2>7 DEF ChatInv
  <1>5. CASE conv.name = "cx_chat_openai2"
    <2>1. conv.from = "responses" /\ conv.from # "chat" /\ conv.from # "claude"
            /\ RValid(UpIndexes, sent) /\ VRType(RView(sent))
      BY <1>2, <1>5, ConverterIs DEF SentInv
    <2>2. SendsResponsesEvent
      BY <2>1 DEF ConvertEvent
    <2>3. PICK e \in RespEvent :
              /\ VRMay(UpIndexes, RView(sent), e) /\ sent'[Len(sent')] = e
              /\ RView(sent') = VRAfter(RView(sent), e)
      BY <2>1, <2>2, RespStep
    <2>4. wire' = OpenAI!openai_responses_stream_to_chat(ctx, e).out
            /\ ctx' = OpenAI!openai_responses_stream_to_chat(ctx, e).ctx
      BY <1>1, <1>5, <2>3 DEF convert
    <2>5. RespChatInv(delivered, RView(sent), ctx)
      BY <1>3, <1>5 DEF ChatInv
    <2>6. wire' \in Seq(ChatEvent)
            /\ RespChatInv(delivered \o wire', VRAfter(RView(sent), e), ctx')
      BY <2>1, <2>3, <2>4, <2>5, RespChatStep
    <2>7. conv'.name = "cx_chat_openai2"
      BY <1>1, <1>5
    <2>8. RespChatInv(delivered \o wire, RView(sent), ctx)'
      BY <1>1, <2>3, <2>6
    <2> QED BY <1>1, <1>3, <2>6, <2>7, <2>8 DEF ChatInv
  <1> QED BY <1>2, <1>4, <1>5, ConverterIs

\* Every step keeps the chat client's invariant.
LEMMA ChatInvNext == SentInv /\ ChatInv /\ [Next]_vars => ChatInv'
  <1> SUFFICES ASSUME SentInv, ChatInv, [Next]_vars PROVE ChatInv'
      OBVIOUS
  <1>0. conv' = conv
      BY Zenon DEF Next, vars, ConvertEvent, ConvertDone, EndStream, Deliver
  <1>1. CASE conv.client # "chat"
      BY <1>0, <1>1 DEF ChatInv
  <1>2. CASE conv.client = "chat"
    <2>0. conv.name \in {"cx_chat_claude", "cx_chat_openai2"} /\ conv.from # "chat"
            /\ style = "conforming" /\ style # "any"
      BY <1>2, ConverterIs DEF SentInv
    <2>1. CASE ConvertEvent
      BY <1>2, <2>1, ChatConverts
    <2>2. CASE ConvertDone
      BY <2>0, <2>2 DEF ConvertDone
    <2>3. CASE EndStream
      <3>1. wire = << >> /\ ctx' = finalize(conv.name).ctx /\ wire' = finalize(conv.name).out
              /\ sent' = sent /\ delivered' = delivered
        BY <2>3, Zenon DEF EndStream, apply
      <3>2. finalize(conv.name) = [ctx |-> ctx, out |-> << >>]
        BY <2>0 DEF finalize
      <3>3. ctx' = ctx /\ wire' = wire
        BY <3>1, <3>2
      <3> QED BY <1>0, <3>1, <3>3 DEF ChatInv
    <2>4. CASE Deliver
      <3>1. /\ wire # << >> /\ delivered' = delivered \o SubSeq(wire, 1, 1)
                 /\ wire' = SubSeq(wire, 1 + 1, Len(wire))
            /\ ctx' = ctx /\ sent' = sent
        BY <2>0, <2>4 DEF Deliver
      <3>2. delivered \in Seq(ChatEvent) /\ wire \in Seq(ChatEvent)
        BY <1>2 DEF ChatInv
      <3>3. delivered' \in Seq(ChatEvent) /\ wire' \in Seq(ChatEvent)
              /\ delivered' \o wire' = delivered \o wire
        <4>1. Moves(delivered, wire, delivered', wire')
          BY <3>1, Zenon DEF Moves
        <4>2. wire # << >>
          BY <3>1
        <4> QED BY <3>2, <4>1, <4>2, Moved
      <3> QED BY <1>0, <3>1, <3>3 DEF ChatInv
    <2>5. CASE UNCHANGED vars
      BY <2>5 DEF vars, ChatInv
    <2> QED BY <2>1, <2>2, <2>3, <2>4, <2>5, Zenon DEF Next
  <1> QED BY <1>1, <1>2

\* An event a chat stream may send is a step of the chat protocol.
LEMMA ChatDownStep ==
    ASSUME NEW e, ChatMay(received("chat", {"conforming"}), e),
           received("chat", {"conforming"})' = Append(received("chat", {"conforming"}), e)
    PROVE  ChatDown!Next
  <1> DEFINE log == received("chat", {"conforming"})
  <1> HIDE DEF log
  <1>1. /\ \A t : ChatDown!has(t) <=> HHas(log, t)
        /\ ChatDown!announced = HAnnounced(log)
        /\ ChatDown!running <=> HRunning(log)
      BY Zenon DEF ChatDown!has, HHas, ChatDown!announced, HAnnounced, ChatDown!running,
         HRunning, log
  <1>2. \A t, x : ChatDown!event(t, x) = ChatEv(t, x)
      BY DEF ChatDown!event, ChatEv
  <1>3. ChatDown!send(e)
      BY Zenon DEF ChatDown!send
  <1>4. ChatMay(log, e)
      BY Zenon DEF log
  <1>5. CASE HRunning(log) /\ ~HHas(log, "role") /\ ~HHas(log, "content")
          /\ e = ChatEv("role", 0)
      BY <1>1, <1>2, <1>3, <1>5, Zenon DEF ChatDown!Next, ChatDown!Role
  <1>6. CASE HRunning(log) /\ \E x \in DownIndexes : e = ChatEv("content", x)
      BY <1>1, <1>2, <1>3, <1>6, Zenon DEF ChatDown!Next, ChatDown!Content, DownIndexes
  <1>7. CASE HRunning(log) /\ \E x \in DownIndexes \ HAnnounced(log) : e = ChatEv("tool", x)
      BY <1>1, <1>2, <1>3, <1>7, Zenon DEF ChatDown!Next, ChatDown!Tool, DownIndexes
  <1>8. CASE HRunning(log) /\ \E x \in HAnnounced(log) : e = ChatEv("args", x)
      BY <1>1, <1>2, <1>3, <1>8, Zenon DEF ChatDown!Next, ChatDown!Args
  <1>9. CASE HRunning(log) /\ \E x \in {0, 1} : e = ChatEv("finish", x)
      BY <1>1, <1>2, <1>3, <1>9, Zenon DEF ChatDown!Next, ChatDown!Finish
  <1>10. CASE ~HHas(log, "done") /\ e = ChatEv("done", 0)
      BY <1>1, <1>2, <1>3, <1>10, Zenon DEF ChatDown!Next, ChatDown!Done
  <1> QED BY <1>4, <1>5, <1>6, <1>7, <1>8, <1>9, <1>10, Zenon DEF ChatMay

\* Every step delivers a step of the chat protocol, or nothing.
LEMMA ChatDelivers ==
    ASSUME SentInv, ChatInv, [Next]_vars
    PROVE  [ChatDown!Next]_(received("chat", {"conforming"}))
  <1> DEFINE log == received("chat", {"conforming"})
  <1>1. CASE ~(conv.client = "chat" /\ style = "conforming")
    <2>1. log = << >>
      BY <1>1 DEF received
    <2>2. conv' = conv /\ style' = style
      BY Zenon DEF Next, vars, ConvertEvent, ConvertDone, EndStream, Deliver
    <2>3. log' = << >>
      BY <1>1, <2>2 DEF received
    <2> QED BY <2>1, <2>3
  <1>2. CASE conv.client = "chat" /\ style = "conforming"
    <2>1. log = delivered
      BY <1>2 DEF received
    <2>2. conv' = conv /\ style' = style
      BY Zenon DEF Next, vars, ConvertEvent, ConvertDone, EndStream, Deliver
    <2>3. log' = delivered'
      BY <1>2, <2>2 DEF received
    <2>4. CASE delivered' = delivered
      BY <2>1, <2>3, <2>4
    <2>5. CASE Deliver
      <3>1. wire # << >> /\ Moves(delivered, wire, delivered', wire')
        BY <1>2, <2>5 DEF Deliver, Moves
      <3>2. delivered \in Seq(ChatEvent) /\ wire \in Seq(ChatEvent)
              /\ HValid(delivered \o wire)
        BY <1>2, ConverterIs DEF ChatInv, ClaudeChatInv, RespChatInv, SentInv
      <3>3. delivered' = Append(delivered, wire[1])
        BY <3>1, <3>2, Moved
      <3>4. ChatMay(delivered, wire[1])
        BY <3>1, <3>2, HDeliver
      <3> DEFINE e == wire[1]
      <3> HIDE DEF e
      <3>5. ChatMay(log, e) /\ log' = Append(log, e)
        BY <2>1, <2>3, <3>3, <3>4 DEF e
      <3> QED BY <3>5, ChatDownStep
    <2>6. CASE ConvertEvent
      BY <2>4, <2>6, Zenon DEF ConvertEvent
    <2>7. CASE ConvertDone
      BY <2>4, <2>7, Zenon DEF ConvertDone
    <2>8. CASE EndStream
      BY <2>4, <2>8, Zenon DEF EndStream
    <2>9. CASE UNCHANGED vars
      BY <2>4, <2>9 DEF vars
    <2> QED BY <2>5, <2>6, <2>7, <2>8, <2>9, Zenon DEF Next
  <1> QED BY <1>1, <1>2

\* What claude_stream_to_openai and openai_responses_stream_to_chat send to a
\* chat client, of an upstream that conforms, is a stream of the chat
\* protocol.
THEOREM ChatRefinement == Spec => ImplementsChatStream
  <1>1. Init => ChatDown!Init
    <2> SUFFICES ASSUME Init PROVE ChatDown!Init
      OBVIOUS
    <2>1. delivered = << >>
      BY Zenon DEF Init
    <2> QED BY <2>1 DEF ChatDown!Init, received
  <1>2. SentInv /\ ChatInv /\ [Next]_vars
          => [ChatDown!Next]_(received("chat", {"conforming"}))
      BY ChatDelivers
  <1>3. SentInv /\ ChatInv /\ [Next]_vars => ChatInv'
      BY ChatInvNext
  <1>4. Init => ChatInv
      BY ChatInit
  <1> QED BY <1>1, <1>2, <1>3, <1>4, SentIsInvariant, PTL DEF Spec, ImplementsChatStream,
        ChatDown!Spec

-----------------------------------------------------------------------------
(* A chat upstream and a Claude client: the inductive invariant.           *)

\* A chunk as it is sent, its tool calls numbered.
UpCall == [id : BOOLEAN, args : BOOLEAN, index : Nat]

UpChunk == [reasoning : BOOLEAN, text : BOOLEAN, finish : BOOLEAN, usage : BOOLEAN,
            tools : Seq(UpCall)]

\* The tool calls a chunk starts are at most those it carries.
LEMMA CallsInTyped ==
    ASSUME NEW E, NEW tools \in Seq(E)
    PROVE  callsIn(tools) \in Nat /\ callsIn(tools) <= Len(tools)
  <1>1. {i \in 1..Len(tools) : tools[i].id} \in SUBSET (1..Len(tools)) /\ Len(tools) \in Nat
      OBVIOUS
  <1> QED BY <1>1, CountStep DEF callsIn

\* A sequence of at most one element that is not empty.
LEMMA LenOne ==
    ASSUME NEW E, NEW s \in Seq(E), s # << >>, Len(s) <= 1
    PROVE  Len(s) = 1 /\ s[1] \in E
  <1>1. Len(s) \in Nat \ {0}
      BY EmptySeq, Zenon
  <1>2. Len(s) = 1
      BY <1>1
  <1> QED BY <1>2

\* The tool calls a chunk with at most one of them starts.
LEMMA CallsInOne ==
    ASSUME NEW E, NEW tools \in Seq(E), Len(tools) <= 1
    PROVE  callsIn(tools) = IF tools # << >> /\ tools[1].id THEN 1 ELSE 0
  <1> DEFINE C == {i \in 1..Len(tools) : tools[i].id}
  <1>1. CASE tools = << >>
    <2>1. C = {}
      BY <1>1
    <2> QED BY <1>1, <2>1, FS_EmptySet DEF callsIn
  <1>2. CASE tools # << >>
    <2>1. Len(tools) = 1
      BY <1>2, LenOne
    <2>2. 1..1 = {1}
      OBVIOUS
    <2>3. C = IF tools[1].id THEN {1} ELSE {}
      BY <2>1, <2>2
    <2>4. Cardinality({1}) = 1
      BY FS_Singleton
    <2> QED BY <1>2, <2>3, <2>4, FS_EmptySet DEF callsIn
  <1> QED BY <1>1, <1>2

\* The tool calls of one chunk more.
LEMMA CallsAppend ==
    ASSUME NEW es \in Seq(UpChunk), NEW c \in UpChunk
    PROVE  /\ CallsOf(es) \in Nat
           /\ CallsOf(Append(es, c)) = CallsOf(es) + callsIn(c.tools)
  <1> DEFINE n == Len(es)
             fs == Append(es, c)
  <1>1. n \in Nat /\ n + 1 \in Nat /\ DOMAIN es = 1..n /\ DOMAIN fs = 1..(n + 1)
          /\ fs[n + 1] = c
        /\ \A k \in 1..n : fs[k] = es[k]
      OBVIOUS
  <1>2. PICK g : /\ g[0] = 0
                 /\ \A k \in 1..n : g[k] = g[k - 1] + callsIn(es[k].tools)
                 /\ CallsOf(es) = g[n]
      BY <1>1, CallsFold
  <1> HIDE DEF fs
  <1> DEFINE m == n + 1
  <1>0. m \in Nat /\ DOMAIN fs = 1..m
      BY <1>1
  <1> HIDE DEF m
  <1>3. PICK h : /\ h[0] = 0
                 /\ \A k \in 1..m : h[k] = h[k - 1] + callsIn(fs[k].tools)
                 /\ CallsOf(fs) = h[m]
      BY <1>0, CallsFold
  <1> DEFINE S == {k \in Nat : k <= n => g[k] = h[k] /\ g[k] \in Nat}
  <1>4. 0 \in S
      BY <1>2, <1>3
  <1>5. ASSUME NEW k \in Nat, k \in S PROVE k + 1 \in S
    <2> SUFFICES ASSUME k + 1 <= n PROVE g[k + 1] = h[k + 1] /\ g[k + 1] \in Nat
      OBVIOUS
    <2>1. g[k] = h[k] /\ g[k] \in Nat
      BY <1>1, <1>5
    <2> HIDE DEF S
    <2>2. k + 1 \in 1..n /\ k + 1 \in 1..m /\ (k + 1) - 1 = k
      BY <1>1 DEF m
    <2>3. fs[k + 1] = es[k + 1]
      BY <1>1, <2>2
    <2>4. es[k + 1] \in UpChunk
      BY <2>2
    <2>5. callsIn(es[k + 1].tools) \in Nat
      BY <2>4, CallsInTyped DEF UpChunk
    <2>6. g[k + 1] = g[k] + callsIn(es[k + 1].tools)
            /\ h[k + 1] = h[k] + callsIn(fs[k + 1].tools)
      BY <1>2, <1>3, <2>2
    <2> QED BY <2>1, <2>3, <2>5, <2>6
  <1> HIDE DEF S
  <1>6. n \in S
      BY <1>1, <1>4, <1>5, NatInduct
  <1>7. g[n] = h[n] /\ g[n] \in Nat
      BY <1>1, <1>6 DEF S
  <1>8. m \in 1..m /\ m - 1 = n /\ fs[m] = c
      BY <1>1 DEF m
  <1>9. h[m] = h[n] + callsIn(c.tools)
      BY <1>3, <1>8
  <1> QED BY <1>2, <1>3, <1>7, <1>9 DEF fs

\* The chunk sent for one of Chunk.
LEMMA NumberedIs ==
    ASSUME sent \in Seq(UpChunk), NEW chunk \in Chunk
    PROVE  /\ numbered(chunk) \in UpChunk
           /\ numbered(chunk).reasoning = chunk.reasoning /\ numbered(chunk).text = chunk.text
           /\ numbered(chunk).finish = chunk.finish /\ numbered(chunk).usage = chunk.usage
           /\ Len(numbered(chunk).tools) = Len(chunk.tools)
           /\ \A i \in 1..Len(chunk.tools) :
                 /\ numbered(chunk).tools[i].id = chunk.tools[i].id
                 /\ numbered(chunk).tools[i].args = chunk.tools[i].args
                 /\ numbered(chunk).tools[i].index =
                      LET n == CallsOf(sent) + callsIn(SubSeq(chunk.tools, 1, i)) IN IF n = 0
                          THEN 0 ELSE n - 1
  <1>1. PICK z \in 0..MaxToolCalls : chunk.tools \in [1..z -> ToolCall]
      BY DEF Chunk
  <1>2. z \in Nat
      BY <1>1, TransformerAssumption
  <1>3. chunk.tools \in Seq(ToolCall) /\ Len(chunk.tools) = z
      BY <1>1, <1>2
  <1> DEFINE num(i) == CallsOf(sent) + callsIn(SubSeq(chunk.tools, 1, i))
             idx(i) == IF num(i) = 0 THEN 0 ELSE num(i) - 1
             ts == [i \in 1..Len(chunk.tools) |-> [id |-> chunk.tools[i].id,
                                                   args |-> chunk.tools[i].args,
                 index |-> idx(i)]]
  <1>4. numbered(chunk) = [chunk EXCEPT !.tools = ts]
      BY Zenon DEF numbered, callsSoFar, CallsOf
  <1>5. ASSUME NEW i \in 1..z PROVE idx(i) \in Nat /\ chunk.tools[i] \in ToolCall
    <2>1. SubSeq(chunk.tools, 1, i) \in Seq(ToolCall)
      BY <1>2, <1>3
    <2>2. callsIn(SubSeq(chunk.tools, 1, i)) \in Nat
      BY <2>1, CallsInTyped
    <2>3. CallsOf(sent) \in Nat
      <3>1. UpChunk # {}
        <4>1. [reasoning |-> TRUE, text |-> TRUE, finish |-> TRUE, usage |-> TRUE,
                tools |-> << >>] \in UpChunk
          BY DEF UpChunk
        <4> QED BY <4>1
      <3> QED BY <3>1, CallsAppend
    <2> QED BY <1>1, <2>2, <2>3
  <1> HIDE DEF idx
  <1>6. ts \in Seq(UpCall) /\ Len(ts) = z
    <2>1. \A i \in 1..z : [id |-> chunk.tools[i].id, args |-> chunk.tools[i].args,
                           index |-> idx(i)] \in UpCall
      BY <1>5 DEF UpCall, ToolCall
    <2> QED BY <1>2, <1>3, <2>1
  <1>7. \A i \in 1..z : ts[i].id = chunk.tools[i].id /\ ts[i].args = chunk.tools[i].args
          /\ ts[i].index = idx(i)
      BY <1>3
  <1> HIDE DEF ts
  <1>8. /\ [chunk EXCEPT !.tools = ts].reasoning = chunk.reasoning
             /\ [chunk EXCEPT !.tools = ts].text = chunk.text
        /\ [chunk EXCEPT !.tools = ts].finish = chunk.finish
             /\ [chunk EXCEPT !.tools = ts].usage = chunk.usage
        /\ [chunk EXCEPT !.tools = ts].tools = ts
        /\ [chunk EXCEPT !.tools = ts] \in UpChunk
      BY <1>6 DEF Chunk, UpChunk
  <1> QED BY <1>3, <1>4, <1>6, <1>7, <1>8 DEF idx

\* The content of a chunk with at most one tool call.
LEMMA ChunkContentOf ==
    ASSUME NEW c \in UpChunk, Len(c.tools) <= 1, NEW kinds
    PROVE  contentOfChunk(c, kinds) =
                (IF c.reasoning /\ "thinking" \in kinds THEN << <<"thinking", 0>> >>
                    ELSE << >>)
                \o (IF c.text /\ "text" \in kinds THEN << <<"text", 0>> >> ELSE << >>)
                \o (IF c.tools # << >> /\ c.tools[1].args
                    THEN << <<"tool_use", c.tools[1].index + 1>> >> ELSE << >>)
  <1> DEFINE q == [i \in 1..Len(c.tools) |->
                     IF c.tools[i].args THEN << <<"tool_use", c.tools[i].index + 1>> >>
                         ELSE << >>]
  <1>1. c.tools \in Seq(UpCall) /\ Len(c.tools) \in Nat
      BY DEF UpChunk
  <1>2. FlattenSeq(q) = IF c.tools # << >> /\ c.tools[1].args
          THEN << <<"tool_use", c.tools[1].index + 1>> >> ELSE << >>
    <2>1. CASE c.tools = << >>
      <3>1. q = << >>
        BY <2>1
      <3> QED BY <2>1, <3>1 DEF FlattenSeq
    <2>2. CASE c.tools # << >>
      <3> DEFINE x == IF c.tools[1].args THEN << <<"tool_use", c.tools[1].index + 1>> >>
            ELSE << >>
      <3>0. Len(c.tools) = 1
        BY <1>1, <2>2, LenOne
      <3>1. Len(c.tools) = 1 /\ 1..1 = {1} /\ c.tools[1] \in UpCall
        BY <1>1, <3>0
      <3>2. c.tools[1].index + 1 \in Nat
        BY <3>1 DEF UpCall
      <3>3. x \in Seq(Pieces)
        <4>1. \A y \in Pieces : <<y>> \in Seq(Pieces) /\ << >> \in Seq(Pieces)
          OBVIOUS
        <4>2. <<"tool_use", c.tools[1].index + 1>> \in Pieces
          BY <3>2 DEF Pieces, Kinds
        <4> QED BY <4>1, <4>2
      <3>4. q = [i \in 1..1 |-> x]
        BY <3>1
      <3> HIDE DEF x, q
      <3>5. << >> \in Seq(Seq(Pieces)) /\ Append(<< >>, x) = [i \in 1..1 |-> x]
        BY <3>3
      <3>6. FlattenSeq(Append(<< >>, x)) = FlattenSeq(<< >>) \o x
        BY <3>3, <3>5, FlattenAppend
      <3>7. FlattenSeq(<< >>) = << >>
        BY DEF FlattenSeq
      <3>8. << >> \o x = x
        BY <3>3
      <3> QED BY <2>2, <3>4, <3>5, <3>6, <3>7, <3>8 DEF x
    <2> QED BY <2>1, <2>2
  <1> HIDE DEF q
  <1>3. contentOfChunk(c, kinds)
          = (IF c.reasoning /\ "thinking" \in kinds THEN << <<"thinking", 0>> >> ELSE << >>)
                \o (IF c.text /\ "text" \in kinds THEN << <<"text", 0>> >> ELSE << >>)
                    \o FlattenSeq(q)
      BY Zenon DEF contentOfChunk, q
  <1> QED BY <1>2, <1>3, Zenon

\* What a chunk with at most one tool call says.
LEMMA ChunkContent ==
    ASSUME NEW c \in UpChunk, Len(c.tools) <= 1
    PROVE  contentOfChunk(c, Kinds) =
                (IF c.reasoning THEN << <<"thinking", 0>> >> ELSE << >>)
                \o (IF c.text THEN << <<"text", 0>> >> ELSE << >>)
                \o (IF c.tools # << >> /\ c.tools[1].args
                    THEN << <<"tool_use", c.tools[1].index + 1>> >> ELSE << >>)
  <1>1. "thinking" \in Kinds /\ "text" \in Kinds
      BY DEF Kinds
  <1>2. contentOfChunk(c, Kinds) =
                (IF c.reasoning /\ "thinking" \in Kinds THEN << <<"thinking", 0>> >>
                    ELSE << >>)
                \o (IF c.text /\ "text" \in Kinds THEN << <<"text", 0>> >> ELSE << >>)
                \o (IF c.tools # << >> /\ c.tools[1].args
                    THEN << <<"tool_use", c.tools[1].index + 1>> >> ELSE << >>)
      BY ChunkContentOf, Zenon
  <1> QED BY <1>1, <1>2, Zenon

\* A Claude stream that has not started is empty.
LEMMA NotStarted ==
    ASSUME NEW es, CValid(es), ~CView(es).started
    PROVE  es = << >> /\ CView(es).kind = "none" /\ ~CView(es).stopped /\ ~CView(es).reason
  <1>1. es = << >>
      BY DEF CValid, CShape, CView
  <1> QED BY <1>1, CValidEmpty

\* An open tool block is that of some call.
LEMMA CallsPositive ==
    ASSUME NEW es, CValid(es), CView(es).kind = "tool_use"
    PROVE  CView(es).calls > 0
  <1>1. CShape(es) /\ es \in Seq(ClaudeEvent) /\ Len(es) \in Nat
      BY DEF CValid, CShape
  <1>2. PICK i \in COpen(es) : es[i].kind = "tool_use"
      BY <1>1, CViewOf
  <1>3. i \in CCalls(es)
      BY <1>2 DEF COpen, CBlocks, CCalls
  <1>4. CCalls(es) \in SUBSET (1..Len(es)) /\ IsFiniteSet(1..Len(es))
      BY <1>1, FS_Interval DEF CCalls
  <1>5. IsFiniteSet(CCalls(es))
      BY <1>4, FS_Subset
  <1>6. Cardinality(CCalls(es)) # 0 /\ Cardinality(CCalls(es)) \in Nat
      BY <1>3, <1>5, FS_EmptySet, FS_CardinalityType
  <1> QED BY <1>6 DEF CView

\* emit_message_start makes a context ready for content.
LEMMA Started ==
    ASSUME NEW d \in Seq(ClaudeEvent), NEW r, Tracks(d, r), ~View(d, r).stopped,
           ~View(d, r).reason,
           View(d, r).kind = "none" => r.ctx.content_index = View(d, r).blocks
    PROVE  LET s == ToClaude!emit_message_start(r)
               v == View(d, r)
               w == View(d, s)
           IN Feeds(d, s) /\ w.kind = v.kind /\ w.said = v.said /\ w.calls = v.calls
  <1> DEFINE s == ToClaude!emit_message_start(r)
             v == View(d, r)
             w == View(d, s)
  <1>1. /\ CValid(d \o r.out) /\ Linked(r.ctx, v) /\ v \in ViewType
      BY TracksHas
  <1>2. r.ctx.message_start_sent = v.started /\ r.ctx.finish_reason_sent = v.reason
      BY <1>1 DEF Linked
  <1> SUFFICES Feeds(d, s) /\ w.kind = v.kind /\ w.said = v.said /\ w.calls = v.calls
      BY Zenon
  <1> HIDE DEF v, w
  <1>3. CASE r.ctx.message_start_sent
    <2>1. s = r
      BY <1>3 DEF ToClaude!emit_message_start
    <2>2. Ready(r.ctx, v)
      BY <1>2, <1>3 DEF Ready, v
    <2>3. Feeds(d, s)
      BY <2>1, <2>2 DEF Feeds, v, View
    <2> QED BY <2>1, <2>3 DEF v, w
  <1>4. CASE ~r.ctx.message_start_sent
    <2>1. v.kind = "none" /\ ~v.started
      BY <1>1, <1>2, <1>4, NotStarted DEF v, View
    <2>2. Feeds(d, s) /\ w = VAfter(v, ClaudeEv("message_start", "none", 0))
      BY <1>2, <1>4, <2>1, Start DEF v, w
    <2> HIDE DEF s
    <2> QED BY <1>1, <2>2, AfterMessageStart
  <1> QED BY <1>3, <1>4

\* The tool calls of a chunk, at most one.
LEMMA Called ==
    ASSUME NEW d \in Seq(ClaudeEvent), NEW r, Feeds(d, r), NEW tools \in Seq(UpCall),
           Len(tools) <= 1,
           tools # << >> => tools[1].id \/ View(d, r).kind = "tool_use"
    PROVE  LET s == CalledBy(r, tools)
               v == View(d, r)
               w == View(d, s)
           IN /\ Feeds(d, s)
              /\ tools = << >> => s = r
              /\ tools # << >> =>
                    /\ w.kind = "tool_use"
                    /\ w.calls = (IF tools[1].id THEN v.calls + 1 ELSE v.calls)
                    /\ w.said = (IF tools[1].args THEN Append(v.said, <<"tool_use", w.calls>>)
                                 ELSE v.said)
  <1> DEFINE s == CalledBy(r, tools)
             n == Len(tools)
  <1>1. n \in Nat /\ DOMAIN tools = 1..n
      OBVIOUS
  <1>2. PICK h : /\ h[0] = r
                 /\ \A k \in 1..n : h[k] = ToClaude!emit_tool_call(h[k - 1], tools[k])
                 /\ s = h[n]
    <2> HIDE DEF n
    <2>1. PICK h : CallFold(h, r, tools, n)
      BY <1>1, ToolCallsFold
    <2> QED BY <2>1, Zenon DEF CallFold
  <1> HIDE DEF s
  <1>3. CASE tools = << >>
    <2>1. n = 0
      BY <1>3
    <2>2. s = r
      BY <1>2, <2>1
    <2> QED BY <1>3, <2>2, Zenon DEF s
  <1>4. CASE tools # << >>
    <2>1. n = 1 /\ tools[1] \in UpCall
      BY <1>4, LenOne
    <2>2. 1 \in 1..n /\ 1 - 1 = 0
      BY <2>1
    <2>3. s = ToClaude!emit_tool_call(r, tools[1])
      <3> HIDE DEF n
      <3> QED BY <1>2, <2>1, <2>2
    <2> DEFINE tc == tools[1]
    <2>4. tc.id \in BOOLEAN /\ tc.args \in BOOLEAN /\ (tc.id \/ View(d, r).kind = "tool_use")
      BY <1>4, <2>1 DEF UpCall
    <2> HIDE DEF tc
    <2> DEFINE t == ToClaude!emit_tool_call(r, tc)
               x == View(d, t)
    <2>5. /\ Feeds(d, t) /\ x.kind = "tool_use"
          /\ x.calls = (IF tc.id THEN View(d, r).calls + 1 ELSE View(d, r).calls)
          /\ x.said = (IF tc.args THEN Append(View(d, r).said, <<"tool_use", x.calls>>)
                       ELSE View(d, r).said)
      BY <2>4, ToolCalled
    <2>6. s = t
      BY <2>3 DEF tc
    <2> HIDE DEF t
    <2> QED BY <1>4, <2>5, <2>6, Zenon DEF s, tc
  <1> QED BY <1>3, <1>4

\* emit_finish closes what is open.
LEMMA Finished ==
    ASSUME NEW d \in Seq(ClaudeEvent), NEW r, Feeds(d, r)
    PROVE  LET s == ToClaude!emit_finish(r)
               v == View(d, r)
               w == View(d, s)
           IN /\ Tracks(d, s) /\ w.kind = "none" /\ w.started /\ ~w.stopped /\ w.reason
              /\ w.said = v.said /\ w.calls = v.calls
  <1> DEFINE c == ToClaude!close_all(r)
             s == ToClaude!stop_reason(c)
  <1>1. Tracks(d, r) /\ Ready(r.ctx, View(d, r))
      BY DEF Feeds, View
  <1>2. ToClaude!emit_finish(r) = s
      BY <1>1 DEF ToClaude!emit_finish, Ready
  <1>3. Tracks(d, c) /\ Same(View(d, r), View(d, c)) /\ View(d, c).kind = "none"
      BY <1>1, CloseAll
  <1> HIDE DEF c
  <1>4. View(d, c).started /\ ~View(d, c).stopped
      BY <1>1, <1>3 DEF Ready, Same
  <1>5. Tracks(d, s) /\ View(d, s) = VAfter(View(d, c), ClaudeEv("message_delta", "stop", 0))
      BY <1>3, <1>4, GiveReason
  <1>6. View(d, c) \in ViewType
      BY <1>3, TracksHas
  <1> HIDE DEF s
  <1>7. /\ View(d, s).started = View(d, c).started /\ View(d, s).stopped = View(d, c).stopped
        /\ View(d, s).reason = TRUE /\ View(d, s).kind = View(d, c).kind
        /\ View(d, s).said = View(d, c).said /\ View(d, s).calls = View(d, c).calls
        /\ View(d, s).blocks = View(d, c).blocks
      BY <1>5, <1>6, AfterReason
  <1>8. /\ Tracks(d, s) /\ View(d, s).kind = "none" /\ View(d, s).started
             /\ ~View(d, s).stopped /\ View(d, s).reason
        /\ View(d, s).said = View(d, r).said /\ View(d, s).calls = View(d, r).calls
      BY <1>3, <1>4, <1>5, <1>7 DEF Same
  <1> QED BY <1>2, <1>8

\* What a chunk adds to what a Claude client has been told.
Told(v, w, c) ==
    /\ w.calls = v.calls + callsIn(c.tools)
    /\ w.said = v.said \o contentOfChunk(c, Kinds)

\* Concatenation of four sequences.
Regrouped(x, p, q, t) == ((x \o p) \o q) \o t = x \o ((p \o q) \o t)

\* Regrouping four sequences.
LEMMA ConcatFour ==
    ASSUME NEW E, NEW x \in Seq(E), NEW p \in Seq(E), NEW q \in Seq(E), NEW t \in Seq(E)
    PROVE  Regrouped(x, p, q, t)
  BY DEF Regrouped

\* What a client has been told by one chunk, from its parts.
LEMMA ToldBy ==
    ASSUME NEW v \in ViewType, NEW w \in ViewType, NEW c \in UpChunk, Len(c.tools) <= 1,
           NEW a, a = (IF c.reasoning THEN Append(v.said, <<"thinking", 0>>) ELSE v.said),
           NEW b, b = (IF c.text THEN Append(a, <<"text", 0>>) ELSE a),
           c.tools = << >> => w.said = b /\ w.calls = v.calls,
           c.tools # << >> =>
              /\ w.calls = (IF c.tools[1].id THEN v.calls + 1 ELSE v.calls)
              /\ w.said = (IF c.tools[1].args THEN Append(b, <<"tool_use", w.calls>>) ELSE b)
              /\ c.tools[1].index + 1 = w.calls
    PROVE  Told(v, w, c)
  <1>1. v.said \in Seq(Pieces) /\ v.calls \in Nat /\ w.calls \in Nat
      BY DEF ViewType
  <1>2. c.tools \in Seq(UpCall)
      BY DEF UpChunk
  <1>3. callsIn(c.tools) = IF c.tools # << >> /\ c.tools[1].id THEN 1 ELSE 0
      BY <1>2, CallsInOne
  <1>4. w.calls = v.calls + callsIn(c.tools)
      BY <1>1, <1>3
  <1> DEFINE p == IF c.reasoning THEN << <<"thinking", 0>> >> ELSE << >>
             q == IF c.text THEN << <<"text", 0>> >> ELSE << >>
             t == IF c.tools # << >> /\ c.tools[1].args THEN << <<"tool_use", w.calls>> >>
                 ELSE << >>
  <1>5. contentOfChunk(c, Kinds) = (p \o q) \o t
    <2>1. t = IF c.tools # << >> /\ c.tools[1].args
            THEN << <<"tool_use", c.tools[1].index + 1>> >> ELSE << >>
      OBVIOUS
    <2> HIDE DEF t
    <2> QED BY <2>1, ChunkContent, Zenon DEF p, q
  <1>6. \A s \in Seq(Pieces), x \in Pieces : <<x>> \in Seq(Pieces)
          /\ Append(s, x) \in Seq(Pieces) /\ s \o <<x>> = Append(s, x)
      OBVIOUS
  <1>7. \A s \in Seq(Pieces) : s \o << >> = s /\ << >> \in Seq(Pieces)
      OBVIOUS
  <1>8. <<"thinking", 0>> \in Pieces /\ <<"text", 0>> \in Pieces
          /\ <<"tool_use", w.calls>> \in Pieces
      BY <1>1 DEF Pieces, Kinds
  <1> HIDE DEF Pieces
  <1> DEFINE x1 == <<"thinking", 0>>
             x2 == <<"text", 0>>
             x3 == <<"tool_use", w.calls>>
             ca == c.tools # << >> /\ c.tools[1].args
  <1>8a. x1 \in Pieces /\ x2 \in Pieces /\ x3 \in Pieces
      BY <1>8
  <1>9. /\ p = (IF c.reasoning THEN <<x1>> ELSE << >>)
             /\ q = (IF c.text THEN <<x2>> ELSE << >>)
        /\ t = (IF ca THEN <<x3>> ELSE << >>)
        /\ a = (IF c.reasoning THEN Append(v.said, x1) ELSE v.said)
             /\ b = (IF c.text THEN Append(a, x2) ELSE a)
        /\ w.said = (IF ca THEN Append(b, x3) ELSE b)
      BY Zenon
  <1> HIDE DEF p, q, t, x1, x2, x3, ca
  <1>10. a = v.said \o p /\ a \in Seq(Pieces) /\ p \in Seq(Pieces)
      BY <1>1, <1>6, <1>7, <1>8a, <1>9
  <1>11. b = a \o q /\ b \in Seq(Pieces) /\ q \in Seq(Pieces)
      BY <1>6, <1>7, <1>8a, <1>9, <1>10, Zenon
  <1>12. w.said = b \o t /\ t \in Seq(Pieces)
      BY <1>6, <1>7, <1>8a, <1>9, <1>11
  <1>13. w.said = ((v.said \o p) \o q) \o t
      BY <1>10, <1>11, <1>12, Zenon
  <1>14. Regrouped(v.said, p, q, t)
      BY <1>1, <1>10, <1>11, <1>12, ConcatFour, Zenon
  <1>15. w.said = v.said \o ((p \o q) \o t)
      BY ONLY <1>13, <1>14 DEF Regrouped
  <1> QED BY <1>4, <1>5, <1>15, Zenon DEF Told

\* openai_stream_to_claude on the content of a chunk, before a finish reason was sent.
LEMMA ContentConverted ==
    ASSUME NEW d \in Seq(ClaudeEvent), NEW r, Feeds(d, r), NEW c \in UpChunk,
           Len(c.tools) <= 1,
           c.tools # << >> =>
              /\ c.tools[1].id \/ (View(d, r).kind = "tool_use" /\ ~c.reasoning /\ ~c.text)
              /\ c.tools[1].index + 1 = View(d, r).calls + (IF c.tools[1].id THEN 1 ELSE 0),
           NEW thought, thought
               = (IF c.reasoning THEN ToClaude!emit_thinking_delta(r) ELSE r),
           NEW said, said = (IF c.text THEN ToClaude!emit_text_delta(thought) ELSE thought),
           NEW s, s = CalledBy(said, c.tools)
    PROVE  /\ Feeds(d, s) /\ Told(View(d, r), View(d, s), c)
           /\ c.tools # << >> => View(d, s).kind = "tool_use"
  <1>1. View(d, r) \in ViewType /\ View(d, r).calls \in Nat
      BY FeedsHas DEF ViewType
  <1> DEFINE v == View(d, r)
             a == IF c.reasoning THEN Append(v.said, <<"thinking", 0>>) ELSE v.said
             b == IF c.text THEN Append(a, <<"text", 0>>) ELSE a
  <1>2. Feeds(d, thought) /\ View(d, thought).said = a /\ View(d, thought).calls = v.calls
        /\ (~c.reasoning => View(d, thought).kind = v.kind)
    <2> HIDE DEF v
    <2>1. CASE c.reasoning
      <3>1. thought = ToClaude!emit_thinking_delta(r)
        BY <2>1
      <3> QED BY <2>1, <3>1, ThinkingDelta DEF v
    <2>2. CASE ~c.reasoning
      BY <2>2 DEF v
    <2> QED BY <2>1, <2>2
  <1>3. Feeds(d, said) /\ View(d, said).said = b /\ View(d, said).calls = v.calls
        /\ (~c.reasoning /\ ~c.text => View(d, said).kind = v.kind)
    <2> HIDE DEF v, a
    <2>1. CASE c.text
      <3>1. said = ToClaude!emit_text_delta(thought)
        BY <2>1
      <3> QED BY <1>2, <2>1, <3>1, TextDelta
    <2>2. CASE ~c.text
      BY <1>2, <2>2
    <2> QED BY <2>1, <2>2
  <1>4. c.tools \in Seq(UpCall)
      BY DEF UpChunk
  <1>5. c.tools # << >> => c.tools[1].id \/ View(d, said).kind = "tool_use"
      BY <1>3
  <1> DEFINE z == View(d, said)
             w == View(d, s)
  <1>6. /\ Feeds(d, s)
        /\ c.tools = << >> => s = said
        /\ c.tools # << >> =>
              /\ w.kind = "tool_use"
              /\ w.calls = (IF c.tools[1].id THEN z.calls + 1 ELSE z.calls)
              /\ w.said = (IF c.tools[1].args THEN Append(z.said, <<"tool_use", w.calls>>)
                           ELSE z.said)
      BY <1>3, <1>4, <1>5, Called
  <1>7. w \in ViewType
      BY <1>6, FeedsHas
  <1>8. /\ c.tools = << >> => w.said = b /\ w.calls = v.calls
        /\ c.tools # << >> =>
              /\ w.calls = (IF c.tools[1].id THEN v.calls + 1 ELSE v.calls)
              /\ w.said = (IF c.tools[1].args THEN Append(b, <<"tool_use", w.calls>>) ELSE b)
              /\ c.tools[1].index + 1 = w.calls
    <2> HIDE DEF a, b
    <2> QED BY <1>1, <1>3, <1>6
  <1>9. Told(v, w, c)
    <2> HIDE DEF w
    <2> QED BY <1>1, <1>7, <1>8, ToldBy
  <1> QED BY <1>6, <1>9

\* openai_stream_to_claude on a chunk that conforms.
LEMMA ChunkConverted ==
    ASSUME NEW d \in Seq(ClaudeEvent), NEW c, Tracks(d, [ctx |-> c, out |-> << >>]),
           NEW v, v = View(d, [ctx |-> c, out |-> << >>]), ~v.stopped,
           ~v.reason /\ v.kind = "none" => c.content_index = v.blocks,
           NEW m \in UpChunk, Len(m.tools) <= 1,
           v.reason => ~m.reasoning /\ ~m.text /\ m.tools = << >> /\ ~m.finish,
           m.tools # << >> =>
              /\ m.tools[1].id \/ (v.kind = "tool_use" /\ ~m.reasoning /\ ~m.text)
              /\ m.tools[1].index + 1 = v.calls + (IF m.tools[1].id THEN 1 ELSE 0)
    PROVE  LET s == ToClaude!openai_stream_to_claude(c, m)
               w == View(d, s)
           IN /\ Tracks(d, s) /\ w.started /\ ~w.stopped
              /\ w.reason <=> v.reason \/ m.finish
              /\ ~w.reason /\ w.kind = "none" => s.ctx.content_index = w.blocks
              /\ Told(v, w, m)
              /\ m.tools # << >> /\ ~m.finish => w.kind = "tool_use"
  <1> DEFINE r == [ctx |-> c, out |-> << >>]
             start == ToClaude!emit_message_start(r)
             thought == IF m.reasoning THEN ToClaude!emit_thinking_delta(start) ELSE start
             said == IF m.text THEN ToClaude!emit_text_delta(thought) ELSE thought
             called == CalledBy(said, m.tools)
             ended == IF m.finish THEN ToClaude!emit_finish(called) ELSE called
             s == ToClaude!openai_stream_to_claude(c, m)
             w == View(d, s)
  <1>1. s = IF m.usage THEN ToClaude!emit_usage(ended) ELSE ended
      BY Zenon DEF ToClaude!openai_stream_to_claude, CalledBy
  <1>2. r.ctx = c /\ Tracks(d, r) /\ v = View(d, r)
      OBVIOUS
  <1>3. v \in ViewType /\ Linked(c, v)
      BY <1>2, TracksHas
  <1>4. /\ Tracks(d, ended) /\ View(d, ended).started /\ ~View(d, ended).stopped
        /\ (View(d, ended).reason <=> v.reason \/ m.finish)
        /\ (~View(d, ended).reason /\ View(d, ended).kind = "none"
             => ended.ctx.content_index = View(d, ended).blocks)
        /\ Told(v, View(d, ended), m)
        /\ (m.tools # << >> /\ ~m.finish => View(d, ended).kind = "tool_use")
    <2>1. CASE ~v.reason
      <3> HIDE DEF r, start, thought, said, called, ended
      <3>1. Feeds(d, start) /\ View(d, start).kind = v.kind /\ View(d, start).said = v.said
              /\ View(d, start).calls = v.calls
        BY <1>2, <2>1, Started DEF start
      <3>2. Feeds(d, called) /\ Told(View(d, start), View(d, called), m)
            /\ (m.tools # << >> => View(d, called).kind = "tool_use")
        BY <3>1, ContentConverted DEF thought, said, called
      <3>3. Told(v, View(d, called), m)
        BY <3>1, <3>2 DEF Told
      <3>4. /\ Tracks(d, called) /\ View(d, called).started /\ ~View(d, called).stopped
                 /\ ~View(d, called).reason
            /\ (View(d, called).kind = "none"
                 => called.ctx.content_index = View(d, called).blocks)
        BY <3>2 DEF Feeds, Ready, View, Linked, Tracks
      <3>5. CASE m.finish
        <4>1. ended = ToClaude!emit_finish(called)
          BY <3>5 DEF ended
        <4>2. /\ Tracks(d, ended) /\ View(d, ended).kind = "none" /\ View(d, ended).started
                   /\ ~View(d, ended).stopped
              /\ View(d, ended).reason
              /\ View(d, ended).said = View(d, called).said
                   /\ View(d, ended).calls = View(d, called).calls
          BY <3>2, <4>1, Finished
        <4>3. Told(v, View(d, ended), m)
          BY <3>3, <4>2 DEF Told
        <4> QED BY <3>5, <4>2, <4>3
      <3>6. CASE ~m.finish
        <4>1. ended = called
          BY <3>6 DEF ended
        <4> QED BY <2>1, <3>2, <3>3, <3>4, <3>6, <4>1
      <3> QED BY <3>5, <3>6
    <2>2. CASE v.reason
      <3>1. start = r
        <4>1. v.started
          BY <1>2, <1>3, <2>2, NotStarted, TracksHas, Zenon DEF View
        <4>2. r.ctx.message_start_sent
          BY <1>2, <1>3, <4>1 DEF Linked
        <4> QED BY <4>2 DEF ToClaude!emit_message_start
      <3>2. said = start /\ ~m.finish /\ m.tools = << >>
        BY <2>2
      <3> HIDE DEF r, start, said
      <3>3. called = said
        <4>1. DOMAIN m.tools = 1..0 /\ 0 \in Nat
          BY <3>2
        <4>2. PICK h : CallFold(h, said, m.tools, 0)
          BY <4>1, ToolCallsFold
        <4>3. CalledBy(said, m.tools) = said
          BY <4>2, Zenon DEF CallFold
        <4> QED BY <4>3
      <3>4. ended = r
        BY <3>1, <3>2, <3>3
      <3> HIDE DEF ended
      <3>5. v.started
        BY <1>2, <1>3, <2>2, NotStarted, TracksHas DEF View
      <3>6. Told(v, v, m)
        <4>1. v.said \in Seq(Pieces) /\ v.calls \in Nat
          BY <1>3 DEF ViewType
        <4>2. ~m.reasoning /\ ~m.text /\ m.tools = << >>
          BY <2>2
        <4>3. v.said = (IF m.reasoning THEN Append(v.said, <<"thinking", 0>>) ELSE v.said)
              /\ v.said = (IF m.text THEN Append(v.said, <<"text", 0>>) ELSE v.said)
          BY <4>2
        <4> QED BY <1>3, <4>2, <4>3, ToldBy
      <3> QED BY <1>2, <2>2, <3>4, <3>5, <3>6
    <2> QED BY <2>1, <2>2
  <1> HIDE DEF ended
  <1>5. CASE m.usage
    <2>1. s = ToClaude!emit_usage(ended)
      BY <1>1, <1>5
    <2>2. Tracks(d, s) /\ w = VAfter(View(d, ended), ClaudeEv("message_delta", "usage", 0))
      BY <1>4, <2>1, GiveUsage
    <2>3. View(d, ended) \in ViewType
      BY <1>4, TracksHas
    <2>4. Same(View(d, ended), w) /\ w.kind = View(d, ended).kind
            /\ w.blocks = View(d, ended).blocks
      BY <2>2, <2>3, AfterUsage
    <2>5. s.ctx = ended.ctx
      BY <2>1 DEF ToClaude!emit_usage, ToClaude!emit
    <2> HIDE DEF s, w
    <2>6. Told(v, w, m)
      BY <1>4, <2>4 DEF Told, Same
    <2> QED BY <1>4, <2>2, <2>4, <2>5, <2>6 DEF Same, s, w
  <1>6. CASE ~m.usage
    <2>1. s = ended
      BY <1>1, <1>6
    <2> QED BY <1>4, <2>1
  <1> QED BY <1>5, <1>6

OneCall == {c \in UpChunk : Len(c.tools) <= 1}

\* What a chunk says is a sequence of pieces.
LEMMA ContentOfChunkTyped ==
    ASSUME NEW c \in OneCall, NEW kinds
    PROVE  contentOfChunk(c, kinds) \in Seq(Pieces)
  <1>1. c \in UpChunk /\ c.tools \in Seq(UpCall) /\ Len(c.tools) <= 1
      BY DEF OneCall, UpChunk
  <1>2. c.tools # << >> => c.tools[1].index + 1 \in Nat
    <2> SUFFICES ASSUME c.tools # << >> PROVE c.tools[1].index + 1 \in Nat
      OBVIOUS
    <2>1. c.tools[1] \in UpCall
      BY <1>1, LenOne
    <2> QED BY <2>1 DEF UpCall
  <1>3. <<"thinking", 0>> \in Pieces /\ <<"text", 0>> \in Pieces
          /\ (c.tools # << >> => <<"tool_use", c.tools[1].index + 1>> \in Pieces)
      BY <1>2 DEF Pieces, Kinds
  <1>4. \A x \in Pieces : <<x>> \in Seq(Pieces) /\ << >> \in Seq(Pieces)
      OBVIOUS
  <1> DEFINE p == IF c.reasoning /\ "thinking" \in kinds THEN << <<"thinking", 0>> >>
        ELSE << >>
             q == IF c.text /\ "text" \in kinds THEN << <<"text", 0>> >> ELSE << >>
             t == IF c.tools # << >> /\ c.tools[1].args
                 THEN << <<"tool_use", c.tools[1].index + 1>> >> ELSE << >>
  <1>5. contentOfChunk(c, kinds) = (p \o q) \o t
      BY <1>1, ChunkContentOf, Zenon
  <1> HIDE DEF Pieces
  <1>6. p \in Seq(Pieces) /\ q \in Seq(Pieces) /\ t \in Seq(Pieces)
      BY <1>3, <1>4
  <1> HIDE DEF p, q, t
  <1> QED BY <1>5, <1>6

\* What one chunk more says.
LEMMA ContentOfChunksAppend ==
    ASSUME NEW es \in Seq(OneCall), NEW c \in OneCall, NEW kinds
    PROVE  /\ contentOfChunks(es, kinds) \in Seq(Pieces)
           /\ contentOfChunks(Append(es, c), kinds) = contentOfChunks(es, kinds)
                \o contentOfChunk(c, kinds)
  <1> DEFINE n == Len(es)
             fs == Append(es, c)
             q == [i \in 1..n |-> contentOfChunk(es[i], kinds)]
             s == contentOfChunk(c, kinds)
             p == [i \in 1..(n + 1) |-> contentOfChunk(fs[i], kinds)]
  <1>1. n \in Nat /\ Len(fs) = n + 1 /\ fs[n + 1] = c /\ \A i \in 1..n : fs[i] = es[i]
          /\ es[i] \in OneCall
      OBVIOUS
  <1>2. \A i \in 1..n : contentOfChunk(es[i], kinds) \in Seq(Pieces)
      BY <1>1, ContentOfChunkTyped
  <1>3. s \in Seq(Pieces)
      BY ContentOfChunkTyped
  <1>4. q \in Seq(Seq(Pieces)) /\ Len(q) = n
      BY <1>1, <1>2
  <1>5. contentOfChunks(es, kinds) = FlattenSeq(q)
          /\ contentOfChunks(fs, kinds) = FlattenSeq(p)
      BY <1>1 DEF contentOfChunks
  <1>6. p = Append(q, s)
    <2>1. \A i \in 1..n : p[i] = q[i]
      BY <1>1
    <2>2. p[n + 1] = s
      BY <1>1
    <2>3. p = [i \in 1..(n + 1) |-> p[i]]
      OBVIOUS
    <2> HIDE DEF p, s, q, fs
    <2>4. Append(q, s) \in Seq(Seq(Pieces)) /\ Len(Append(q, s)) = n + 1
      BY <1>1, <1>3, <1>4
    <2>5. ASSUME NEW i \in 1..(n + 1) PROVE Append(q, s)[i] = p[i]
      BY <1>1, <1>3, <1>4, <2>1, <2>2
    <2>6. Append(q, s) = [i \in 1..(n + 1) |-> Append(q, s)[i]]
      <3> DEFINE u == Append(q, s)
                 k == n + 1
      <3>1. u \in Seq(Seq(Pieces)) /\ Len(u) = k
        BY <2>4
      <3> HIDE DEF u, k, Pieces
      <3>2. u = [i \in 1..k |-> u[i]]
        BY <3>1
      <3> QED BY <3>2 DEF u, k
    <2> QED BY <2>3, <2>5, <2>6
  <1> HIDE DEF p, q, s, fs
  <1>7. FlattenSeq(q) \in Seq(Pieces) /\ FlattenSeq(Append(q, s)) = FlattenSeq(q) \o s
      BY <1>3, <1>4, FlattenAppend
  <1> QED BY <1>5, <1>6, <1>7 DEF s, fs

\* The chunks of a chat upstream.
ChunksInv ==
    conv.from = "chat" =>
        /\ sent \in Seq(UpChunk)
        /\ style # "any" => sent \in Seq(OneCall)

\* What a step of a chat upstream sends.
LEMMA ChunkStep ==
    ASSUME ChunksInv, conv.from = "chat", NEW chunk \in Chunk, SendsChunk(chunk)
    PROVE  \E m \in UpChunk :
              /\ sent' = Append(sent, m) /\ sent'[Len(sent')] = m
              /\ upstream' = (IF m.finish THEN "finished" ELSE upstream)
              /\ style \in {"conforming", "single"} =>
                    /\ m \in OneCall
                    /\ upstream = "finished"
                         => ~m.reasoning /\ ~m.text /\ m.tools = << >> /\ ~m.finish
                    /\ m.tools # << >> =>
                          /\ m.tools[1].index
                               = LET n == CallsOf(sent) + (IF m.tools[1].id THEN 1 ELSE 0)
                                                IN IF n = 0 THEN 0 ELSE n - 1
                          /\ ~m.tools[1].id =>
                                /\ sent # << >> /\ sent[Len(sent)].tools # << >>
                                /\ ~m.reasoning /\ ~m.text
              /\ style = "single" /\ CallsOf(sent) > 0 => ~m.text /\ callsIn(m.tools) = 0
  <1> DEFINE m == numbered(chunk)
  <1>1. sent \in Seq(UpChunk)
      BY DEF ChunksInv
  <1>2. /\ m \in UpChunk
        /\ m.reasoning = chunk.reasoning /\ m.text = chunk.text /\ m.finish = chunk.finish
        /\ Len(m.tools) = Len(chunk.tools)
        /\ \A i \in 1..Len(chunk.tools) :
             /\ m.tools[i].id = chunk.tools[i].id
             /\ m.tools[i].index = LET n == CallsOf(sent) + callsIn(SubSeq(chunk.tools, 1, i))
                  IN IF n = 0 THEN 0 ELSE n - 1
      BY <1>1, NumberedIs
  <1>3. sent' = Append(sent, m) /\ upstream' = (IF chunk.finish THEN "finished" ELSE upstream)
      BY Zenon DEF SendsChunk
  <1>4. style \in {"conforming", "single"} => conforms(chunk)
      BY DEF SendsChunk
  <1>5. style = "single" /\ CallsOf(sent) > 0 => ~chunk.text /\ callsIn(chunk.tools) = 0
    <2>1. callsSoFar = CallsOf(sent)
      BY Zenon DEF callsSoFar, CallsOf
    <2> QED BY <2>1 DEF SendsChunk
  <1> HIDE DEF m
  <1>6. m.tools \in Seq(UpCall) /\ chunk.tools \in Seq(ToolCall)
    <2>1. PICK z \in 0..MaxToolCalls : chunk.tools \in [1..z -> ToolCall]
      BY DEF Chunk
    <2>2. z \in Nat
      BY <2>1, TransformerAssumption
    <2> QED BY <1>2, <2>1, <2>2 DEF UpChunk
  <1>7. sent'[Len(sent')] = m
      BY <1>1, <1>2, <1>3
  <1>8. ASSUME conforms(chunk)
        PROVE  /\ m \in OneCall
               /\ upstream = "finished"
                    => ~m.reasoning /\ ~m.text /\ m.tools = << >> /\ ~m.finish
               /\ m.tools # << >> =>
                     /\ m.tools[1].index
                          = LET n == CallsOf(sent) + (IF m.tools[1].id THEN 1 ELSE 0)
                                           IN IF n = 0 THEN 0 ELSE n - 1
                     /\ ~m.tools[1].id =>
                           /\ sent # << >> /\ sent[Len(sent)].tools # << >>
                           /\ ~m.reasoning /\ ~m.text
    <2>1. Len(chunk.tools) <= 1 /\ m \in OneCall
      BY <1>2, <1>8 DEF conforms, OneCall
    <2>2. m.tools = << >> <=> chunk.tools = << >>
      BY <1>2, <1>6, EmptySeq
    <2>3. upstream = "finished" => ~m.reasoning /\ ~m.text /\ m.tools = << >> /\ ~m.finish
      BY <1>2, <1>8, <2>2 DEF conforms, content
    <2>4. ASSUME m.tools # << >>
          PROVE  /\ m.tools[1].index
                      = LET n == CallsOf(sent) + (IF m.tools[1].id THEN 1 ELSE 0)
                                       IN IF n = 0 THEN 0 ELSE n - 1
                 /\ ~m.tools[1].id =>
                        /\ sent # << >> /\ sent[Len(sent)].tools # << >>
                        /\ ~m.reasoning /\ ~m.text
      <3>1. Len(chunk.tools) = 1 /\ 1 \in 1..Len(chunk.tools) /\ chunk.tools # << >>
        BY <1>6, <2>1, <2>2, <2>4, LenOne
      <3>2. SubSeq(chunk.tools, 1, 1) = chunk.tools
        BY <1>6, <3>1
      <3>3. callsIn(SubSeq(chunk.tools, 1, 1)) = IF chunk.tools[1].id THEN 1 ELSE 0
        BY <1>6, <2>1, <3>1, <3>2, CallsInOne
      <3>4. m.tools[1].id = chunk.tools[1].id
        BY <1>2, <3>1
      <3>5. m.tools[1].index = LET n == CallsOf(sent) + callsIn(SubSeq(chunk.tools, 1, 1))
              IN IF n = 0 THEN 0 ELSE n - 1
        BY <1>2, <3>1
      <3>6. ~m.tools[1].id
              => sent # << >> /\ sent[Len(sent)].tools # << >> /\ ~m.reasoning /\ ~m.text
        BY <1>2, <1>8, <3>1, <3>4 DEF conforms
      <3> QED BY <3>3, <3>4, <3>5, <3>6
    <2> QED BY <2>1, <2>3, <2>4
  <1>9. style = "single" /\ CallsOf(sent) > 0 => ~m.text /\ callsIn(m.tools) = 0
    <2> SUFFICES ASSUME style = "single", CallsOf(sent) > 0
                 PROVE ~m.text /\ callsIn(m.tools) = 0
      OBVIOUS
    <2>1. callsIn(m.tools) = callsIn(chunk.tools)
      <3>1. {i \in 1..Len(m.tools) : m.tools[i].id}
              = {i \in 1..Len(chunk.tools) : chunk.tools[i].id}
        BY <1>2
      <3> QED BY <3>1 DEF callsIn
    <2> QED BY <1>2, <1>5, <2>1
  <1>10. upstream' = (IF m.finish THEN "finished" ELSE upstream)
      BY <1>2, <1>3
  <1> QED BY <1>2, <1>3, <1>4, <1>7, <1>8, <1>9, <1>10

\* What a chat upstream sends are chunks, of at most one tool call when it
\* conforms.
LEMMA ChunksIsInvariant == Spec => []ChunksInv
  <1>1. Init => ChunksInv
      BY DEF Init, ChunksInv
  <1>2. ASSUME SentInv, ChunksInv, [Next]_vars PROVE ChunksInv'
    <2>1. CASE sent' = sent /\ conv' = conv /\ style' = style
      BY <1>2, <2>1 DEF ChunksInv
    <2>2. CASE ConvertEvent
      <3>1. conv' = conv /\ style' = style
        BY <2>2, Zenon DEF ConvertEvent
      <3>2. CASE conv.from = "chat"
        <4>1. PICK chunk \in Chunk : SendsChunk(chunk)
          BY <2>2, <3>2 DEF ConvertEvent
        <4>2. PICK m \in UpChunk : sent' = Append(sent, m)
                /\ (style \in {"conforming", "single"} => m \in OneCall)
          BY <1>2, <3>2, <4>1, ChunkStep
        <4>3. style \in {"conforming", "single", "any"}
          BY <1>2, <3>2, ConverterIs DEF SentInv
        <4>4. sent \in Seq(UpChunk) /\ (style # "any" => sent \in Seq(OneCall))
          BY <1>2, <3>2 DEF ChunksInv
        <4>5. sent' \in Seq(UpChunk) /\ (style # "any" => sent' \in Seq(OneCall))
          BY <4>2, <4>3, <4>4
        <4> QED BY <3>1, <4>5 DEF ChunksInv
      <3>3. CASE conv.from # "chat"
        BY <3>1, <3>3 DEF ChunksInv
      <3> QED BY <3>2, <3>3
    <2>3. CASE ConvertDone
      BY <2>1, <2>3, Zenon DEF ConvertDone
    <2>4. CASE EndStream
      BY <2>1, <2>4, Zenon DEF EndStream
    <2>5. CASE Deliver
      BY <2>1, <2>5, Zenon DEF Deliver
    <2>6. CASE UNCHANGED vars
      BY <2>1, <2>6 DEF vars
    <2> QED BY <1>2, <2>2, <2>3, <2>4, <2>5, <2>6, Zenon DEF Next
  <1> QED BY <1>1, <1>2, SentIsInvariant, PTL DEF Spec

\* What the blocks and the content a Claude client has been sent say of the
\* chat upstream and the context.
FromChat(c, v, up, es) ==
    /\ up \in {"open", "finished", "done", "over"}
    /\ up \in {"open", "finished"} =>
          /\ ~v.stopped
          /\ v.reason <=> up = "finished"
          /\ ~v.reason /\ v.kind = "none" => c.content_index = v.blocks
    /\ v.started /\ v.stopped => v.reason
    /\ up \in {"done", "over"} => v.kind = "none" /\ (v.started => v.stopped)
    /\ up = "open" /\ es # << >> => es[Len(es)].tools = << >> \/ v.kind = "tool_use"
    /\ v.calls = CallsOf(es) /\ v.said = contentOfChunks(es, Kinds)

ToClaudeInv ==
    conv.name = "cc_openai" /\ style = "conforming" =>
        /\ delivered \in Seq(ClaudeEvent)
        /\ Tracks(delivered, [ctx |-> ctx, out |-> wire])
        /\ FromChat(ctx, View(delivered, [ctx |-> ctx, out |-> wire]), upstream, sent)

\* The invariant of openai_stream_to_claude at the start of a stream.
LEMMA ToClaudeInit == Init => ToClaudeInv
  <1> SUFFICES ASSUME Init, conv.name = "cc_openai" PROVE ToClaudeInv
      BY DEF ToClaudeInv
  <1>1. conv \in Converters /\ sent = << >> /\ wire = << >> /\ delivered = << >>
          /\ ctx = NewContext(conv) /\ upstream = "open"
      BY Zenon DEF Init
  <1>2. ctx = ToClaude!NewContext
      BY <1>1 DEF NewContext
  <1>3. ctx \in ChatCtx /\ << >> \in Seq(ClaudeEvent) /\ << >> \o << >> = << >>
      BY <1>2 DEF ToClaude!NewContext, ChatCtx
  <1> DEFINE r == [ctx |-> ctx, out |-> wire]
             v == View(delivered, r)
  <1>4. r \in ToClaudeResult /\ r.ctx = ctx /\ r.out = << >>
      BY <1>1, <1>3 DEF ToClaudeResult
  <1>5. v = [started |-> FALSE, stopped |-> FALSE, reason |-> FALSE, calls |-> 0,
             blocks |-> 0, said |-> << >>, kind |-> "none"]
        /\ CValid(delivered \o r.out) /\ CView(delivered \o r.out) = v
      BY <1>1, <1>3, <1>4, CValidEmpty DEF View
  <1> HIDE DEF r, v
  <1>6. Linked(ctx, v)
      BY <1>2, <1>5 DEF Linked, ToClaude!NewContext
  <1>7. Tracks(delivered, r)
      BY <1>4, <1>5, <1>6 DEF Tracks
  <1>8. CallsOf(<< >>) = 0 /\ contentOfChunks(<< >>, Kinds) = << >>
    <2>1. DOMAIN << >> = 1..0 /\ 0 \in Nat
      OBVIOUS
    <2>2. CallsOf(<< >>) = 0
      BY <2>1, CallsFold
    <2>3. contentOfChunks(<< >>, Kinds) = << >>
      BY DEF contentOfChunks, FlattenSeq
    <2> QED BY <2>2, <2>3
  <1>9. FromChat(ctx, v, upstream, sent)
      BY <1>1, <1>2, <1>5, <1>8 DEF FromChat, ToClaude!NewContext
  <1> QED BY <1>1, <1>3, <1>7, <1>9 DEF ToClaudeInv, r, v

\* openai_stream_to_claude keeps its invariant.
LEMMA ToClaudeConverts ==
    ASSUME SentInv, ChunksInv, ToClaudeInv, conv.name = "cc_openai", style = "conforming",
           ConvertEvent
    PROVE  ToClaudeInv'
  <1>1. /\ wire = << >> /\ conv' = conv /\ style' = style /\ delivered' = delivered
        /\ ctx' = convert(conv.name, sent'[Len(sent')]).ctx
             /\ wire' = convert(conv.name, sent'[Len(sent')]).out
        /\ upstream \in {"open", "finished"}
      BY Zenon DEF ConvertEvent, apply
  <1>2. conv.from = "chat" /\ conv.from # "claude" /\ conv.from # "responses"
      BY ConverterIs DEF SentInv
  <1>3. PICK chunk \in Chunk : SendsChunk(chunk)
      BY <1>2 DEF ConvertEvent
  <1>4. sent \in Seq(OneCall) /\ sent \in Seq(UpChunk)
      BY <1>2 DEF ChunksInv
  <1>5. PICK m \in UpChunk :
              /\ sent' = Append(sent, m) /\ sent'[Len(sent')] = m
              /\ upstream' = (IF m.finish THEN "finished" ELSE upstream)
              /\ m \in OneCall
              /\ upstream = "finished"
                   => ~m.reasoning /\ ~m.text /\ m.tools = << >> /\ ~m.finish
              /\ m.tools # << >> =>
                    /\ m.tools[1].index
                         = LET n == CallsOf(sent) + (IF m.tools[1].id THEN 1 ELSE 0)
                                          IN IF n = 0 THEN 0 ELSE n - 1
                    /\ ~m.tools[1].id =>
                          /\ sent # << >> /\ sent[Len(sent)].tools # << >>
                          /\ ~m.reasoning /\ ~m.text
      BY <1>2, <1>3, ChunkStep
  <1> DEFINE r == [ctx |-> ctx, out |-> << >>]
             v == View(delivered, r)
  <1>6. /\ delivered \in Seq(ClaudeEvent) /\ Tracks(delivered, r)
             /\ FromChat(ctx, v, upstream, sent)
      BY <1>1 DEF ToClaudeInv
  <1>7. v \in ViewType /\ CValid(delivered \o r.out) /\ CView(delivered \o r.out) = v
      BY <1>6, TracksHas DEF View
  <1> DEFINE s == ToClaude!openai_stream_to_claude(ctx, m)
             w == View(delivered, s)
  <1>8. ctx' = s.ctx /\ wire' = s.out
      BY <1>1, <1>5 DEF convert
  <1>9. ~v.stopped /\ (v.reason <=> upstream = "finished")
          /\ (~v.reason /\ v.kind = "none" => ctx.content_index = v.blocks)
        /\ v.calls = CallsOf(sent) /\ v.said = contentOfChunks(sent, Kinds) /\ v.calls \in Nat
    <2> HIDE DEF r, v
    <2> QED BY <1>1, <1>6, <1>7 DEF FromChat, ViewType
  <1>10. Len(m.tools) <= 1
      BY <1>5 DEF OneCall
  <1>11. v.reason => ~m.reasoning /\ ~m.text /\ m.tools = << >> /\ ~m.finish
      BY <1>5, <1>9
  <1>12. m.tools # << >> =>
           /\ m.tools[1].id \/ (v.kind = "tool_use" /\ ~m.reasoning /\ ~m.text)
           /\ m.tools[1].index + 1 = v.calls + (IF m.tools[1].id THEN 1 ELSE 0)
    <2> HIDE DEF v, r
    <2> SUFFICES ASSUME m.tools # << >>
                 PROVE  /\ m.tools[1].id \/ (v.kind = "tool_use" /\ ~m.reasoning /\ ~m.text)
                        /\ m.tools[1].index + 1 = v.calls + (IF m.tools[1].id THEN 1 ELSE 0)
      OBVIOUS
    <2>1. upstream = "open"
      BY <1>1, <1>5
    <2>2. ~m.tools[1].id => v.kind = "tool_use" /\ ~m.reasoning /\ ~m.text
      BY <1>5, <1>6, <2>1 DEF FromChat
    <2>3. v.kind = "tool_use" => v.calls > 0
      BY <1>7, CallsPositive
    <2>4. m.tools[1].index = LET n == v.calls + (IF m.tools[1].id THEN 1 ELSE 0) IN IF n = 0
            THEN 0 ELSE n - 1
      BY <1>5, <1>9
    <2> QED BY <1>9, <2>2, <2>3, <2>4
  <1>13. /\ Tracks(delivered, s) /\ w.started /\ ~w.stopped
         /\ w.reason <=> v.reason \/ m.finish
         /\ ~w.reason /\ w.kind = "none" => s.ctx.content_index = w.blocks
         /\ Told(v, w, m)
         /\ m.tools # << >> /\ ~m.finish => w.kind = "tool_use"
    <2> DEFINE V == v
    <2>0. V = View(delivered, [ctx |-> ctx, out |-> << >>])
      OBVIOUS
    <2> HIDE DEF V
    <2>1. /\ Tracks(delivered, s) /\ w.started /\ ~w.stopped
          /\ w.reason <=> V.reason \/ m.finish
          /\ ~w.reason /\ w.kind = "none" => s.ctx.content_index = w.blocks
          /\ Told(V, w, m)
          /\ m.tools # << >> /\ ~m.finish => w.kind = "tool_use"
      <3>1. ~V.stopped /\ (~V.reason /\ V.kind = "none" => ctx.content_index = V.blocks)
            /\ (V.reason => ~m.reasoning /\ ~m.text /\ m.tools = << >> /\ ~m.finish)
            /\ (m.tools # << >> =>
                  /\ m.tools[1].id \/ (V.kind = "tool_use" /\ ~m.reasoning /\ ~m.text)
                  /\ m.tools[1].index + 1 = V.calls + (IF m.tools[1].id THEN 1 ELSE 0))
        BY <1>9, <1>11, <1>12, Zenon DEF V
      <3>2. Tracks(delivered, [ctx |-> ctx, out |-> << >>])
        BY <1>6
      <3> HIDE DEF r, v
      <3> QED BY <1>6, <1>10, <2>0, <3>1, <3>2, ChunkConverted
    <2> QED BY <2>1, Zenon DEF V
  <1> HIDE DEF r, v, s, w
  <1>14. FromChat(s.ctx, w, upstream', sent')
    <2>1. upstream' \in {"open", "finished"} /\ (w.reason <=> upstream' = "finished")
      BY <1>1, <1>5, <1>9, <1>13
    <2>2. sent' # << >>
            => sent'[Len(sent')].tools = << >> \/ upstream' # "open" \/ w.kind = "tool_use"
      BY <1>5, <1>13
    <2>3. CallsOf(sent') = CallsOf(sent) + callsIn(m.tools)
      BY <1>4, <1>5, CallsAppend
    <2>4. contentOfChunks(sent', Kinds) = contentOfChunks(sent, Kinds)
            \o contentOfChunk(m, Kinds)
      BY <1>4, <1>5, ContentOfChunksAppend
    <2>5. w.calls = CallsOf(sent') /\ w.said = contentOfChunks(sent', Kinds)
      BY <1>9, <1>13, <2>3, <2>4 DEF Told
    <2> QED BY <1>13, <2>1, <2>2, <2>5 DEF FromChat
  <1>15. [ctx |-> s.ctx, out |-> s.out] = s
    <2>1. s \in ToClaudeResult
      BY <1>13 DEF Tracks
    <2> QED BY <2>1 DEF ToClaudeResult
  <1>16. [ctx |-> ctx', out |-> wire'] = s
      BY <1>8, <1>15
  <1>17. Tracks(delivered', [ctx |-> ctx', out |-> wire'])
           /\ FromChat(ctx', View(delivered', [ctx |-> ctx', out |-> wire']), upstream',
                       sent')
         /\ delivered' \in Seq(ClaudeEvent)
      BY <1>1, <1>6, <1>8, <1>13, <1>14, <1>16 DEF w
  <1> QED BY <1>17 DEF ToClaudeInv

\* finalize_openai_stream_to_claude keeps the invariant.
LEMMA ToClaudeFinalizes ==
    ASSUME ToClaudeInv, conv.name = "cc_openai", style = "conforming", wire = << >>,
           delivered' = delivered, sent' = sent,
           ctx' = ToClaude!finalize_openai_stream_to_claude(ctx).ctx,
               wire' = ToClaude!finalize_openai_stream_to_claude(ctx).out,
           upstream' \in {"done", "over"}
    PROVE  ToClaudeInv'
  <1> DEFINE r == [ctx |-> ctx, out |-> << >>]
             v == View(delivered, r)
             s == ToClaude!finalize_openai_stream_to_claude(ctx)
             w == View(delivered, s)
  <1>1. /\ delivered \in Seq(ClaudeEvent) /\ Tracks(delivered, r)
             /\ FromChat(ctx, v, upstream, sent)
      BY DEF ToClaudeInv
  <1>2. v.started /\ v.stopped => v.reason
    <2> HIDE DEF v
    <2> QED BY <1>1 DEF FromChat
  <1>3. /\ Tracks(delivered, s) /\ w.kind = "none"
        /\ w.started = v.started
        /\ w.started => w.stopped /\ w.reason
        /\ w.said = v.said /\ w.calls = v.calls
      BY <1>1, <1>2, Finalized
  <1> HIDE DEF r, v, s, w
  <1>4. FromChat(s.ctx, w, upstream', sent')
      BY <1>1, <1>3 DEF FromChat
  <1>5. [ctx |-> s.ctx, out |-> s.out] = s
    <2>1. s \in ToClaudeResult
      BY <1>3 DEF Tracks
    <2> QED BY <2>1 DEF ToClaudeResult
  <1>6. ctx' = s.ctx /\ wire' = s.out
      BY DEF s
  <1>7. [ctx |-> ctx', out |-> wire'] = s
      BY <1>5, <1>6
  <1>8. Tracks(delivered', [ctx |-> ctx', out |-> wire'])
          /\ FromChat(ctx', View(delivered', [ctx |-> ctx', out |-> wire']), upstream', sent')
         /\ delivered' \in Seq(ClaudeEvent)
      BY <1>1, <1>3, <1>4, <1>6, <1>7 DEF w
  <1> QED BY <1>8 DEF ToClaudeInv

\* Every step keeps the invariant of openai_stream_to_claude.
LEMMA ToClaudeInvNext == SentInv /\ ChunksInv /\ ToClaudeInv /\ [Next]_vars => ToClaudeInv'
  <1> SUFFICES ASSUME SentInv, ChunksInv, ToClaudeInv, [Next]_vars PROVE ToClaudeInv'
      OBVIOUS
  <1>0. conv' = conv /\ style' = style
      BY Zenon DEF Next, vars, ConvertEvent, ConvertDone, EndStream, Deliver
  <1>1. CASE ~(conv.name = "cc_openai" /\ style = "conforming")
      BY <1>0, <1>1 DEF ToClaudeInv
  <1>2. CASE conv.name = "cc_openai" /\ style = "conforming"
    <2>1. CASE ConvertEvent
      BY <1>2, <2>1, ToClaudeConverts
    <2>2. CASE ConvertDone
      <3>1. /\ wire = << >> /\ delivered' = delivered /\ sent' = sent /\ upstream' = "done"
            /\ ctx' = ToClaude!finalize_openai_stream_to_claude(ctx).ctx
                 /\ wire' = ToClaude!finalize_openai_stream_to_claude(ctx).out
        BY <1>2, <2>2 DEF ConvertDone, apply
      <3>2. upstream' \in {"done", "over"}
        BY <3>1
      <3> QED BY <1>2, <3>1, <3>2, ToClaudeFinalizes
    <2>3. CASE EndStream
      <3>1. wire = << >> /\ ctx' = finalize(conv.name).ctx /\ wire' = finalize(conv.name).out
              /\ sent' = sent /\ delivered' = delivered
            /\ upstream' = "over"
        BY <2>3, Zenon DEF EndStream, apply
      <3>2. finalize(conv.name) = ToClaude!finalize_openai_stream_to_claude(ctx)
        BY <1>2 DEF finalize
      <3>3. /\ ctx' = ToClaude!finalize_openai_stream_to_claude(ctx).ctx
                 /\ wire' = ToClaude!finalize_openai_stream_to_claude(ctx).out
            /\ upstream' \in {"done", "over"}
        BY <3>1, <3>2
      <3> QED BY <1>2, <3>1, <3>3, ToClaudeFinalizes
    <2>4. CASE Deliver
      <3>1. /\ wire # << >> /\ Moves(delivered, wire, delivered', wire') /\ ctx' = ctx
                 /\ sent' = sent /\ upstream' = upstream
        BY <1>2, <2>4 DEF Deliver, Moves
      <3> DEFINE r == [ctx |-> ctx, out |-> wire]
                 s == [ctx |-> ctx', out |-> wire']
      <3>2. /\ delivered \in Seq(ClaudeEvent) /\ Tracks(delivered, r)
                 /\ FromChat(ctx, View(delivered, r), upstream, sent)
        BY <1>2 DEF ToClaudeInv
      <3>3. wire \in Seq(ClaudeEvent) /\ ctx \in ChatCtx /\ r.ctx = ctx /\ r.out = wire
              /\ s.ctx = ctx' /\ s.out = wire'
        BY <3>2 DEF Tracks, ToClaudeResult
      <3>4. delivered' \in Seq(ClaudeEvent) /\ wire' \in Seq(ClaudeEvent)
              /\ delivered' \o wire' = delivered \o wire
        BY <3>1, <3>2, <3>3, Moved
      <3>5. s \in ToClaudeResult
        BY <3>1, <3>3, <3>4 DEF ToClaudeResult
      <3> HIDE DEF r, s
      <3>6. Tracks(delivered', s) /\ View(delivered', s) = View(delivered, r)
        BY <3>1, <3>2, <3>3, <3>4, <3>5 DEF Tracks, View
      <3>7. FromChat(ctx', View(delivered', s), upstream', sent')
        BY <3>1, <3>2, <3>6
      <3> QED BY <3>4, <3>6, <3>7 DEF ToClaudeInv, s
    <2>5. CASE UNCHANGED vars
      BY <2>5 DEF vars, ToClaudeInv
    <2> QED BY <2>1, <2>2, <2>3, <2>4, <2>5, Zenon DEF Next
  <1> QED BY <1>1, <1>2

-----------------------------------------------------------------------------
(* The effort derived from a thinking budget, for every budget.            *)

\* Every budget is mapped to an effort.
LEMMA LadderInEfforts ==
    ASSUME NEW b \in Int
    PROVE  desired_effort(b) \in Efforts
  BY DEF desired_effort, Efforts

\* A larger budget is never mapped to a lower effort.
LEMMA LadderRises ==
    ASSUME NEW b1 \in Int, NEW b2 \in Int, 0 < b1, b1 <= b2
    PROVE  rank(desired_effort(b1)) <= rank(desired_effort(b2))
  BY DEF desired_effort, rank

\* The clamp yields an effort the model has, and keeps the order of two efforts.
LEMMA ClampKeepsOrder ==
    ASSUME NEW m \in Models, NEW e1 \in Efforts, NEW e2 \in Efforts, rank(e1) <= rank(e2)
    PROVE  /\ clamp_openai_reasoning_effort_for_model(e1, m) \in supported(m)
           /\ rank(clamp_openai_reasoning_effort_for_model(e1, m))
                <= rank(clamp_openai_reasoning_effort_for_model(e2, m))
  BY DEF clamp_openai_reasoning_effort_for_model, model_supports_xhigh,
         supported, rank, Models, Efforts

(* Whatever budgets a Claude client sets, the effort derived from them by  *)
(* claude_thinking_to_openai_reasoning_effort is one the model accepts and *)
(* does not fall when the budget grows.                                    *)
THEOREM EffortFitsEveryBudget == EffortLadder
  <1> SUFFICES ASSUME NEW b1 \in Int, NEW b2 \in Int, NEW m \in Models
               PROVE  effortFits(b1, b2, m)
      BY DEF EffortLadder
  <1>1. desired_effort(b1) \in Efforts /\ desired_effort(b2) \in Efforts
      BY LadderInEfforts
  <1>2. rank(desired_effort(b1)) <= rank(desired_effort(b1))
      BY <1>1 DEF rank, Efforts
  <1>3. claude_thinking_to_openai_reasoning_effort(b1, m) \in supported(m)
      BY <1>1, <1>2, ClampKeepsOrder DEF claude_thinking_to_openai_reasoning_effort
  <1>4. ASSUME 0 < b1, b1 <= b2
        PROVE  rank(claude_thinking_to_openai_reasoning_effort(b1, m))
                 <= rank(claude_thinking_to_openai_reasoning_effort(b2, m))
      BY <1>1, <1>4, LadderRises, ClampKeepsOrder
         DEF claude_thinking_to_openai_reasoning_effort
  <1> QED BY <1>3, <1>4 DEF effortFits
=============================================================================
