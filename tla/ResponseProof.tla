----------------------------- MODULE ResponseProof -----------------------------
(***************************************************************************)
(* Theorems about StreamEvents and Response, for every dialect.  First,    *)
(* each dialect's decode, given a frame of its grammar, takes well-typed   *)
(* decode states to well-typed decode states, and what a provider sends    *)
(* are frames of its dialect.  Then the driver: its variables keep their   *)
(* types, and an answer the provider did not finish is never reported as a *)
(* success.  The driver implements CanonicalStream, and how a run ends     *)
(* tells how it went.  Last, a failure is judged by what it is, and the    *)
(* calendar of Retry-After.                                                *)
(***************************************************************************)
EXTENDS Response, FiniteSetTheorems, WellFoundedInduction, TLAPS

(***************************************************************************)
(* The helpers of DecodeState: each keeps a decode state well-typed, and   *)
(* the ascending enumeration of a finite set of indices, in which          *)
(* close_open_blocks and drain stop the open blocks, exists.               *)
(***************************************************************************)
Increasing(q, n) == \A i, j \in 1..n : i < j => q[i] < q[j]

Sortable(S) == \E q \in [1..Cardinality(S) -> S] : Increasing(q, Cardinality(S))

\* A non-empty set of naturals has a least element.
LEMMA LeastElement ==
    ASSUME NEW S \in SUBSET Nat, S # {}
    PROVE  \E m \in S : \A x \in S : m <= x
<1> DEFINE R == {r \in Nat \X Nat : r[1] < r[2]}
<1>1. R = OpToRel(<, Nat)
  BY Zenon DEF OpToRel
<1>2. IsWellFoundedOn(R, Nat)
  BY <1>1, NatLessThanWellFounded, Zenon
<1> HIDE DEF R
<1>3. PICK m \in S : \A x \in S : ~ (<<x, m>> \in R)
  BY <1>2, WFMin, Zenon
<1>4. \A x \in Nat : x < m => <<x, m>> \in R
  BY DEF R
<1>5. \A x \in S : m <= x
  <2> SUFFICES ASSUME NEW x \in S PROVE m <= x
    OBVIOUS
  <2>1. ~ (x < m)
    BY <1>3, <1>4
  <2> QED  BY <2>1
<1> QED  BY <1>5

\* Every finite set of naturals can be listed in ascending order: a smallest set that
\* cannot would lose its least element and still could not.
LEMMA FiniteSetsAreSortable ==
    ASSUME NEW S \in SUBSET Nat, IsFiniteSet(S)
    PROVE  Sortable(S)
<1> DEFINE Bad == {n \in Nat : \E T \in SUBSET Nat :
                      IsFiniteSet(T) /\ Cardinality(T) = n /\ ~ Sortable(T)}
<1>1. SUFFICES ASSUME ~ Sortable(S) PROVE FALSE
  OBVIOUS
<1>2. Cardinality(S) \in Bad
  BY <1>1, FS_CardinalityType
<1>3. PICK n \in Bad : \A k \in Bad : n <= k
  BY <1>2, LeastElement
<1>4. PICK T \in SUBSET Nat : IsFiniteSet(T) /\ Cardinality(T) = n /\ ~ Sortable(T)
  OBVIOUS
<1>5. CASE T = {}
  <2>1. Cardinality(T) = 0
    BY <1>5, FS_EmptySet
  <2>2. [i \in 1..0 |-> 0] \in [1..0 -> T] /\ Increasing([i \in 1..0 |-> 0], 0)
    BY DEF Increasing
  <2> QED  BY <1>4, <2>1, <2>2 DEF Sortable
<1>6. CASE T # {}
  <2>1. PICK m \in T : \A x \in T : m <= x
    BY <1>6, LeastElement
  <2> DEFINE U == T \ {m}
  <2>2. IsFiniteSet(U) /\ Cardinality(U) = n - 1 /\ n \in Nat /\ n - 1 \in Nat
    BY <1>4, <2>1, FS_RemoveElement, FS_CardinalityType, FS_EmptySet
  <2>3. Sortable(U)
    BY <1>3, <2>2
  <2>4. PICK q \in [1..(n - 1) -> U] : Increasing(q, n - 1)
    BY <2>2, <2>3 DEF Sortable
  <2> DEFINE r == [i \in 1..n |-> IF i = 1 THEN m ELSE q[i - 1]]
  <2>5. r \in [1..n -> T]
    <3>1. \A i \in 1..n : i # 1 => i - 1 \in 1..(n - 1)
      BY <2>2
    <3> QED  BY <2>1, <2>4, <3>1
  <2>6. Increasing(r, n)
    <3> SUFFICES ASSUME NEW i \in 1..n, NEW j \in 1..n, i < j PROVE r[i] < r[j]
      BY DEF Increasing
    <3>1. j # 1 /\ j - 1 \in 1..(n - 1) /\ q[j - 1] \in U
      BY <2>2, <2>4
    <3>2. CASE i = 1
      <4>1. q[j - 1] \in Nat /\ m \in Nat /\ m <= q[j - 1] /\ m # q[j - 1]
        BY <2>1, <3>1
      <4> QED  BY <3>1, <3>2, <4>1
    <3>3. CASE i # 1
      <4>1. i - 1 \in 1..(n - 1) /\ i - 1 < j - 1
        BY <2>2, <3>3
      <4> QED  BY <2>4, <3>1, <3>3, <4>1 DEF Increasing
    <3> QED  BY <3>2, <3>3
  <2> QED  BY <1>4, <2>5, <2>6 DEF Sortable
<1> QED  BY <1>5, <1>6

\* Ascending lists exactly members of its argument, in increasing order.
LEMMA AscendingType ==
    ASSUME NEW S \in SUBSET Nat, IsFiniteSet(S)
    PROVE  /\ Ascending(S) \in [1..Cardinality(S) -> S]
           /\ Increasing(Ascending(S), Cardinality(S))
           /\ Cardinality(S) \in Nat
  BY FiniteSetsAreSortable, FS_CardinalityType DEF Sortable, Increasing, Ascending

(***************************************************************************)
(* Each helper keeps a decode state well-typed.                            *)
(***************************************************************************)
\* What IsDecodeState says of the fields, one by one.
LEMMA Fields ==
    ASSUME NEW s, IsDecodeState(s)
    PROVE  /\ s.terminated \in BOOLEAN /\ s.started \in BOOLEAN
           /\ s.refusal \in BOOLEAN /\ s.error_tag \in BOOLEAN
           /\ s.out \in Seq(Event)
           /\ IsPartialFn(s.open, Nat, Kinds)
           /\ IsPartialFn(s.tool_index, Nat, Nat)
           /\ IsPartialFn(s.part_index, Nat \X Nat, Nat)
           /\ s = [open |-> s.open, terminated |-> s.terminated, started |-> s.started,
                   tool_index |-> s.tool_index, part_index |-> s.part_index,
                   refusal |-> s.refusal, error_tag |-> s.error_tag, out |-> s.out]
  BY DEF IsDecodeState

\* Insert adds a key to a partial function.
LEMMA InsertType ==
    ASSUME NEW D, NEW R, NEW f, IsPartialFn(f, D, R), NEW k \in D, NEW v \in R
    PROVE  IsPartialFn(Insert(f, k, v), D, R)
  BY FS_AddElement DEF IsPartialFn, Insert

\* Remove takes one away.
LEMMA RemoveType ==
    ASSUME NEW D, NEW R, NEW f, IsPartialFn(f, D, R), NEW k
    PROVE  IsPartialFn(Remove(f, k), D, R)
  BY FS_RemoveElement DEF IsPartialFn, Remove

LEMMA EmptyFnType ==
    ASSUME NEW D, NEW R
    PROVE  IsPartialFn(EmptyFn, D, R)
  BY FS_EmptySet DEF IsPartialFn, EmptyFn

LEMMA EmitType ==
    ASSUME NEW s, IsDecodeState(s), NEW e \in Event
    PROVE  IsDecodeState(Emit(s, e))
  BY DEF IsDecodeState, Emit

\* The constructors build events.
LEMMA EventTypes ==
    /\ MessageStart \in Event /\ Usage \in Event /\ End \in Event
    /\ \A i \in Nat, k \in Kinds, b \in Pieces : ContentStart(i, k, b) \in Event
    /\ \A i \in Nat, d \in Deltas, b \in Pieces : ContentDelta(i, d, b) \in Event
    /\ \A i \in Nat : ContentStop(i) \in Event
    /\ \A r \in Reasons : Finish(r) \in Event
    /\ \A k \in ErrorKinds, n \in Nat : ErrorWith(k, n) \in Event
    /\ \A k \in ErrorKinds : Error(k) \in Event
  BY DEF MessageStart, Usage, End, ContentStart, ContentDelta, ContentStop, Finish,
         ErrorWith, Error, Event

LEMMA OpenBlockType ==
    ASSUME NEW s, IsDecodeState(s), NEW i \in Nat, NEW k \in Kinds, NEW b \in Pieces
    PROVE  IsDecodeState(OpenBlock(s, i, k, b))
<1> DEFINE t == [s EXCEPT !.open = Insert(s.open, i, k)]
<1>1. IsPartialFn(Insert(s.open, i, k), Nat, Kinds)
  BY Fields, InsertType
<1>2. IsDecodeState(t)
  BY <1>1 DEF IsDecodeState
<1>3. IsDecodeState(Emit(t, ContentStart(i, k, b)))
  BY <1>2, EmitType, EventTypes
<1> QED  BY <1>3 DEF OpenBlock

LEMMA NextIndexType ==
    ASSUME NEW s, IsDecodeState(s)
    PROVE  NextIndex(s) \in Nat
  BY Fields, FS_CardinalityType DEF NextIndex, IsPartialFn

\* A fragment of a lazy block finds its block open, opening it if need be.
LEMMA LazyDeltaType ==
    ASSUME NEW s, IsDecodeState(s), NEW k \in Kinds, NEW d \in Deltas
    PROVE  IsDecodeState(LazyDelta(s, k, d))
<1> DEFINE t == OpenLazy(s, k)
<1>1. IsDecodeState(t)
  <2>1. k \in Pieces
    BY DEF Pieces
  <2> QED  BY <2>1, OpenBlockType, NextIndexType DEF OpenLazy
<1>2. OpenOf(t, k) # {}
  <2>1. CASE OpenOf(s, k) = {}
    <3>1. t.open = Insert(s.open, NextIndex(s), k)
      BY <2>1, Fields DEF OpenLazy, OpenBlock, Emit
    <3>2. NextIndex(s) \in OpenOf(t, k)
      BY <3>1 DEF OpenOf, Insert
    <3> QED  BY <3>2
  <2>2. CASE OpenOf(s, k) # {}
    BY <2>2 DEF OpenLazy
  <2> QED  BY <2>1, <2>2
<1>3. (CHOOSE i \in OpenOf(t, k) : TRUE) \in Nat
  BY <1>1, <1>2, Fields DEF OpenOf, IsPartialFn
<1> HIDE DEF t
<1>4. k \in Pieces
  BY DEF Pieces
<1>5. IsDecodeState(Emit(t, ContentDelta(CHOOSE i \in OpenOf(t, k) : TRUE, d, k)))
  BY <1>1, <1>3, <1>4, EmitType, EventTypes
<1> QED  BY <1>5 DEF LazyDelta, t

LEMMA StartMessageType ==
    ASSUME NEW s, IsDecodeState(s)
    PROVE  IsDecodeState(StartMessage(s))
<1>1. IsDecodeState([s EXCEPT !.started = TRUE])
  BY DEF IsDecodeState
<1> QED  BY <1>1, EmitType, EventTypes DEF StartMessage

LEMMA StopsType ==
    ASSUME NEW S \in SUBSET Nat, IsFiniteSet(S)
    PROVE  Stops(S) \in Seq(Event)
<1>1. \A n \in 1..Cardinality(S) : Ascending(S)[n] \in Nat
  BY AscendingType
<1>2. Stops(S) \in [1..Cardinality(S) -> Event]
  BY <1>1, EventTypes DEF Stops
<1> QED  BY <1>2, AscendingType

\* Closing what is open leaves nothing open.
LEMMA DrainType ==
    ASSUME NEW s, IsDecodeState(s)
    PROVE  IsDecodeState(Drain(s)) /\ DOMAIN Drain(s).open = {}
<1>1. Stops(DOMAIN s.open) \in Seq(Event)
  BY Fields, StopsType DEF IsPartialFn
<1>2. s.out \o Stops(DOMAIN s.open) \in Seq(Event)
  BY <1>1, Fields
<1>3. IsPartialFn(EmptyFn, Nat, Kinds)
  BY EmptyFnType
<1>4. Drain(s) = [s EXCEPT !.open = EmptyFn, !.out = s.out \o Stops(DOMAIN s.open)]
  BY DEF Drain
<1>5. IsDecodeState(Drain(s))
  BY <1>2, <1>3, <1>4 DEF IsDecodeState
<1>6. Drain(s).open = EmptyFn
  BY <1>4, Fields
<1> QED  BY <1>5, <1>6 DEF EmptyFn

(***************************************************************************)
(* The dialects.                                                           *)
(***************************************************************************)
\* The kinds a lazy block can have.
LEMMA LazyBlockTypes ==
    ASSUME NEW s, IsDecodeState(s)
    PROVE  /\ IsDecodeState(LazyDelta(s, "Text", "TextDelta"))
           /\ IsDecodeState(LazyDelta(s, "Thinking", "ThinkingDelta"))
<1>1. /\ "Text" \in Kinds /\ "Thinking" \in Kinds
      /\ "TextDelta" \in Deltas /\ "ThinkingDelta" \in Deltas
  BY DEF Kinds, Deltas
<1> QED  BY <1>1, LazyDeltaType

\* Setting a flag.
LEMMA FlagTypes ==
    ASSUME NEW s, IsDecodeState(s), NEW b \in BOOLEAN
    PROVE  /\ IsDecodeState([s EXCEPT !.terminated = b])
           /\ IsDecodeState([s EXCEPT !.refusal = b])
           /\ IsDecodeState([s EXCEPT !.error_tag = b])
  BY DEF IsDecodeState

(***************************************************************************)
(* OpenAI chat completions.                                                *)
(***************************************************************************)
LEMMA ToolCallType ==
    ASSUME NEW s, IsDecodeState(s), NEW f, f.tool \in Nat, f.block \in Pieces
    PROVE  IsDecodeState(ToolCall(f, s))
<1> DEFINE i == NextIndex(s)
           u == [s EXCEPT !.tool_index = Insert(@, f.tool, i)]
           t == IF f.tool \in DOMAIN s.tool_index THEN s ELSE OpenBlock(u, i, "ToolUse", f.block)
<1>1. i \in Nat
  BY NextIndexType
<1>2. IsPartialFn(Insert(s.tool_index, f.tool, i), Nat, Nat)
  BY <1>1, Fields, InsertType
<1>3. IsDecodeState(u)
  BY <1>2 DEF IsDecodeState
<1>4. IsDecodeState(t)
  BY <1>1, <1>3, OpenBlockType DEF Kinds
<1>5. f.tool \in DOMAIN t.tool_index
  <2>1. CASE f.tool \notin DOMAIN s.tool_index
    <3>1. t.tool_index = Insert(s.tool_index, f.tool, i)
      BY <2>1, Fields DEF OpenBlock, Emit
    <3> QED  BY <3>1 DEF Insert
  <2> QED  BY <2>1
<1>6. t.tool_index[f.tool] \in Nat
  BY <1>4, <1>5, Fields DEF IsPartialFn
<1> HIDE DEF t
<1>7. IsDecodeState(Emit(t, ContentDelta(t.tool_index[f.tool], "JsonDelta", f.block)))
  BY <1>4, <1>6, EmitType, EventTypes DEF Deltas
<1> QED  BY <1>4, <1>7 DEF ToolCall, t, u, i

LEMMA FinishChatType ==
    ASSUME NEW s, IsDecodeState(s), NEW r \in Reasons
    PROVE  IsDecodeState(FinishChat(r, s))
<1> DEFINE e == Finish(IF s.refusal THEN "Refusal" ELSE r)
<1>1. e \in Event
  BY EventTypes DEF Reasons
<1>2. IsDecodeState(Emit(Drain(s), e))
  BY <1>1, DrainType, EmitType
<1> QED  BY <1>2, FlagTypes DEF FinishChat

\* openai/decode keeps the decode state well-typed.
LEMMA ChatDecodeType ==
    ASSUME NEW f \in ChatFrames, NEW s, IsDecodeState(s)
    PROVE  IsDecodeState(ChatDecode(f, s))
<1>1. CASE f.type = "done"
  BY <1>1, FlagTypes DEF ChatDecode
<1>2. CASE f.type = "error"
  <2>1. f.kind \in ErrorKinds
    BY <1>2 DEF ChatFrames
  <2> QED  BY <1>2, <2>1, EmitType, EventTypes DEF ChatDecode
<1>3. CASE f.type = "chunk"
  <2>1. /\ f.tool \in Nat \cup {NoTool} /\ f.block \in Pieces /\ f.refusal \in BOOLEAN
        /\ f.finish \in Reasons \cup {"none"}
    BY <1>3 DEF ChatFrames
  <2>2. \A t : IsDecodeState(t) => IsDecodeState(ChatThinking(f, t)) /\ IsDecodeState(ChatText(f, t))
    BY LazyBlockTypes DEF ChatThinking, ChatText
  <2>3. \A t : IsDecodeState(t) => IsDecodeState(ChatRefusal(f, t))
    <3> SUFFICES ASSUME NEW t, IsDecodeState(t) PROVE IsDecodeState(ChatRefusal(f, t))
      OBVIOUS
    <3>1. (t.refusal \/ f.refusal) \in BOOLEAN
      OBVIOUS
    <3> QED  BY <3>1, FlagTypes DEF ChatRefusal
  <2>4. \A t : IsDecodeState(t) => IsDecodeState(ChatTool(f, t))
    BY <2>1, ToolCallType DEF ChatTool
  <2>5. \A t : IsDecodeState(t) => IsDecodeState(ChatFinish(f, t))
    BY <2>1, FinishChatType DEF ChatFinish
  <2>6. \A t : IsDecodeState(t) => IsDecodeState(ChatUsage(f, t))
    BY EmitType, EventTypes DEF ChatUsage
  <2>7. IsDecodeState(ChatChunk(f, s))
    BY <2>2, <2>3, <2>4, <2>5, <2>6, StartMessageType, Zenon DEF ChatChunk
  <2> QED  BY <1>3, <2>7 DEF ChatDecode
<1> QED  BY <1>1, <1>2, <1>3 DEF ChatFrames

(***************************************************************************)
(* Anthropic messages.                                                     *)
(***************************************************************************)
LEMMA MessagesUsageType ==
    ASSUME NEW f, NEW s, IsDecodeState(s)
    PROVE  IsDecodeState(MessagesUsage(f, s))
  BY EmitType, EventTypes DEF MessagesUsage

\* anthropic/decode keeps the decode state well-typed.
LEMMA MessagesDecodeType ==
    ASSUME NEW f \in MessagesFrames, NEW s, IsDecodeState(s)
    PROVE  IsDecodeState(MessagesDecode(f, s))
<1>1. CASE f.type = "message_start"
  BY <1>1, EmitType, EventTypes, MessagesUsageType DEF MessagesDecode, MessageStartEvent
<1>2. CASE f.type = "content_block_start"
  <2>1. f.index \in Nat /\ f.kind \in Kinds \cup {"unknown"} /\ f.block \in Pieces
    BY <1>2 DEF MessagesFrames
  <2> QED  BY <1>2, <2>1, OpenBlockType DEF MessagesDecode, ContentBlockStart
<1>3. CASE f.type = "content_block_delta"
  <2>1. f.index \in Nat /\ f.delta \in Deltas \cup {"unknown"} /\ f.block \in Pieces
    BY <1>3 DEF MessagesFrames
  <2> QED  BY <1>3, <2>1, EmitType, EventTypes DEF MessagesDecode, ContentBlockDelta
<1>4. CASE f.type = "content_block_stop"
  <2> DEFINE t == [s EXCEPT !.open = Remove(s.open, f.index)]
  <2>1. f.index \in Nat
    BY <1>4 DEF MessagesFrames
  <2>2. IsPartialFn(Remove(s.open, f.index), Nat, Kinds)
    BY Fields, RemoveType
  <2>3. IsDecodeState(t)
    BY <2>2 DEF IsDecodeState
  <2>4. IsDecodeState(Emit(t, ContentStop(f.index)))
    BY <2>1, <2>3, EmitType, EventTypes
  <2>5. IsDecodeState(ContentBlockStop(f, s))
    BY <2>4 DEF ContentBlockStop
  <2> QED  BY <1>4, <2>5 DEF MessagesDecode
<1>5. CASE f.type = "message_delta"
  <2>1. f.reason \in Reasons \cup {"none"}
    BY <1>5 DEF MessagesFrames
  <2>2. IsDecodeState(MessageDelta(f, s))
    BY <2>1, MessagesUsageType, EmitType, EventTypes DEF MessageDelta
  <2> QED  BY <1>5, <2>2 DEF MessagesDecode
<1>6. CASE f.type = "message_stop"
  BY <1>6, FlagTypes DEF MessagesDecode
<1>7. CASE f.type = "error"
  <2>1. f.kind \in ErrorKinds
    BY <1>7 DEF MessagesFrames
  <2> QED  BY <1>7, <2>1, EmitType, EventTypes DEF MessagesDecode
<1>8. CASE f.type = "ping"
  BY <1>8 DEF MessagesDecode
<1> QED  BY <1>1, <1>2, <1>3, <1>4, <1>5, <1>6, <1>7, <1>8 DEF MessagesFrames

(***************************************************************************)
(* Blocks that are opened and filled in one go.                            *)
(***************************************************************************)
LEMMA WholeBlockType ==
    ASSUME NEW s, IsDecodeState(s), NEW k \in Kinds, NEW d \in Deltas, NEW b \in Pieces
    PROVE  IsDecodeState(Emit(OpenBlock(s, NextIndex(s), k, b), ContentDelta(NextIndex(s), d, b)))
<1>1. IsDecodeState(OpenBlock(s, NextIndex(s), k, b))
  BY NextIndexType, OpenBlockType
<1>2. ContentDelta(NextIndex(s), d, b) \in Event
  BY NextIndexType, EventTypes
<1> QED  BY <1>1, <1>2, EmitType

(***************************************************************************)
(* Google generateContent.                                                 *)
(***************************************************************************)
LEMMA GenaiUsageType ==
    ASSUME NEW f, NEW s, IsDecodeState(s)
    PROVE  IsDecodeState(GenaiUsage(f, s))
  BY EmitType, EventTypes DEF GenaiUsage

LEMMA PartCallType ==
    ASSUME NEW f, f.block \in Pieces, NEW s, IsDecodeState(s)
    PROVE  IsDecodeState(PartCall(f, s))
<1> DEFINE i == NextIndex(s)
           t == Emit(OpenBlock(s, i, "ToolUse", f.block), ContentDelta(i, "JsonDelta", f.block))
<1>1. "ToolUse" \in Kinds /\ "JsonDelta" \in Deltas /\ "SignatureDelta" \in Deltas
  BY DEF Kinds, Deltas
<1>2. IsDecodeState(t)
  BY <1>1, WholeBlockType
<1>3. ContentDelta(i, "SignatureDelta", f.block) \in Event
  BY <1>1, NextIndexType, EventTypes
<1> HIDE DEF t
<1>4. IsDecodeState(Emit(t, ContentDelta(i, "SignatureDelta", f.block)))
  BY <1>2, <1>3, EmitType
<1> QED  BY <1>2, <1>4 DEF PartCall, t, i

LEMMA PartImageType ==
    ASSUME NEW f, f.block \in Pieces, NEW s, IsDecodeState(s)
    PROVE  IsDecodeState(PartImage(f, s))
<1>1. "Image" \in Kinds /\ "ImageDelta" \in Deltas
  BY DEF Kinds, Deltas
<1> QED  BY <1>1, WholeBlockType DEF PartImage

LEMMA GenaiTerminateType ==
    ASSUME NEW r \in Reasons, NEW f, NEW s, IsDecodeState(s)
    PROVE  IsDecodeState(GenaiTerminate(r, f, s))
<1>1. IsDecodeState(Emit(GenaiUsage(f, Drain(s)), Finish(r)))
  BY DrainType, GenaiUsageType, EmitType, EventTypes
<1> QED  BY <1>1, FlagTypes DEF GenaiTerminate

\* google_genai/decode keeps the decode state well-typed.
LEMMA GenaiDecodeType ==
    ASSUME NEW f \in GenaiFrames, NEW s, IsDecodeState(s)
    PROVE  IsDecodeState(GenaiDecode(f, s))
<1>1. CASE f.type = "error"
  <2>1. f.kind \in ErrorKinds
    BY <1>1 DEF GenaiFrames
  <2> QED  BY <1>1, <2>1, EmitType, EventTypes DEF GenaiDecode
<1>2. CASE f.type = "chunk"
  <2>1. f.block \in Pieces /\ f.finish \in Reasons \cup {"none"}
    BY <1>2 DEF GenaiFrames
  <2>2. \A t : IsDecodeState(t) => IsDecodeState(PartText(f, t))
    BY LazyBlockTypes DEF PartText
  <2>3. \A t : IsDecodeState(t) => IsDecodeState(PartCall(f, t)) /\ IsDecodeState(PartImage(f, t))
    BY <2>1, PartCallType, PartImageType
  <2>4. \A t : IsDecodeState(t) => IsDecodeState(GenaiEnd(f, t))
    <3> SUFFICES ASSUME NEW t, IsDecodeState(t) PROVE IsDecodeState(GenaiEnd(f, t))
      OBVIOUS
    <3>1. f.finish # "none" => GenaiReason(f.finish, t) \in Reasons
      BY <2>1 DEF GenaiReason, Reasons
    <3>2. "Refusal" \in Reasons
      BY DEF Reasons
    <3> QED  BY <3>1, <3>2, GenaiTerminateType, GenaiUsageType DEF GenaiEnd
  <2>5. IsDecodeState(GenaiChunk(f, s))
    BY <2>2, <2>3, <2>4, StartMessageType, Zenon DEF GenaiChunk
  <2> QED  BY <1>2, <2>5 DEF GenaiDecode
<1> QED  BY <1>1, <1>2 DEF GenaiFrames

(***************************************************************************)
(* Ollama chat.                                                            *)
(***************************************************************************)
\* ollama_chat/decode keeps the decode state well-typed.
LEMMA OllamaDecodeType ==
    ASSUME NEW f \in OllamaFrames, NEW s, IsDecodeState(s)
    PROVE  IsDecodeState(OllamaDecode(f, s))
<1>1. CASE f.type = "error"
  <2>1. "Transport" \in ErrorKinds
    BY DEF ErrorKinds
  <2> QED  BY <1>1, <2>1, EmitType, EventTypes DEF OllamaDecode
<1>2. CASE f.type = "line"
  <2>1. f.block \in Pieces /\ f.reason \in Reasons
    BY <1>2 DEF OllamaFrames
  <2>2. \A t : IsDecodeState(t) => IsDecodeState(LineThinking(f, t)) /\ IsDecodeState(LineText(f, t))
    BY LazyBlockTypes DEF LineThinking, LineText
  <2>3. \A t : IsDecodeState(t) => IsDecodeState(LineCall(f, t))
    <3>1. "ToolUse" \in Kinds /\ "JsonDelta" \in Deltas
      BY DEF Kinds, Deltas
    <3> QED  BY <2>1, <3>1, WholeBlockType DEF LineCall
  <2>4. \A t : IsDecodeState(t) => IsDecodeState(FinishLine(f, t))
    <3> SUFFICES ASSUME NEW t, IsDecodeState(t) PROVE IsDecodeState(FinishLine(f, t))
      OBVIOUS
    <3>1. OllamaReason(f.reason, t) \in Reasons
      BY <2>1 DEF OllamaReason, Reasons
    <3>2. IsDecodeState(Emit(Emit(Drain(t), Usage), Finish(OllamaReason(f.reason, t))))
      BY <3>1, DrainType, EmitType, EventTypes
    <3> QED  BY <3>2, FlagTypes DEF FinishLine
  <2>5. IsDecodeState(OllamaLine(f, s))
    BY <2>2, <2>3, <2>4, StartMessageType DEF OllamaLine
  <2> QED  BY <1>2, <2>5 DEF OllamaDecode
<1> QED  BY <1>1, <1>2 DEF OllamaFrames

(***************************************************************************)
(* The claude subprocess.                                                  *)
(***************************************************************************)
\* claude_code/decode keeps the decode state well-typed.
LEMMA ClaudeDecodeType ==
    ASSUME NEW f \in ClaudeFrames, NEW s, IsDecodeState(s)
    PROVE  IsDecodeState(ClaudeDecode(f, s))
<1>1. CASE f.type = "stream_event"
  <2>1. f.event \in MessagesFrames
    BY <1>1 DEF ClaudeFrames
  <2> QED  BY <1>1, <2>1, MessagesDecodeType DEF ClaudeDecode
<1>2. CASE f.type = "assistant"
  BY <1>2, FlagTypes DEF ClaudeDecode
<1>3. CASE f.type = "result"
  <2> DEFINE t == [s EXCEPT !.terminated = TRUE]
  <2>1. f.status \in {"none", "401", "4xx", "5xx"}
    BY <1>3 DEF ClaudeFrames, StatusKind
  <2>2. ResultKind(f, s) \in ErrorKinds /\ "Transport" \in ErrorKinds
    BY <2>1 DEF ResultKind, StatusKind, ErrorKinds
  <2>3. IsDecodeState(t)
    BY FlagTypes
  <2> HIDE DEF t
  <2>4. IsDecodeState(Emit(t, Error(ResultKind(f, s)))) /\ IsDecodeState(Emit(t, Error("Transport")))
    BY <2>2, <2>3, EmitType, EventTypes
  <2>5. IsDecodeState(Result(f, s))
    BY <2>3, <2>4 DEF Result, t
  <2> QED  BY <1>3, <2>5 DEF ClaudeDecode
<1> QED  BY <1>1, <1>2, <1>3 DEF ClaudeFrames


(***************************************************************************)
(* OpenAI Responses.                                                       *)
(***************************************************************************)
LEMMA AssignType ==
    ASSUME NEW s, IsDecodeState(s), NEW key \in Nat \X Nat
    PROVE  /\ IsDecodeState(Assign(s, key))
           /\ key \in DOMAIN Assign(s, key).part_index
           /\ Assign(s, key).part_index[key] \in Nat
<1> DEFINE i == Cardinality(DOMAIN s.part_index)
           t == [s EXCEPT !.part_index = Insert(s.part_index, key, i)]
<1>1. i \in Nat
  BY Fields, FS_CardinalityType DEF IsPartialFn
<1>2. IsPartialFn(Insert(s.part_index, key, i), Nat \X Nat, Nat)
  BY <1>1, Fields, InsertType
<1>3. IsDecodeState(t)
  BY <1>2 DEF IsDecodeState
<1>4. t.part_index = Insert(s.part_index, key, i)
  BY Fields
<1>5. key \in DOMAIN t.part_index
  BY <1>4 DEF Insert
<1> HIDE DEF t
<1>6. CASE key \in DOMAIN s.part_index
  <2>1. Assign(s, key) = s
    BY <1>6 DEF Assign
  <2> QED  BY <1>6, <2>1, Fields DEF IsPartialFn
<1>7. CASE key \notin DOMAIN s.part_index
  <2>1. Assign(s, key) = t
    BY <1>7 DEF Assign, t
  <2>2. t.part_index[key] \in Nat
    BY <1>3, <1>5, Fields DEF IsPartialFn
  <2> QED  BY <1>3, <1>5, <2>1, <2>2
<1> QED  BY <1>6, <1>7

LEMMA OpenPartType ==
    ASSUME NEW s, IsDecodeState(s), NEW key \in Nat \X Nat, NEW k \in Kinds, NEW b \in Pieces
    PROVE  IsDecodeState(OpenPart(s, key, k, b))
  BY AssignType, OpenBlockType DEF OpenPart

LEMMA OpenPartsType ==
    ASSUME NEW s, IsDecodeState(s), NEW item
    PROVE  OpenParts(item, s) \in SUBSET Nat /\ IsFiniteSet(OpenParts(item, s))
<1>1. OpenParts(item, s) \subseteq DOMAIN s.open
  BY DEF OpenParts
<1>2. IsFiniteSet(DOMAIN s.open) /\ DOMAIN s.open \subseteq Nat
  BY Fields DEF IsPartialFn
<1> QED  BY <1>1, <1>2, FS_Subset

LEMMA ItemDoneType ==
    ASSUME NEW s, IsDecodeState(s), NEW f, f.block \in Pieces
    PROVE  IsDecodeState(ItemDone(f, s))
<1> DEFINE S == OpenParts(f.item, s)
           c == Cardinality(S)
           encrypted == [n \in 1..(2 * c) |->
                IF n % 2 = 1 THEN ContentDelta(Ascending(S)[(n + 1) \div 2], "EncryptedReasoningDelta", f.block)
                ELSE ContentStop(Ascending(S)[n \div 2])]
           rest == [i \in DOMAIN s.open \ S |-> s.open[i]]
           said == IF f.itype = "reasoning" /\ f.encrypted THEN encrypted ELSE Stops(S)
<1>1. S \in SUBSET Nat /\ IsFiniteSet(S)
  BY OpenPartsType
<1>2. c \in Nat /\ \A n \in 1..c : Ascending(S)[n] \in Nat
  BY <1>1, AscendingType
<1>3. encrypted \in Seq(Event)
  <2>1. "EncryptedReasoningDelta" \in Deltas
    BY DEF Deltas
  <2> HIDE DEF S, c
  <2>2. ASSUME NEW n \in 1..(2 * c) PROVE encrypted[n] \in Event
    <3>1. CASE n % 2 = 1
      <4>1. (n + 1) \div 2 \in 1..c
        BY <1>2, <3>1
      <4>2. Ascending(S)[(n + 1) \div 2] \in Nat
        BY <1>2, <4>1
      <4> QED  BY <2>1, <3>1, <4>2, EventTypes
    <3>2. CASE n % 2 # 1
      <4>1. n \div 2 \in 1..c
        BY <1>2, <3>2
      <4>2. Ascending(S)[n \div 2] \in Nat
        BY <1>2, <4>1
      <4> QED  BY <3>2, <4>2, EventTypes
    <3> QED  BY <3>1, <3>2
  <2>3. encrypted \in [1..(2 * c) -> Event]
    BY <2>2
  <2> HIDE DEF encrypted
  <2> QED  BY <1>2, <2>3
<1>4. s.out \o said \in Seq(Event)
  BY <1>1, <1>3, StopsType, Fields
<1>5. IsPartialFn(rest, Nat, Kinds)
  <2>1. IsFiniteSet(DOMAIN s.open \ S) /\ IsPartialFn(s.open, Nat, Kinds)
    BY Fields, FS_Difference DEF IsPartialFn
  <2> HIDE DEF S
  <2> QED  BY <2>1 DEF IsPartialFn
<1>6. ItemDone(f, s) = [s EXCEPT !.open = rest, !.out = s.out \o said]
  BY DEF ItemDone
<1> HIDE DEF rest, said
<1> QED  BY <1>4, <1>5, <1>6 DEF IsDecodeState

LEMMA ImageItemType ==
    ASSUME NEW s, IsDecodeState(s), NEW f, PartKey(f) \in Nat \X Nat, f.block \in Pieces
    PROVE  IsDecodeState(ImageItem(f, s))
<1> DEFINE t == Assign(s, PartKey(f))
           i == t.part_index[PartKey(f)]
<1>1. IsDecodeState(t) /\ i \in Nat
  BY AssignType
<1>2. "Image" \in Kinds /\ "ImageDelta" \in Deltas
  BY DEF Kinds, Deltas
<1>3. /\ ContentStart(i, "Image", f.block) \in Event
      /\ ContentDelta(i, "ImageDelta", f.block) \in Event
      /\ ContentStop(i) \in Event
  BY <1>1, <1>2, EventTypes
<1> HIDE DEF t, i
<1>4. IsDecodeState(Emit(Emit(Emit(t, ContentStart(i, "Image", f.block)),
                    ContentDelta(i, "ImageDelta", f.block)), ContentStop(i)))
  BY <1>1, <1>3, EmitType
<1> QED  BY <1>4 DEF ImageItem, t, i

LEMMA TerminalType ==
    ASSUME NEW s, IsDecodeState(s), NEW r \in Reasons, NEW f
    PROVE  IsDecodeState(Terminal(r, f, s))
<1> DEFINE t == IF f.usage THEN Emit(Drain(s), Usage) ELSE Drain(s)
<1>1. IsDecodeState(t)
  BY DrainType, EmitType, EventTypes
<1> HIDE DEF t
<1>2. IsDecodeState(Emit(t, Finish(r)))
  BY <1>1, EmitType, EventTypes
<1> QED  BY <1>2, FlagTypes DEF Terminal, t

\* openai_responses/decode keeps the decode state well-typed.
LEMMA ResponsesDecodeType ==
    ASSUME NEW f \in ResponsesFrames, NEW s, IsDecodeState(s)
    PROVE  IsDecodeState(ResponsesDecode(f, s))
<1> USE DEF ResponsesDecode
<1>1. CASE f.type = "created"
  BY <1>1, StartMessageType
<1>2. CASE f.type = "refusal"
  BY <1>2, FlagTypes
<1>3. CASE f.type = "item_added"
  <2>1. PartKey(f) \in Nat \X Nat /\ f.block \in Pieces
    BY <1>3 DEF ResponsesFrames, PartKey
  <2>2. "ToolUse" \in Kinds /\ "Thinking" \in Kinds
    BY DEF Kinds
  <2>3. IsDecodeState(ItemAdded(f, s))
    BY <2>1, <2>2, OpenPartType DEF ItemAdded
  <2> QED  BY <1>3, <2>3
<1>4. CASE f.type = "part_added"
  <2>1. PartKey(f) \in Nat \X Nat /\ f.block \in Pieces
    BY <1>4 DEF ResponsesFrames, PartKey
  <2>2. "Text" \in Kinds
    BY DEF Kinds
  <2>3. IsDecodeState(PartAdded(f, s))
    BY <2>1, <2>2, OpenPartType DEF PartAdded
  <2> QED  BY <1>4, <2>3
<1>5. CASE f.type = "delta"
  <2>1. PartKey(f) \in Nat \X Nat /\ f.delta \in Deltas /\ f.block \in Pieces
    BY <1>5 DEF ResponsesFrames, PartKey
  <2>2. PartKey(f) \in DOMAIN s.part_index => s.part_index[PartKey(f)] \in Nat
    BY Fields DEF IsPartialFn
  <2>3. IsDecodeState(PartDelta(f, s))
    BY <2>1, <2>2, EmitType, EventTypes DEF PartDelta
  <2> QED  BY <1>5, <2>3
<1>6. CASE f.type = "item_done"
  <2>1. PartKey(f) \in Nat \X Nat /\ f.block \in Pieces
    BY <1>6 DEF ResponsesFrames, PartKey
  <2>2. IsDecodeState(OutputItemDone(f, s))
    BY <2>1, ItemDoneType, ImageItemType DEF OutputItemDone
  <2> QED  BY <1>6, <2>2
<1>7. CASE f.type = "completed"
  <2>1. f.reason \in Reasons
    BY <1>7 DEF ResponsesFrames
  <2>2. CompletedReason(f, s) \in Reasons
    BY <2>1 DEF CompletedReason, Reasons
  <2> QED  BY <1>7, <2>2, TerminalType
<1>8. CASE f.type = "incomplete"
  <2>1. f.reason \in Reasons
    BY <1>8 DEF ResponsesFrames
  <2> QED  BY <1>8, <2>1, TerminalType
<1>9. CASE f.type = "failed"
  <2>1. f.kind \in ErrorKinds
    BY <1>9 DEF ResponsesFrames
  <2> QED  BY <1>9, <2>1, EmitType, EventTypes
<1> QED  BY <1>1, <1>2, <1>3, <1>4, <1>5, <1>6, <1>7, <1>8, <1>9 DEF ResponsesFrames

(***************************************************************************)
(* The provider: what it sends are frames of its dialect, and its own      *)
(* state stays well-typed.                                                 *)
(***************************************************************************)

LEMMA BlockNames ==
    /\ \A n : BlockName(n) \in Pieces
    /\ \A n, p : PartName(n, p) \in Pieces
    /\ \A w : NextBlock(w) \in Pieces
    /\ "" \in Pieces
<1>1. \A n : BlockName(n) \in Pieces
  BY DEF BlockName, Pieces
<1>2. \A n, p : PartName(n, p) \in Pieces
  BY <1>1 DEF PartName, Pieces
<1> QED  BY <1>1, <1>2 DEF NextBlock, Pieces

LEMMA Words ==
    /\ {"Stop", "ToolUse", "Length"} \subseteq Reasons
    /\ {"TextDelta", "JsonDelta", "ThinkingDelta", "SignatureDelta"} \subseteq Deltas
    /\ {"Provider5xx", "Transport"} \subseteq ErrorKinds
    /\ BlockKinds \subseteq Kinds \cup {"unknown"}
    /\ \A k : DeltasOf(k) \subseteq Deltas
  BY DEF ErrorKinds, Reasons, Deltas, Kinds, BlockKinds, DeltasOf

LEMMA OpenAiFramesType ==
    ASSUME NEW w, WireOK("openai", w)
    PROVE  OpenAiFrames(w) \subseteq ChatFrames
<1>1. MaxBlocks \in Nat /\ w.next \in Nat
  BY ProviderAssumption DEF WireOK
<1>2. \A t \in CallsSent(w) : t \in Nat \cup {NoTool}
  BY <1>1 DEF CallsSent, NoTool
<1>3. ASSUME NEW f \in OpenAiChunks(w) PROVE f \in ChatFrames
  <2>1. PICK t \in CallsSent(w) :
            f \in [type : {"chunk"}, thinking : BOOLEAN, text : BOOLEAN, refusal : {FALSE}, tool : {t},
                  args : IF t = NoTool THEN {FALSE} ELSE BOOLEAN,
                  block : {IF t = NoTool THEN "" ELSE BlockName(t)},
                  finish : {"none", "Stop"}, usage : {FALSE}]
    BY <1>3 DEF OpenAiChunks
  <2>2. t \in Nat \cup {NoTool} /\ (IF t = NoTool THEN "" ELSE BlockName(t)) \in Pieces
    BY <1>2, BlockNames
  <2> QED  BY <2>1, <2>2, Words DEF ChatFrames
<1>4. RefusalChunks \subseteq ChatFrames /\ UsageChunks \subseteq ChatFrames
  BY BlockNames, Words DEF RefusalChunks, UsageChunks, ChatFrames
<1>5. [type : {"done"}] \subseteq ChatFrames
  BY DEF ChatFrames
<1>6. ErrorFrames \subseteq ChatFrames
  BY Words DEF ErrorFrames, ChatFrames
<1> QED  BY <1>3, <1>4, <1>5, <1>6 DEF OpenAiFrames

LEMMA AnthropicFramesType ==
    ASSUME NEW w, w.next \in Nat, w.live \subseteq LiveBlocks
    PROVE  AnthropicFrames(w) \subseteq MessagesFrames
<1>1. \A b \in w.live : b.index \in Nat
  BY ProviderAssumption DEF LiveBlocks
<1>2. ASSUME NEW f \in BlockFrames(w) PROVE f \in MessagesFrames
  <2> DEFINE Starts == {g \in [type : {"content_block_start"}, index : {w.next}, kind : BlockKinds,
                                block : {NextBlock(w)}] : w.next < MaxBlocks}
             DeltasFor(b) == [type : {"content_block_delta"}, index : {b.index},
                              delta : DeltasOf(b.kind), block : {BlockName(b.index)}]
             Ends == [type : {"content_block_stop"}, index : {b.index : b \in w.live}]
  <2>1. ASSUME f \in Starts PROVE f \in MessagesFrames
    <3>1. f \in [type : {"content_block_start"}, index : {w.next}, kind : BlockKinds,
                block : {NextBlock(w)}]
      BY <2>1
    <3>2. BlockKinds \subseteq Kinds \cup {"unknown"} /\ NextBlock(w) \in Pieces
      BY BlockNames, Words
    <3> QED  BY <3>1, <3>2 DEF MessagesFrames
  <2>2. ASSUME NEW b \in w.live, f \in DeltasFor(b) PROVE f \in MessagesFrames
    <3>1. b.index \in Nat /\ DeltasOf(b.kind) \subseteq Deltas /\ BlockName(b.index) \in Pieces
      BY <1>1, BlockNames, Words
    <3> QED  BY <2>2, <3>1 DEF MessagesFrames
  <2>3. ASSUME f \in Ends PROVE f \in MessagesFrames
    BY <1>1, <2>3 DEF MessagesFrames
  <2> HIDE DEF Starts, DeltasFor, Ends
  <2>4. f \in Starts \/ (\E b \in w.live : f \in DeltasFor(b)) \/ f \in Ends
    BY DEF BlockFrames, Starts, DeltasFor, Ends
  <2> QED  BY <2>1, <2>2, <2>3, <2>4
<1>3. ErrorFrames \subseteq MessagesFrames
  BY Words DEF ErrorFrames, MessagesFrames
<1>4. [type : {"message_start"}, usage : BOOLEAN] \subseteq MessagesFrames
  BY DEF MessagesFrames
<1>5. [type : {"ping"}] \subseteq MessagesFrames /\ [type : {"message_stop"}] \subseteq MessagesFrames
  BY DEF MessagesFrames
<1>6. [type : {"message_delta"}, reason : {"Stop", "ToolUse"}, usage : BOOLEAN] \subseteq MessagesFrames
  BY Words DEF MessagesFrames
<1> QED  BY <1>2, <1>3, <1>4, <1>5, <1>6 DEF AnthropicFrames

LEMMA GoogleFramesType ==
    ASSUME NEW w, NEW f \in GoogleFrames(w)
    PROVE  f \in GenaiFrames
<1>1. CASE f \in ErrorFrames
  BY <1>1, Words DEF ErrorFrames, GenaiFrames
<1>2. CASE f \notin ErrorFrames
  <2>1. f \in [type : {"chunk"}, text : BOOLEAN, thought : BOOLEAN, call : BOOLEAN,
              signature : BOOLEAN, image : BOOLEAN, block : {NextBlock(w)},
              finish : {"none", "Stop", "Length"}, blocked : BOOLEAN, usage : BOOLEAN]
    BY <1>2, Zenon DEF GoogleFrames
  <2>2. NextBlock(w) \in Pieces /\ {"none", "Stop", "Length"} \subseteq Reasons \cup {"none"}
    BY BlockNames, Words
  <2> QED  BY <2>1, <2>2 DEF GenaiFrames
<1> QED  BY <1>1, <1>2

LEMMA OllamaFramesType ==
    ASSUME NEW w, NEW f \in OllamaLines(w)
    PROVE  f \in OllamaFrames
<1>1. CASE f \in ErrorFrames
  BY <1>1, Words DEF ErrorFrames, OllamaFrames
<1>2. CASE f \notin ErrorFrames
  <2>1. f \in [type : {"line"}, thinking : BOOLEAN, text : BOOLEAN, call : BOOLEAN,
              block : {NextBlock(w)}, done : BOOLEAN, reason : {"Stop", "Length"}]
    BY <1>2, Zenon DEF OllamaLines
  <2>2. NextBlock(w) \in Pieces /\ {"Stop", "Length"} \subseteq Reasons
    BY BlockNames, Words
  <2> QED  BY <2>1, <2>2 DEF OllamaFrames
<1> QED  BY <1>1, <1>2
LEMMA ItemFramesType ==
    ASSUME NEW b \in LiveItems, NEW f \in ItemFrames(b)
    PROVE  f \in ResponsesFrames
<1> DEFINE Finished == [type : {"item_done"}, item : {b.index}, part : {0}, itype : {b.kind},
                        encrypted : BOOLEAN, block : {BlockName(b.index)}]
           Fragments == [type : {"delta"}, item : {b.index}, part : {0}, delta : ItemDeltas(b.kind),
                         block : {BlockName(b.index)}]
           Added == [type : {"part_added"}, item : {b.index}, part : {b.parts},
                     ptype : {"output_text", "refusal"}, block : {PartName(b.index, b.parts)}]
           Texts(p) == [type : {"delta"}, item : {b.index}, part : {p}, delta : {"TextDelta"},
                        block : {PartName(b.index, p)}]
<1>1. b.index \in Nat /\ b.kind \in ItemTypes /\ b.parts \in Nat
  BY ProviderAssumption DEF LiveItems
<1>2. BlockName(b.index) \in Pieces /\ \A p : PartName(b.index, p) \in Pieces
  BY BlockNames
<1>3. ASSUME f \in Finished PROVE f \in ResponsesFrames
  BY <1>1, <1>2, <1>3 DEF ResponsesFrames
<1>4. ASSUME f \in Fragments PROVE f \in ResponsesFrames
  <2>1. ItemDeltas(b.kind) \subseteq Deltas
    BY DEF ItemDeltas, Deltas
  <2> QED  BY <1>1, <1>2, <1>4, <2>1 DEF ResponsesFrames
<1>5. ASSUME f \in Added PROVE f \in ResponsesFrames
  BY <1>1, <1>2, <1>5 DEF ResponsesFrames
<1>6. ASSUME NEW p \in 0..(b.parts - 1), f \in Texts(p) PROVE f \in ResponsesFrames
  <2>1. p \in Nat /\ PartName(b.index, p) \in Pieces /\ "TextDelta" \in Deltas
    BY <1>2, Words
  <2> QED  BY <1>1, <1>6, <2>1 DEF ResponsesFrames
<1>7. ASSUME f \in [type : {"refusal"}] PROVE f \in ResponsesFrames
  BY <1>7 DEF ResponsesFrames
<1> HIDE DEF Finished, Fragments, Added, Texts
<1>8. \/ f \in Finished \/ f \in Fragments \/ f \in Added
      \/ \E p \in 0..(b.parts - 1) : f \in Texts(p)
      \/ f \in [type : {"refusal"}]
  BY DEF ItemFrames, Finished, Fragments, Added, Texts
<1> QED  BY <1>3, <1>4, <1>5, <1>6, <1>7, <1>8

LEMMA ResponseFramesType ==
    ASSUME NEW w, WireOK("responses", w), NEW f \in ResponseFrames(w)
    PROVE  f \in ResponsesFrames
<1> DEFINE Added == [type : {"item_added"}, item : {w.next}, part : {0}, itype : ItemTypes,
                     block : {NextBlock(w)}]
           Completed == [type : {"completed"}, tool : {w.tool}, reason : {"Stop"}, usage : BOOLEAN]
           Incomplete == [type : {"incomplete"}, reason : {"Length"}, usage : BOOLEAN]
           Broken == [type : {"failed"}, kind : {"Provider5xx", "Transport"}]
<1>1. w.next \in Nat /\ w.tool \in BOOLEAN /\ w.live \subseteq LiveItems
  BY ProviderAssumption DEF WireOK
<1>2. NextBlock(w) \in Pieces /\ {"Stop", "Length"} \subseteq Reasons
      /\ {"Provider5xx", "Transport"} \subseteq ErrorKinds
  BY BlockNames, Words
<1>3. ASSUME f \in Added PROVE f \in ResponsesFrames
  BY <1>1, <1>2, <1>3 DEF ResponsesFrames
<1>4. ASSUME f \in Completed PROVE f \in ResponsesFrames
  BY <1>1, <1>2, <1>4 DEF ResponsesFrames
<1>5. ASSUME f \in Incomplete PROVE f \in ResponsesFrames
  BY <1>2, <1>5 DEF ResponsesFrames
<1>6. ASSUME f \in Broken PROVE f \in ResponsesFrames
  BY <1>2, <1>6 DEF ResponsesFrames
<1>7. ASSUME f \in [type : {"created"}] PROVE f \in ResponsesFrames
  BY <1>7 DEF ResponsesFrames
<1>8. ASSUME NEW b \in w.live, f \in ItemFrames(b) PROVE f \in ResponsesFrames
  BY <1>1, <1>8, ItemFramesType
<1>9. \A k \in {"Provider5xx", "Transport"} : [type : {"failed"}, kind : {k}] \subseteq Broken
  OBVIOUS
<1> HIDE DEF Added, Completed, Incomplete, Broken
<1>10. \/ f \in Added \/ f \in Completed \/ f \in Incomplete
       \/ f \in Broken
       \/ f \in [type : {"created"}]
       \/ \E b \in w.live : f \in ItemFrames(b)
  <2>1. CASE w.phase = "before"
    BY <1>9, <2>1 DEF ResponseFrames
  <2>2. CASE w.phase = "open"
    BY <1>9, <2>2 DEF ResponseFrames, Added, Completed, Incomplete
  <2> QED  BY <2>1, <2>2 DEF ResponseFrames
<1> QED  BY <1>3, <1>4, <1>5, <1>6, <1>7, <1>8, <1>10

LEMMA ClaudeLinesType ==
    ASSUME NEW w, w.next \in Nat, w.live \subseteq LiveBlocks, NEW f \in ClaudeLines(w)
    PROVE  f \in ClaudeFrames
<1> DEFINE Wrapped == [type : {"stream_event"}, event : AnthropicFrames(w)]
           Assistants == [type : {"assistant"}, tag : {"none", "auth", "other"}]
           Results == [type : {"result"}, is_error : BOOLEAN, status : {"none", "401", "5xx"}]
<1>1. ASSUME f \in Wrapped PROVE f \in ClaudeFrames
  BY <1>1, AnthropicFramesType DEF ClaudeFrames
<1>2. ASSUME f \in Assistants PROVE f \in ClaudeFrames
  BY <1>2 DEF ClaudeFrames
<1>3. ASSUME f \in Results PROVE f \in ClaudeFrames
  <2>1. {"none", "401", "5xx"} \subseteq {"none"} \cup DOMAIN StatusKind
    BY DEF StatusKind
  <2> QED  BY <1>3, <2>1 DEF ClaudeFrames
<1> HIDE DEF Wrapped, Assistants, Results
<1>4. f \in Wrapped \/ f \in Assistants \/ f \in Results
  BY DEF ClaudeLines, Wrapped, Assistants, Results
<1> QED  BY <1>1, <1>2, <1>3, <1>4

\* What a provider sends is malformed or a frame of its dialect.
LEMMA SendsType ==
    ASSUME NEW d \in Dialects, NEW w, WireOK(d, w), NEW f \in Sends(d, w)
    PROVE  f = Malformed \/ f \in FramesOf[d]
<1> SUFFICES ASSUME f # Malformed PROVE f \in FramesOf[d]
  OBVIOUS
<1>1. w.next \in Nat
  BY ProviderAssumption DEF WireOK
<1>2. CASE d = "openai"
  BY <1>2, OpenAiFramesType DEF Sends, FramesOf
<1>3. CASE d = "anthropic"
  <2>1. w.live \subseteq LiveBlocks
    BY <1>3 DEF WireOK
  <2> QED  BY <1>1, <1>3, <2>1, AnthropicFramesType DEF Sends, FramesOf
<1>4. CASE d = "google"
  BY <1>4, GoogleFramesType DEF Sends, FramesOf
<1>5. CASE d = "ollama"
  BY <1>5, OllamaFramesType DEF Sends, FramesOf
<1>6. CASE d = "responses"
  BY <1>6, ResponseFramesType DEF Sends, FramesOf
<1>7. CASE d = "claude"
  <2>1. w.live \subseteq LiveBlocks
    BY <1>7 DEF WireOK
  <2> QED  BY <1>1, <1>7, <2>1, ClaudeLinesType DEF Sends, FramesOf
<1> QED  BY <1>2, <1>3, <1>4, <1>5, <1>6, <1>7 DEF Dialects

(***************************************************************************)
(* The provider's state.                                                   *)
(***************************************************************************)
LEMMA FailedType ==
    ASSUME NEW d, NEW w, WireOK(d, w)
    PROVE  WireOK(d, Failed(w)) /\ WireOK(d, Over(w))
  BY DEF WireOK, Failed, Over, Phases

LEMMA OpenAiAfterType ==
    ASSUME NEW w, WireOK("openai", w), NEW f \in OpenAiFrames(w)
    PROVE  WireOK("openai", OpenAiAfter(w, f))
<1>1. /\ w.next \in 0..MaxBlocks /\ MaxBlocks \in 1..4 /\ w.tool \in BOOLEAN
      /\ w.complete \in BOOLEAN
  BY ProviderAssumption DEF WireOK
<1>2. CASE f.type = "chunk"
  <2>1. f.tool \in CallsSent(w) \/ f.tool = NoTool
    <3>1. f \in OpenAiChunks(w) \/ f \in RefusalChunks \/ f \in UsageChunks
      BY <1>2 DEF OpenAiFrames, ErrorFrames
    <3>2. ASSUME f \in OpenAiChunks(w) PROVE f.tool \in CallsSent(w)
      <4>1. PICK t \in CallsSent(w) :
                f \in [type : {"chunk"}, thinking : BOOLEAN, text : BOOLEAN, refusal : {FALSE}, tool : {t},
                      args : IF t = NoTool THEN {FALSE} ELSE BOOLEAN,
                      block : {IF t = NoTool THEN "" ELSE BlockName(t)},
                      finish : {"none", "Stop"}, usage : {FALSE}]
        BY <3>2 DEF OpenAiChunks
      <4>2. f.tool = t
        BY <4>1
      <4> QED  BY <4>2
    <3>3. f \in RefusalChunks \cup UsageChunks => f.tool = NoTool
      BY DEF RefusalChunks, UsageChunks
    <3> QED  BY <3>1, <3>2, <3>3
  <2> DEFINE phase == IF w.phase = "verdict" \/ f.finish # "none" THEN "verdict" ELSE "open"
             next == IF f.tool = w.next THEN w.next + 1 ELSE w.next
             tool == w.tool \/ f.tool # NoTool
             complete == w.complete \/ f.finish # "none"
  <2>2. phase \in Phases /\ tool \in BOOLEAN /\ complete \in BOOLEAN
    BY DEF Phases
  <2>3. next \in 0..MaxBlocks
    BY <1>1, <2>1 DEF CallsSent, NoTool
  <2>4. OpenAiAfter(w, f) = [w EXCEPT !.phase = phase, !.next = next, !.tool = tool, !.complete = complete]
    BY <1>2 DEF OpenAiAfter
  <2> HIDE DEF phase, next, tool, complete
  <2> QED  BY <2>2, <2>3, <2>4 DEF WireOK
<1>3. CASE f.type = "done"
  BY <1>3 DEF OpenAiAfter, WireOK, Phases
<1>4. CASE f.type \notin {"chunk", "done"}
  BY <1>4, FailedType DEF OpenAiAfter
<1> QED  BY <1>2, <1>3, <1>4

LEMMA AnthropicAfterType ==
    ASSUME NEW d \in {"anthropic", "claude"}, NEW w, WireOK(d, w), NEW f \in AnthropicFrames(w)
    PROVE  WireOK(d, AnthropicAfter(w, f))
<1> USE DEF AnthropicAfter
<1>1. CASE f.type = "message_start"
  BY <1>1 DEF WireOK, Phases
<1>2. CASE f.type = "content_block_start"
  <2>1. f \in BlockFrames(w)
    BY <1>2 DEF AnthropicFrames, ErrorFrames
  <2>2. f.index = w.next /\ f.kind \in BlockKinds /\ w.next < MaxBlocks
    BY <1>2, <2>1 DEF BlockFrames
  <2>3. w.next \in 0..MaxBlocks /\ MaxBlocks \in 1..4 /\ w.live \subseteq LiveBlocks
    BY ProviderAssumption DEF WireOK
  <2>4. w.next + 1 \in 0..MaxBlocks /\ w.next \in 0..(MaxBlocks - 1)
    BY <2>2, <2>3
  <2>5. w.live \cup {[index |-> f.index, kind |-> f.kind]} \subseteq LiveBlocks
    BY <2>2, <2>3, <2>4 DEF LiveBlocks
  <2>6. AnthropicAfter(w, f) = [w EXCEPT !.next = w.next + 1,
                                   !.live = w.live \cup {[index |-> f.index, kind |-> f.kind]}]
    BY <1>2
  <2> QED  BY <2>4, <2>5, <2>6 DEF WireOK
<1>3. CASE f.type = "content_block_stop"
  BY <1>3 DEF WireOK
<1>4. CASE f.type = "message_delta"
  BY <1>4 DEF WireOK, Phases
<1>5. CASE f.type = "message_stop"
  BY <1>5, FailedType
<1>6. CASE f.type = "error"
  BY <1>6, FailedType
<1>7. CASE f.type \notin {"message_start", "content_block_start", "content_block_stop",
                          "message_delta", "message_stop", "error"}
  BY <1>7
<1> QED  BY <1>1, <1>2, <1>3, <1>4, <1>5, <1>6, <1>7

LEMMA GoogleAfterType ==
    ASSUME NEW w, WireOK("google", w), NEW f \in GoogleFrames(w)
    PROVE  WireOK("google", GoogleAfter(w, f))
<1>1. CASE f.type = "error"
  BY <1>1, FailedType DEF GoogleAfter
<1>2. CASE f.type # "error"
  <2>1. OnePart(w, f) /\ f.call \in BOOLEAN /\ f.image \in BOOLEAN /\ f.blocked \in BOOLEAN
    BY <1>2, Zenon DEF GoogleFrames, ErrorFrames
  <2>2. w.next \in 0..MaxBlocks /\ MaxBlocks \in 1..4 /\ w.tool \in BOOLEAN
    BY ProviderAssumption DEF WireOK
  <2> DEFINE phase == IF f.finish # "none" \/ f.blocked THEN "over" ELSE "open"
             next == IF f.call \/ f.image THEN w.next + 1 ELSE w.next
             tool == w.tool \/ f.call
             complete == f.finish # "none" \/ f.blocked
  <2>3. phase \in Phases /\ tool \in BOOLEAN /\ complete \in BOOLEAN
    BY <2>1, <2>2 DEF Phases
  <2>4. next \in 0..MaxBlocks
    BY <2>1, <2>2 DEF OnePart
  <2>5. GoogleAfter(w, f) = [w EXCEPT !.phase = phase, !.complete = complete, !.next = next, !.tool = tool]
    BY <1>2 DEF GoogleAfter
  <2> HIDE DEF phase, next, tool, complete
  <2> QED  BY <2>3, <2>4, <2>5 DEF WireOK
<1> QED  BY <1>1, <1>2

LEMMA OllamaAfterType ==
    ASSUME NEW w, WireOK("ollama", w), NEW f \in OllamaLines(w)
    PROVE  WireOK("ollama", OllamaAfter(w, f))
<1>1. CASE f.type = "error"
  BY <1>1, FailedType DEF OllamaAfter
<1>2. CASE f.type # "error"
  <2>1. (f.call => w.next < MaxBlocks) /\ f.call \in BOOLEAN /\ f.done \in BOOLEAN
    BY <1>2, Zenon DEF OllamaLines, ErrorFrames
  <2>2. w.next \in 0..MaxBlocks /\ MaxBlocks \in 1..4 /\ w.tool \in BOOLEAN
    BY ProviderAssumption DEF WireOK
  <2> DEFINE phase == IF f.done THEN "over" ELSE "open"
             next == IF f.call THEN w.next + 1 ELSE w.next
             tool == w.tool \/ f.call
  <2>3. phase \in Phases /\ tool \in BOOLEAN
    BY <2>1, <2>2 DEF Phases
  <2>4. next \in 0..MaxBlocks
    BY <2>1, <2>2
  <2>5. OllamaAfter(w, f) = [w EXCEPT !.phase = phase, !.complete = f.done, !.next = next, !.tool = tool]
    BY <1>2 DEF OllamaAfter
  <2> HIDE DEF phase, next, tool
  <2> QED  BY <2>1, <2>3, <2>4, <2>5 DEF WireOK
<1> QED  BY <1>1, <1>2

LEMMA ResponseAfterType ==
    ASSUME NEW w, WireOK("responses", w), NEW f \in ResponseFrames(w)
    PROVE  WireOK("responses", ResponseAfter(w, f))
<1>1. w.live \subseteq LiveItems /\ w.tool \in BOOLEAN /\ w.next \in 0..MaxBlocks /\ MaxBlocks \in 1..4
  BY ProviderAssumption DEF WireOK
<1>2. CASE f.type = "created"
  BY <1>2 DEF ResponseAfter, WireOK, Phases
<1>3. CASE f.type = "item_added"
  <2>1. f.item = w.next /\ f.itype \in ItemTypes /\ w.next < MaxBlocks
    <3>1. w.phase = "open"
      BY <1>3 DEF ResponseFrames
    <3>2. ~ \E b \in w.live : f \in ItemFrames(b)
      BY <1>3 DEF ItemFrames
    <3>3. f \in {g \in [type : {"item_added"}, item : {w.next}, part : {0}, itype : ItemTypes,
                        block : {NextBlock(w)}] : w.next < MaxBlocks}
      BY <1>3, <3>1, <3>2 DEF ResponseFrames
    <3> QED  BY <3>3
  <2>2. w.next + 1 \in 0..MaxBlocks /\ w.next \in 0..(MaxBlocks - 1)
    BY <1>1, <2>1
  <2> DEFINE item == [index |-> f.item, kind |-> f.itype, parts |-> 0]
             live == w.live \cup {item}
             tool == w.tool \/ f.itype = "function_call"
  <2>3. live \subseteq LiveItems /\ tool \in BOOLEAN
    BY <1>1, <2>1, <2>2 DEF LiveItems
  <2>4. ResponseAfter(w, f) = [w EXCEPT !.next = w.next + 1, !.tool = tool, !.live = live]
    BY <1>3 DEF ResponseAfter
  <2> HIDE DEF live, tool
  <2> QED  BY <2>2, <2>3, <2>4 DEF WireOK
<1>4. CASE f.type = "part_added"
  <2>1. f.part \in 0..1
    <3>1. w.phase = "open"
      BY <1>4 DEF ResponseFrames
    <3>2. PICK b \in w.live : f \in ItemFrames(b)
      BY <1>4, <3>1 DEF ResponseFrames
    <3>3. f.part = b.parts /\ b.parts < 2
      BY <1>4, <3>2 DEF ItemFrames
    <3> QED  BY <1>1, <3>3 DEF LiveItems
  <2> DEFINE live == {IF b.index = f.item /\ b.parts = f.part
                      THEN [b EXCEPT !.parts = f.part + 1] ELSE b : b \in w.live}
  <2>2. live \subseteq LiveItems
    <3>1. \A b \in LiveItems : [b EXCEPT !.parts = f.part + 1] \in LiveItems
      BY <2>1 DEF LiveItems
    <3> QED  BY <1>1, <3>1
  <2>3. ResponseAfter(w, f) = [w EXCEPT !.live = live]
    BY <1>4 DEF ResponseAfter
  <2> HIDE DEF live
  <2> QED  BY <2>2, <2>3 DEF WireOK
<1>5. CASE f.type = "item_done"
  BY <1>1, <1>5 DEF ResponseAfter, WireOK
<1>6. CASE f.type \in {"completed", "incomplete"}
  BY <1>6, FailedType DEF ResponseAfter
<1>7. CASE f.type = "failed"
  BY <1>7, FailedType DEF ResponseAfter
<1>8. CASE f.type \notin {"created", "item_added", "part_added", "item_done", "completed",
                          "incomplete", "failed"}
  BY <1>8 DEF ResponseAfter
<1> QED  BY <1>2, <1>3, <1>4, <1>5, <1>6, <1>7, <1>8

LEMMA ClaudeAfterType ==
    ASSUME NEW w, WireOK("claude", w), NEW f \in ClaudeLines(w)
    PROVE  WireOK("claude", ClaudeAfter(w, f))
<1>1. CASE f.type = "stream_event"
  <2>1. f.event \in AnthropicFrames(w)
    BY <1>1 DEF ClaudeLines
  <2> DEFINE v == AnthropicAfter(w, f.event)
  <2>2. WireOK("claude", v)
    BY <2>1, AnthropicAfterType
  <2>3. ClaudeAfter(w, f) = [v EXCEPT !.phase = IF v.phase = "over" THEN "told" ELSE v.phase]
    BY <1>1 DEF ClaudeAfter
  <2> HIDE DEF v
  <2> QED  BY <2>2, <2>3 DEF WireOK, Phases
<1>2. CASE f.type = "result"
  <2>1. (w.fault \/ f.is_error) \in BOOLEAN
    OBVIOUS
  <2>2. ClaudeAfter(w, f) = [w EXCEPT !.phase = "over", !.fault = w.fault \/ f.is_error]
    BY <1>2 DEF ClaudeAfter
  <2> QED  BY <2>1, <2>2 DEF WireOK, Phases
<1>3. CASE f.type \notin {"stream_event", "result"}
  BY <1>3 DEF ClaudeAfter
<1> QED  BY <1>1, <1>2, <1>3

\* Sending a frame keeps the provider's state well-typed.
LEMMA AfterType ==
    ASSUME NEW d \in Dialects, NEW w, WireOK(d, w), NEW f \in Sends(d, w)
    PROVE  WireOK(d, After(d, w, f)) /\ After(d, w, f).sent = w.sent + 1
<1> DEFINE v == Answer(d, w, f)
<1>1. w.sent \in 0..MaxFrames[d] /\ w.sent # MaxFrames[d] /\ MaxFrames[d] \in Nat
  BY ProviderAssumption DEF WireOK, Sends
<1>2. WireOK(d, v)
  <2>1. CASE f.type = "malformed"
    BY <2>1 DEF Answer, WireOK
  <2>2. CASE f.type # "malformed"
    <3>1. f # Malformed
      BY <2>2 DEF Malformed
    <3>2. CASE d = "openai"
      BY <2>2, <3>1, <3>2, OpenAiAfterType DEF Sends, Answer
    <3>3. CASE d = "anthropic"
      BY <2>2, <3>1, <3>3, AnthropicAfterType DEF Sends, Answer
    <3>4. CASE d = "google"
      BY <2>2, <3>1, <3>4, GoogleAfterType DEF Sends, Answer
    <3>5. CASE d = "ollama"
      BY <2>2, <3>1, <3>5, OllamaAfterType DEF Sends, Answer
    <3>6. CASE d = "responses"
      BY <2>2, <3>1, <3>6, ResponseAfterType DEF Sends, Answer
    <3>7. CASE d = "claude"
      BY <2>2, <3>1, <3>7, ClaudeAfterType DEF Sends, Answer
    <3> QED  BY <3>2, <3>3, <3>4, <3>5, <3>6, <3>7 DEF Dialects
  <2> QED  BY <2>1, <2>2
<1>3. v.sent = w.sent
  BY DEF Answer, OpenAiAfter, AnthropicAfter, GoogleAfter, OllamaAfter, ResponseAfter,
         ClaudeAfter, Failed, Over, Dialects
<1>4. w.sent + 1 \in 0..MaxFrames[d]
  BY <1>1
<1>5. After(d, w, f) = [v EXCEPT !.sent = w.sent + 1]
  BY <1>3 DEF After
<1> HIDE DEF v
<1> QED  BY <1>2, <1>4, <1>5 DEF WireOK

(***************************************************************************)
(* Type correctness.                                                       *)
(***************************************************************************)
\* Whatever a provider may send, the dialect's decode accepts and stays well-typed.
LEMMA DecodeFrameType ==
    ASSUME NEW d \in Dialects, NEW w, WireOK(d, w), NEW f \in Sends(d, w),
           NEW s, IsDecodeState(s)
    PROVE  IsDecodeState(DecodeFrame(d, f, s))
<1>1. CASE f.type = "malformed"
  <2>1. "Transport" \in ErrorKinds
    BY DEF ErrorKinds
  <2>2. IsDecodeState(Emit(s, Error("Transport")))
    BY <2>1, EmitType, EventTypes
  <2> QED  BY <1>1, <2>2 DEF DecodeFrame
<1>2. CASE f.type # "malformed"
  <2>1. f \in FramesOf[d]
    BY <1>2, SendsType DEF Malformed
  <2>2. CASE d = "openai"
    BY <1>2, <2>1, <2>2, ChatDecodeType DEF DecodeFrame, FramesOf
  <2>3. CASE d = "anthropic"
    BY <1>2, <2>1, <2>3, MessagesDecodeType DEF DecodeFrame, FramesOf
  <2>4. CASE d = "google"
    BY <1>2, <2>1, <2>4, GenaiDecodeType DEF DecodeFrame, FramesOf
  <2>5. CASE d = "ollama"
    BY <1>2, <2>1, <2>5, OllamaDecodeType DEF DecodeFrame, FramesOf
  <2>6. CASE d = "responses"
    BY <1>2, <2>1, <2>6, ResponsesDecodeType DEF DecodeFrame, FramesOf
  <2>7. CASE d = "claude"
    BY <1>2, <2>1, <2>7, ClaudeDecodeType DEF DecodeFrame, FramesOf
  <2> QED  BY <2>2, <2>3, <2>4, <2>5, <2>6, <2>7 DEF Dialects
<1> QED  BY <1>1, <1>2

\* The error that ends a stream which was cut short, after the open blocks are closed.
LEMMA CutShortType ==
    ASSUME NEW s, IsDecodeState(s), NEW n \in Nat
    PROVE  IsDecodeState(Emit(Drain(s), ErrorWith("Transport", n)))
<1>1. "Transport" \in ErrorKinds
  BY DEF ErrorKinds
<1> QED  BY <1>1, DrainType, EmitType, EventTypes

\* Handing the decoded events over empties `out` and keeps the rest.
LEMMA DecodedType ==
    ASSUME NEW s, IsDecodeState(s), pending \in Seq(Event), Decoded(s)
    PROVE  /\ IsDecodeState(state') /\ state'.out = <<>>
           /\ state'.terminated = s.terminated
           /\ pending' \in Seq(Event)
<1>1. s.out \in Seq(Event) /\ <<>> \in Seq(Event)
  BY Fields
<1> DEFINE none == <<>>
<1>2. IsDecodeState([s EXCEPT !.out = <<>>])
  <2>1. none \in Seq(Event)
    BY <1>1
  <2> HIDE DEF none
  <2>2. IsDecodeState([s EXCEPT !.out = none])
    BY <2>1 DEF IsDecodeState
  <2> QED  BY <2>2 DEF none
<1>3. [s EXCEPT !.out = <<>>].out = <<>> /\ [s EXCEPT !.out = <<>>].terminated = s.terminated
  BY Fields
<1> QED  BY <1>1, <1>2, <1>3 DEF Decoded

LEMMA SentIsDialect ==
    ASSUME TypeOK
    PROVE  dialect \in Dialects
  BY StreamAssumption DEF TypeOK

\* Each step keeps the types.
LEMMA NextType ==
    ASSUME TypeOK, [Next]_vars
    PROVE  TypeOK'
<1>0. dialect \in Dialects /\ HeadCap \in Nat /\ MaxChunk \in Nat
  BY SentIsDialect, StreamAssumption
<1>1. CASE PullChunk
  <2>1. head' \in 0..HeadCap
    BY <1>0, <1>1 DEF PullChunk, TypeOK, Min2
  <2> QED  BY <1>1, <2>1 DEF PullChunk, TypeOK, client
<1>2. CASE ReadFrame
  <2>1. PICK f \in Sends(dialect, wire) :
            Decoded(DecodeFrame(dialect, f, state)) /\ wire' = After(dialect, wire, f)
    BY <1>2 DEF ReadFrame
  <2>2. WireOK(dialect, wire')
    BY <1>0, <2>1, AfterType DEF TypeOK
  <2>3. IsDecodeState(DecodeFrame(dialect, f, state))
    BY <1>0, DecodeFrameType DEF TypeOK
  <2>4. IsDecodeState(state') /\ state'.out = <<>> /\ pending' \in Seq(Event)
    BY <2>1, <2>3, DecodedType DEF TypeOK
  <2> QED  BY <1>0, <1>2, <2>2, <2>4 DEF ReadFrame, TypeOK, client
<1>3. CASE ChunkRead
  BY <1>3 DEF ChunkRead, TypeOK, client
<1>4. CASE Drop
  <2>1. IsDecodeState(Emit(Drain(state), Error("Transport")))
    BY CutShortType DEF TypeOK, Error
  <2>2. IsDecodeState(state') /\ state'.out = <<>> /\ pending' \in Seq(Event)
    BY <1>4, <2>1, DecodedType DEF Drop, TypeOK
  <2> QED  BY <1>4, <2>2 DEF Drop, TypeOK, client
<1>5. CASE BodyEnd
  BY <1>5 DEF BodyEnd, TypeOK, client
<1>6. CASE FlushAtEof
  <2>1. \A s, seen, n : IsDecodeState(s) /\ n \in Nat => IsDecodeState(AtEof(s, seen, n))
    BY CutShortType DEF AtEof, PrematureEof
  <2>2. /\ WireOK(dialect, wire') /\ saw_frame' \in BOOLEAN /\ head' \in 0..HeadCap
        /\ IsDecodeState(state') /\ state'.out = <<>> /\ pending' \in Seq(Event)
    <3>1. CASE \E f \in Sends(dialect, wire) :
                  /\ Decoded(AtEof(DecodeFrame(dialect, f, state), TRUE, 0))
                  /\ wire' = After(dialect, wire, f)
                  /\ saw_frame' = TRUE /\ head' = 0
      <4>1. PICK f \in Sends(dialect, wire) :
                  /\ Decoded(AtEof(DecodeFrame(dialect, f, state), TRUE, 0))
                  /\ wire' = After(dialect, wire, f)
                  /\ saw_frame' = TRUE /\ head' = 0
        BY <3>1
      <4>2. WireOK(dialect, wire')
        BY <1>0, <4>1, AfterType DEF TypeOK
      <4>3. IsDecodeState(AtEof(DecodeFrame(dialect, f, state), TRUE, 0))
        BY <1>0, <2>1, DecodeFrameType DEF TypeOK
      <4>4. IsDecodeState(state') /\ state'.out = <<>> /\ pending' \in Seq(Event)
        BY <4>1, <4>3, DecodedType DEF TypeOK
      <4> QED  BY <1>0, <4>1, <4>2, <4>4
    <3>2. CASE Decoded(AtEof(state, saw_frame, head)) /\ UNCHANGED <<wire, saw_frame, head>>
      <4>1. head \in Nat
        BY <1>0 DEF TypeOK
      <4>2. IsDecodeState(AtEof(state, saw_frame, head))
        BY <2>1, <4>1 DEF TypeOK
      <4> QED  BY <3>2, <4>2, DecodedType DEF TypeOK
    <3> QED  BY <1>6, <3>1, <3>2 DEF FlushAtEof
  <2> QED  BY <1>6, <2>2 DEF FlushAtEof, TypeOK, client
<1>7. CASE Yield
  <2>1. Head(pending) \in Event /\ Tail(pending) \in Seq(Event)
    BY <1>7 DEF Yield, TypeOK
  <2>2. CASE Pump(Head(pending)) /\ UNCHANGED status
    <3> DEFINE e == Head(pending)
    <3>1. exit' \in {0} \cup {ExitOf[k] : k \in ErrorKinds} \cup WriteExits
      <4>1. e.type = "Error" => e.kind \in ErrorKinds
        BY <2>1 DEF Event
      <4> QED  BY <2>2, <4>1 DEF Pump, TypeOK
    <3>2. /\ e.type = "ContentStart" => e.index \in Nat /\ e.block \in Pieces
          /\ e.type = "Finish" => e.reason \in Reasons
      BY <2>1 DEF Event
    <3>3. IsPartialFn(blocks', Nat, Pieces)
      BY <2>2, <3>2, InsertType, RemoveType DEF Pump, Observe, TypeOK
    <3>4. started' \in BOOLEAN
      BY <2>2, Zenon DEF Pump, Observe
    <3>5. verdict' \in Reasons \cup {"none"} /\ used' \in SUBSET Nat /\ event' \in Event
      BY <2>1, <2>2, <3>2 DEF Pump, Observe, TypeOK
    <3> QED  BY <1>7, <2>1, <2>2, <3>1, <3>3, <3>4, <3>5 DEF Yield, TypeOK
  <2>3. CASE WriteFails
    BY <1>7, <2>1, <2>3 DEF Yield, WriteFails, TypeOK
  <2> QED  BY <1>7, <2>2, <2>3 DEF Yield
<1>8. CASE YieldEnd
  <2>1. CASE Pump(End) /\ status' = "ended"
    <3>1. /\ exit' = exit /\ blocks' = blocks /\ used' = used /\ verdict' = verdict
          /\ event' = End
      BY <2>1 DEF Pump, Observe, End
    <3>2. started' \in BOOLEAN /\ End \in Event
      BY <2>1, EventTypes, Zenon DEF Pump, Observe
    <3> QED  BY <1>8, <2>1, <3>1, <3>2 DEF YieldEnd, TypeOK, driver
  <2>2. CASE WriteFails
    BY <1>8, <2>2 DEF YieldEnd, WriteFails, TypeOK, driver
  <2> QED  BY <1>8, <2>1, <2>2 DEF YieldEnd
<1>9. CASE UNCHANGED vars
  BY <1>9 DEF vars, driver, client, TypeOK
<1> QED  BY <1>1, <1>2, <1>3, <1>4, <1>5, <1>6, <1>7, <1>8, <1>9 DEF Next, Done

\* TypeOK, for every choice of dialects and bounds.
THEOREM TypeCorrect == Spec => []TypeOK
<1>1. Init => TypeOK
  <2> SUFFICES ASSUME Init PROVE TypeOK
    OBVIOUS
  <2>1. WireOK(dialect, wire)
    BY StreamAssumption, ProviderAssumption DEF Init, WireOK, WireInit, Phases
  <2>2. IsDecodeState(state) /\ state.out = <<>>
    <3>1. \A D, R : IsPartialFn(EmptyFn, D, R)
      BY EmptyFnType
    <3>2. <<>> \in Seq(Event)
      OBVIOUS
    <3> HIDE DEF EmptyFn
    <3> QED  BY <3>1, <3>2 DEF Init, Default, IsDecodeState
  <2>3. IsPartialFn(blocks, Nat, Pieces)
    BY EmptyFnType DEF Init
  <2>4. <<>> \in Seq(Event) /\ 0 \in 0..HeadCap
    BY StreamAssumption
  <2>5. pending \in Seq(Event) /\ head \in 0..HeadCap
    BY <2>4 DEF Init
  <2> QED  BY <2>1, <2>2, <2>3, <2>5 DEF Init, TypeOK
<1>2. TypeOK /\ [Next]_vars => TypeOK'
  BY NextType
<1> QED  BY <1>1, <1>2, PTL DEF Spec

(***************************************************************************)
(* A truncated answer is never passed off as a whole one.                  *)
(*                                                                         *)
(* NoSilentTruncation speaks of the end only.  What makes it inductive is  *)
(* why it will hold then: once nothing more will be decoded and the        *)
(* terminal marker has not come, an error is either still queued or has    *)
(* already set the exit code, which no later event can reset to 0.         *)
(***************************************************************************)
Doomed == exit # 0 \/ \E n \in 1..Len(pending) : pending[n].type = "Error"

TruncationInv ==
    /\ reading => ~ finished
    /\ finished /\ ~ state.terminated => Doomed
    /\ status = "ended" => finished /\ pending = <<>>
    /\ status = "broken" => exit # 0

\* No error leaves the exit code at 0.
LEMMA ErrorsAreNotZero ==
    /\ \A k \in ErrorKinds : ExitOf[k] # 0
    /\ \A n \in WriteExits : n # 0
  BY DEF ErrorKinds, ExitOf, WriteExits

\* A stream that is cut short queues an error.
LEMMA CutShortQueues ==
    ASSUME NEW s, IsDecodeState(s), NEW n \in Nat, pending \in Seq(Event),
           Decoded(Emit(Drain(s), ErrorWith("Transport", n)))
    PROVE  Doomed'
<1> DEFINE t == Drain(s)
           e == ErrorWith("Transport", n)
           q == Append(t.out, e)
<1>1. t.out \in Seq(Event) /\ IsDecodeState(t)
  BY DrainType, Fields
<1>2. e.type = "Error" /\ e \in Event
  BY EventTypes DEF ErrorWith, ErrorKinds
<1>3. Emit(t, e).out = q
  BY <1>1, Fields DEF Emit
<1>4. pending' = pending \o q
  BY <1>3 DEF Decoded
<1> HIDE DEF t, e
<1>5. /\ Len(pending \o q) = Len(pending) + Len(t.out) + 1
      /\ (pending \o q)[Len(pending) + Len(t.out) + 1] = e
      /\ Len(pending) + Len(t.out) + 1 \in 1..Len(pending \o q)
  BY <1>1, <1>2
<1> QED  BY <1>2, <1>4, <1>5 DEF Doomed

\* Each step keeps TruncationInv.
LEMMA NextTruncation ==
    ASSUME TypeOK, TruncationInv, [Next]_vars
    PROVE  TruncationInv'
<1>0. dialect \in Dialects
  BY SentIsDialect
<1>1. CASE PullChunk
  BY <1>1 DEF PullChunk, AtBody, TruncationInv, Doomed, client
<1>2. CASE ReadFrame
  <2>1. ~ finished' /\ exit' = exit /\ status' = status /\ reading' = reading /\ status # "ended"
    BY <1>2 DEF ReadFrame, TruncationInv, client
  <2> QED  BY <2>1 DEF TruncationInv
<1>3. CASE ChunkRead
  BY <1>3 DEF ChunkRead, TruncationInv, Doomed, client
<1>4. CASE Drop
  <2>1. Doomed'
    BY <1>4, CutShortQueues DEF Drop, TypeOK, Error
  <2> QED  BY <1>4, <2>1 DEF Drop, AtBody, TruncationInv, client
<1>5. CASE BodyEnd
  BY <1>5 DEF BodyEnd, TruncationInv, Doomed, client
<1>6. CASE FlushAtEof
  <2>1. ASSUME NEW s, IsDecodeState(s), NEW seen, NEW n \in Nat, Decoded(AtEof(s, seen, n))
        PROVE  state'.terminated \/ Doomed'
    <3>1. CASE s.terminated
      BY <2>1, <3>1, DecodedType DEF AtEof, TypeOK
    <3>2. CASE ~ s.terminated
      BY <2>1, <3>2, CutShortQueues DEF AtEof, PrematureEof, TypeOK
    <3> QED  BY <3>1, <3>2
  <2>2. \A f \in Sends(dialect, wire) : IsDecodeState(DecodeFrame(dialect, f, state))
    BY <1>0, DecodeFrameType DEF TypeOK
  <2>3. IsDecodeState(state) /\ head \in Nat
    BY StreamAssumption DEF TypeOK
  <2>4. state'.terminated \/ Doomed'
    BY <1>6, <2>1, <2>2, <2>3 DEF FlushAtEof
  <2> QED  BY <1>6, <2>4 DEF FlushAtEof, AtBody, TruncationInv, client
<1>7. CASE Yield
  <2>1. pending # <<>> /\ pending \in Seq(Event) /\ pending' = Tail(pending)
    BY <1>7 DEF Yield, TypeOK
  <2>2. CASE Pump(Head(pending)) /\ UNCHANGED status
    <3>1. Doomed => Doomed'
      <4>1. CASE Head(pending).type = "Error"
        <5>1. Head(pending) \in Event
          BY <2>1
        <5>2. Head(pending).kind \in ErrorKinds
          BY <4>1, <5>1 DEF Event
        <5>3. exit' # 0
          BY <2>2, <4>1, <5>2, ErrorsAreNotZero DEF Pump
        <5> QED  BY <5>3 DEF Doomed
      <4>2. CASE Head(pending).type # "Error"
        <5>1. exit' = exit
          BY <2>2, <4>2 DEF Pump
        <5>2. ASSUME NEW n \in 1..Len(pending), pending[n].type = "Error"
              PROVE  \E m \in 1..Len(Tail(pending)) : Tail(pending)[m].type = "Error"
          <6>1. n # 1
            BY <2>1, <4>2, <5>2
          <6>2. n - 1 \in 1..Len(Tail(pending)) /\ Tail(pending)[n - 1] = pending[n]
            BY <2>1, <6>1
          <6> QED  BY <5>2, <6>2
        <5> QED  BY <2>1, <5>1, <5>2 DEF Doomed
      <4> QED  BY <4>1, <4>2
    <3> QED  BY <1>7, <2>2, <3>1 DEF Yield, TruncationInv
  <2>3. CASE WriteFails
    <3>1. exit' # 0 /\ status' = "broken"
      BY <2>3, ErrorsAreNotZero DEF WriteFails
    <3> QED  BY <1>7, <3>1 DEF Yield, TruncationInv, Doomed
  <2> QED  BY <1>7, <2>2, <2>3 DEF Yield
<1>8. CASE YieldEnd
  <2>1. CASE Pump(End) /\ status' = "ended"
    <3>1. exit' = exit
      BY <2>1 DEF Pump, End
    <3> QED  BY <1>8, <2>1, <3>1 DEF YieldEnd, TruncationInv, Doomed, driver
  <2>2. CASE WriteFails
    <3>1. exit' # 0 /\ status' = "broken"
      BY <2>2, ErrorsAreNotZero DEF WriteFails
    <3> QED  BY <1>8, <3>1 DEF YieldEnd, TruncationInv, Doomed, driver
  <2> QED  BY <1>8, <2>1, <2>2 DEF YieldEnd
<1>9. CASE UNCHANGED vars
  BY <1>9 DEF vars, driver, client, TruncationInv, Doomed
<1> QED  BY <1>1, <1>2, <1>3, <1>4, <1>5, <1>6, <1>7, <1>8, <1>9 DEF Next, Done

LEMMA TruncationInvHolds == Spec => []TruncationInv
<1>1. Init => TruncationInv
  BY DEF Init, TruncationInv
<1>2. TypeOK /\ TruncationInv /\ [Next]_vars => TruncationInv'
  BY NextTruncation
<1> QED  BY <1>1, <1>2, TypeCorrect, PTL DEF Spec

\* A run that ends with exit 0 saw the dialect's terminal frame, whatever the provider
\* sent and wherever the body was cut (premature_eof and the pump's exit code).
THEOREM TruncationIsNeverSilent == Spec => []NoSilentTruncation
<1>1. TruncationInv => NoSilentTruncation
  <2> SUFFICES ASSUME TruncationInv, status = "ended", exit = 0 PROVE state.terminated
    BY DEF NoSilentTruncation
  <2>1. finished /\ pending = <<>>
    BY DEF TruncationInv
  <2>2. ~ Doomed
    BY <2>1 DEF Doomed
  <2> QED  BY <2>1, <2>2 DEF TruncationInv
<1> QED  BY <1>1, TruncationInvHolds, PTL

(***************************************************************************)
(* The driver implements CanonicalStream, for every dialect and whatever   *)
(* its provider sends.                                                     *)
(*                                                                         *)
(* What is queued has not been seen by the consumer.  The invariant says   *)
(* of it that the consumer can be told it, event by event, and in which    *)
(* state it will be then; and that this state agrees with the decoder's    *)
(* and the provider's: the blocks that are open, their names, the indices  *)
(* that are used, and whether there is a verdict.                          *)
(***************************************************************************)
(***************************************************************************)
(* A client is what the consumer knows.  Legal are the events it may be    *)
(* told next, Told what it knows then.                                     *)
(***************************************************************************)
Legal(c, e) ==
    CASE e.type = "MessageStart" -> ~ c.started
      [] e.type = "ContentStart" -> c.started /\ c.verdict = "none" /\ e.index \notin c.used
      [] e.type = "ContentDelta" -> e.index \in DOMAIN c.blocks /\ e.block = c.blocks[e.index]
      [] e.type = "ContentStop"  -> e.index \in DOMAIN c.blocks
      [] e.type = "Usage"        -> c.started
      [] e.type = "Finish"       -> c.started /\ c.verdict = "none" /\ c.blocks = EmptyFn
      [] e.type = "Error"        -> TRUE
      [] OTHER                   -> FALSE

Told(c, e) ==
    [started |-> c.started \/ e.type = "MessageStart",
     blocks |-> CASE e.type = "ContentStart" -> Insert(c.blocks, e.index, e.block)
                  [] e.type = "ContentStop"  -> Remove(c.blocks, e.index)
                  [] OTHER                   -> c.blocks,
     used |-> IF e.type = "ContentStart" THEN c.used \cup {e.index} ELSE c.used,
     verdict |-> IF e.type = "Finish" THEN e.reason ELSE c.verdict,
     exit |-> IF e.type = "Error" THEN ExitOf[e.kind] ELSE c.exit]

\* A client in state c can be told the events of q and is in state d then.
Path(c, q, d) ==
    \E p : /\ p[0] = c /\ p[Len(q)] = d
           /\ \A n \in 1..Len(q) : Legal(p[n - 1], q[n]) /\ p[n] = Told(p[n - 1], q[n])

LEMMA NothingTold ==
    ASSUME NEW c
    PROVE  Path(c, <<>>, c)
<1> DEFINE p == [n \in {0} |-> c]
           q == <<>>
<1>1. p[0] = c /\ Len(q) = 0 /\ 1..Len(q) = {}
  OBVIOUS
<1> HIDE DEF p, q
<1>2. Path(c, q, c)
  BY <1>1 DEF Path
<1> QED  BY <1>2 DEF q

LEMMA NothingAhead ==
    ASSUME NEW c, NEW d, Path(c, <<>>, d)
    PROVE  d = c
<1>1. PICK p : p[0] = c /\ p[Len(<<>>)] = d
  BY DEF Path
<1>2. Len(<<>>) = 0
  OBVIOUS
<1> QED  BY <1>1, <1>2

\* One more event.
LEMMA OneMore ==
    ASSUME NEW q \in Seq(Event), NEW c, NEW d, Path(c, q, d), NEW e \in Event, Legal(d, e)
    PROVE  Path(c, Append(q, e), Told(d, e))
<1>1. PICK p : /\ p[0] = c /\ p[Len(q)] = d
               /\ \A n \in 1..Len(q) : Legal(p[n - 1], q[n]) /\ p[n] = Told(p[n - 1], q[n])
  BY DEF Path
<1> DEFINE m == Len(q) + 1
           r == [n \in 0..m |-> IF n = m THEN Told(d, e) ELSE p[n]]
           a == Append(q, e)
<1>2. m \in Nat /\ Len(a) = m /\ a[m] = e /\ \A n \in 1..Len(q) : a[n] = q[n]
  OBVIOUS
<1>3. r[0] = c /\ r[m] = Told(d, e) /\ r[m - 1] = d
  BY <1>1, <1>2
<1>4. ASSUME NEW n \in 1..m
      PROVE  Legal(r[n - 1], a[n]) /\ r[n] = Told(r[n - 1], a[n])
  <2>1. CASE n = m
    BY <1>2, <1>3, <2>1
  <2>2. CASE n # m
    <3>1. n \in 1..Len(q) /\ n - 1 \in 0..m /\ n - 1 # m
      BY <1>2, <2>2
    <3>2. r[n - 1] = p[n - 1] /\ r[n] = p[n] /\ a[n] = q[n]
      BY <1>2, <2>2, <3>1
    <3> QED  BY <1>1, <3>1, <3>2
  <2> QED  BY <2>1, <2>2
<1> HIDE DEF r, a
<1> QED  BY <1>2, <1>3, <1>4 DEF Path, a

\* Two queues, one after the other.
LEMMA OneAfterTheOther ==
    ASSUME NEW q \in Seq(Event), NEW r \in Seq(Event), NEW c, NEW d, NEW e,
           Path(c, q, d), Path(d, r, e)
    PROVE  Path(c, q \o r, e)
<1>1. PICK p : /\ p[0] = c /\ p[Len(q)] = d
               /\ \A n \in 1..Len(q) : Legal(p[n - 1], q[n]) /\ p[n] = Told(p[n - 1], q[n])
  BY DEF Path
<1>2. PICK o : /\ o[0] = d /\ o[Len(r)] = e
               /\ \A n \in 1..Len(r) : Legal(o[n - 1], r[n]) /\ o[n] = Told(o[n - 1], r[n])
  BY DEF Path
<1> DEFINE k == Len(q)
           m == Len(q) + Len(r)
           b == [n \in 0..m |-> IF n <= k THEN p[n] ELSE o[n - k]]
           a == q \o r
<1>3. k \in Nat /\ Len(r) \in Nat /\ m \in Nat /\ Len(a) = m
  OBVIOUS
<1>4. \A n \in 1..m : a[n] = IF n <= k THEN q[n] ELSE r[n - k]
  OBVIOUS
<1>5. b[0] = c /\ b[m] = e
  <2>1. CASE Len(r) = 0
    BY <1>1, <1>2, <1>3, <2>1
  <2>2. CASE Len(r) # 0
    BY <1>1, <1>2, <1>3, <2>2
  <2> QED  BY <2>1, <2>2
<1>6. ASSUME NEW n \in 1..m
      PROVE  Legal(b[n - 1], a[n]) /\ b[n] = Told(b[n - 1], a[n])
  <2>1. CASE n <= k
    <3>1. n \in 1..Len(q) /\ b[n - 1] = p[n - 1] /\ b[n] = p[n] /\ a[n] = q[n]
      BY <1>3, <1>4, <2>1
    <3> QED  BY <1>1, <3>1
  <2>2. CASE n = k + 1
    <3>1. 1 \in 1..Len(r) /\ a[n] = r[1] /\ b[n] = o[1] /\ b[n - 1] = d /\ 1 - 1 = 0
      BY <1>1, <1>3, <1>4, <2>2
    <3> QED  BY <1>2, <3>1
  <2>3. CASE n > k + 1
    <3>1. /\ n - k \in 1..Len(r) /\ a[n] = r[n - k] /\ b[n] = o[n - k]
          /\ b[n - 1] = o[(n - k) - 1]
      BY <1>3, <1>4, <2>3
    <3> QED  BY <1>2, <3>1
  <2> QED  BY <1>3, <2>1, <2>2, <2>3
<1> HIDE DEF b, a, k, m
<1> QED  BY <1>3, <1>5, <1>6 DEF Path, a, k, m

\* The event at the head of the queue.
LEMMA TheNext ==
    ASSUME NEW q \in Seq(Event), q # <<>>, NEW c, NEW d, Path(c, q, d)
    PROVE  Legal(c, Head(q)) /\ Path(Told(c, Head(q)), Tail(q), d)
<1>1. PICK p : /\ p[0] = c /\ p[Len(q)] = d
               /\ \A n \in 1..Len(q) : Legal(p[n - 1], q[n]) /\ p[n] = Told(p[n - 1], q[n])
  BY DEF Path
<1> DEFINE t == Tail(q)
           r == [n \in 0..Len(t) |-> p[n + 1]]
<1>2. /\ Len(q) \in Nat \ {0} /\ Len(t) = Len(q) - 1 /\ Head(q) = q[1]
      /\ \A n \in 1..Len(t) : t[n] = q[n + 1]
  OBVIOUS
<1>3. Legal(c, q[1]) /\ p[1] = Told(c, q[1])
  <2>1. 1 \in 1..Len(q) /\ 1 - 1 = 0
    BY <1>2
  <2> QED  BY <1>1, <2>1
<1>4. r[0] = Told(c, Head(q)) /\ r[Len(t)] = d
  BY <1>1, <1>2, <1>3
<1>5. ASSUME NEW n \in 1..Len(t)
      PROVE  Legal(r[n - 1], t[n]) /\ r[n] = Told(r[n - 1], t[n])
  <2>1. n + 1 \in 1..Len(q) /\ (n + 1) - 1 = n /\ r[n - 1] = p[n] /\ r[n] = p[n + 1] /\ t[n] = q[n + 1]
    BY <1>2
  <2> QED  BY <1>1, <2>1
<1> HIDE DEF r, t
<1>6. Path(Told(c, Head(q)), t, d)
  BY <1>4, <1>5 DEF Path
<1> QED  BY <1>2, <1>3, <1>6 DEF t

(***************************************************************************)
(* What a decoder says.  c is the client once it has been told everything  *)
(* up to the last event in s.out, b the client before the first of them.   *)
(***************************************************************************)
IsClient(c) ==
    /\ c = [started |-> c.started, blocks |-> c.blocks, used |-> c.used,
            verdict |-> c.verdict, exit |-> c.exit]
    /\ c.started \in BOOLEAN
    /\ c.blocks = [i \in DOMAIN c.blocks |-> c.blocks[i]]
    /\ DOMAIN c.blocks \subseteq c.used

Says(b, s, c) ==
    /\ IsDecodeState(s) /\ IsClient(c)
    /\ Path(b, s.out, c)
    /\ DOMAIN c.blocks = DOMAIN s.open

\* The decode states differ in `out` and in what is open only.
SameFlags(s, t) ==
    /\ t.terminated = s.terminated /\ t.started = s.started
    /\ t.tool_index = s.tool_index /\ t.part_index = s.part_index
    /\ t.refusal = s.refusal /\ t.error_tag = s.error_tag

LEMMA EmitFields ==
    ASSUME NEW s, IsDecodeState(s), NEW e
    PROVE  /\ Emit(s, e).out = Append(s.out, e) /\ Emit(s, e).open = s.open
           /\ SameFlags(s, Emit(s, e))
  BY Fields DEF Emit, SameFlags

\* An event that opens and closes nothing.
LEMMA Saying ==
    ASSUME NEW b, NEW s, NEW c, Says(b, s, c), NEW e \in Event, Legal(c, e),
           e.type \notin {"ContentStart", "ContentStop"}
    PROVE  Says(b, Emit(s, e), Told(c, e))
<1>1. IsDecodeState(Emit(s, e)) /\ Emit(s, e).out = Append(s.out, e) /\ Emit(s, e).open = s.open
  BY EmitType, EmitFields DEF Says
<1>2. Path(b, Append(s.out, e), Told(c, e))
  BY OneMore, Fields DEF Says
<1>3. IsClient(Told(c, e)) /\ Told(c, e).blocks = c.blocks
  <2>1. /\ Told(c, e).blocks = c.blocks /\ Told(c, e).used = c.used
        /\ Told(c, e) = [started |-> Told(c, e).started, blocks |-> Told(c, e).blocks, used |-> Told(c, e).used,
                         verdict |-> Told(c, e).verdict, exit |-> Told(c, e).exit]
    BY DEF Told
  <2>2. Told(c, e).started \in BOOLEAN
    <3>1. Told(c, e).started = (c.started \/ e.type = "MessageStart")
      BY DEF Told
    <3> QED  BY <3>1, Zenon
  <2> QED  BY <2>1, <2>2 DEF IsClient, Says
<1> QED  BY <1>1, <1>2, <1>3 DEF Says

\* Nothing but the flags is changed.
LEMMA Flagging ==
    ASSUME NEW b, NEW s, NEW c, Says(b, s, c), NEW t, IsDecodeState(t), t.out = s.out, t.open = s.open
    PROVE  Says(b, t, c)
  BY DEF Says

\* What the client knows after each event.
LEMMA ToldStart ==
    ASSUME NEW c
    PROVE  LET d == Told(c, MessageStart)
           IN  /\ d.started = TRUE /\ d.blocks = c.blocks /\ d.used = c.used
               /\ d.verdict = c.verdict /\ d.exit = c.exit
<1>1. Told(c, MessageStart).started = (c.started \/ TRUE)
  BY DEF Told, MessageStart
<1>2. /\ Told(c, MessageStart).blocks = c.blocks /\ Told(c, MessageStart).used = c.used
      /\ Told(c, MessageStart).verdict = c.verdict /\ Told(c, MessageStart).exit = c.exit
  BY DEF Told, MessageStart
<1> QED  BY <1>1, <1>2

LEMMA ToldElse ==
    ASSUME NEW c, c.started \in BOOLEAN, NEW e, e.type \in {"ContentDelta", "Usage", "Finish", "Error"}
    PROVE  LET d == Told(c, e)
           IN  /\ d.started = c.started /\ d.blocks = c.blocks /\ d.used = c.used
               /\ d.verdict = (IF e.type = "Finish" THEN e.reason ELSE c.verdict)
               /\ d.exit = (IF e.type = "Error" THEN ExitOf[e.kind] ELSE c.exit)
<1>1. Told(c, e).started = (c.started \/ FALSE)
  BY DEF Told
<1>2. /\ Told(c, e).blocks = c.blocks /\ Told(c, e).used = c.used
      /\ Told(c, e).verdict = (IF e.type = "Finish" THEN e.reason ELSE c.verdict)
      /\ Told(c, e).exit = (IF e.type = "Error" THEN ExitOf[e.kind] ELSE c.exit)
  BY DEF Told
<1> QED  BY <1>1, <1>2, Zenon

LEMMA OpenBlockFields ==
    ASSUME NEW s, IsDecodeState(s), NEW i, NEW k, NEW name
    PROVE  LET t == OpenBlock(s, i, k, name)
           IN  /\ SameFlags(s, t) /\ t.open = Insert(s.open, i, k)
               /\ t.out = Append(s.out, ContentStart(i, k, name))
  BY Fields DEF OpenBlock, Emit, SameFlags

\* A block is opened under an index that was never used.
MayOpen(b, s, c, i, k, name) ==
    /\ Says(b, s, c) /\ c.started = TRUE /\ c.verdict = "none"
    /\ i \in Nat /\ i \notin c.used /\ k \in Kinds /\ name \in Pieces

LEMMA Opening ==
    \A b, s, c, i, k, name : MayOpen(b, s, c, i, k, name) =>
        \E d : /\ Says(b, OpenBlock(s, i, k, name), d)
               /\ d.blocks = Insert(c.blocks, i, name) /\ d.used = c.used \cup {i}
               /\ d.started = TRUE /\ d.verdict = c.verdict /\ d.exit = c.exit
<1> TAKE b, s, c, i, k, name
<1> HAVE MayOpen(b, s, c, i, k, name)
<1> DEFINE e == ContentStart(i, k, name)
           u == [s EXCEPT !.open = Insert(@, i, k)]
           t == OpenBlock(s, i, k, name)
           d == Told(c, e)
<1> USE DEF MayOpen
<1>1. /\ t.open = Insert(s.open, i, k) /\ t.out = Append(s.out, e) /\ SameFlags(s, t)
  BY OpenBlockFields DEF Says
<1>0. IsDecodeState(t)
  BY OpenBlockType DEF Says
<1>2. e \in Event /\ Legal(c, e)
  BY EventTypes DEF Legal, ContentStart
<1>3. Path(b, t.out, d)
  BY <1>1, <1>2, OneMore, Fields DEF Says
<1>4. /\ d.blocks = Insert(c.blocks, i, name) /\ d.used = c.used \cup {i}
      /\ d.verdict = c.verdict /\ d.exit = c.exit
      /\ d.started = (c.started \/ FALSE)
      /\ d = [started |-> d.started, blocks |-> d.blocks, used |-> d.used, verdict |-> d.verdict, exit |-> d.exit]
  BY DEF Told, ContentStart
<1>5. d.started = c.started /\ d.started \in BOOLEAN
  BY <1>4, Zenon DEF Says, IsClient
<1> HIDE DEF t, d, e
<1>6. IsClient(d) /\ DOMAIN d.blocks = DOMAIN t.open
  <2>1. DOMAIN Insert(c.blocks, i, name) = DOMAIN c.blocks \cup {i}
    BY DEF Insert
  <2>2. DOMAIN Insert(s.open, i, k) = DOMAIN s.open \cup {i}
    BY DEF Insert
  <2>3. d.blocks = [x \in DOMAIN d.blocks |-> d.blocks[x]]
    BY <1>4 DEF Insert
  <2> QED  BY <1>1, <1>4, <1>5, <2>1, <2>2, <2>3 DEF IsClient, Says
<1> QED  BY <1>0, <1>1, <1>3, <1>4, <1>5, <1>6 DEF Says, t, d, e

\* A block is stopped.
LEMMA Stopping ==
    ASSUME NEW b, NEW s, NEW c, Says(b, s, c), NEW i \in DOMAIN s.open
    PROVE  LET t == Emit([s EXCEPT !.open = Remove(@, i)], ContentStop(i))
               d == Told(c, ContentStop(i))
           IN  /\ Says(b, t, d) /\ SameFlags(s, t)
               /\ t.open = Remove(s.open, i) /\ d.blocks = Remove(c.blocks, i)
               /\ d.used = c.used
               /\ d.started = c.started /\ d.verdict = c.verdict /\ d.exit = c.exit
<1> DEFINE e == ContentStop(i)
           u == [s EXCEPT !.open = Remove(@, i)]
           t == Emit(u, e)
           d == Told(c, e)
<1>0. i \in Nat
  BY Fields DEF Says, IsPartialFn
<1>1. e \in Event /\ Legal(c, e)
  BY <1>0, EventTypes DEF Legal, ContentStop, Says
<1>2. /\ t.open = Remove(s.open, i) /\ t.out = Append(s.out, e) /\ SameFlags(s, t)
  BY Fields DEF Emit, SameFlags, Says
<1>3. IsDecodeState(t)
  <2>1. IsPartialFn(Remove(s.open, i), Nat, Kinds)
    BY Fields, RemoveType DEF Says
  <2>2. IsDecodeState(u)
    BY <2>1 DEF IsDecodeState, Says
  <2> QED  BY <1>1, <2>2, EmitType
<1>4. Path(b, t.out, d)
  BY <1>1, <1>2, OneMore, Fields DEF Says
<1>5. /\ d.blocks = Remove(c.blocks, i) /\ d.used = c.used
      /\ d.verdict = c.verdict /\ d.exit = c.exit
      /\ d.started = (c.started \/ FALSE)
      /\ d = [started |-> d.started, blocks |-> d.blocks, used |-> d.used, verdict |-> d.verdict, exit |-> d.exit]
  BY DEF Told, ContentStop
<1>6. d.started = c.started /\ d.started \in BOOLEAN
  BY <1>5, Zenon DEF Says, IsClient
<1> HIDE DEF t, d, e
<1>7. IsClient(d) /\ DOMAIN d.blocks = DOMAIN t.open
  <2>1. DOMAIN Remove(c.blocks, i) = DOMAIN c.blocks \ {i}
    BY DEF Remove
  <2>2. DOMAIN Remove(s.open, i) = DOMAIN s.open \ {i}
    BY DEF Remove
  <2>3. d.blocks = [x \in DOMAIN d.blocks |-> d.blocks[x]]
    BY <1>5 DEF Remove
  <2> QED  BY <1>2, <1>5, <1>6, <2>1, <2>2, <2>3 DEF IsClient, Says
<1> QED  BY <1>2, <1>3, <1>4, <1>5, <1>6, <1>7 DEF Says, t, d, e

(***************************************************************************)
(* Stopping several blocks, in ascending order of their indices.           *)
(***************************************************************************)
Shut(c, S) ==
    [started |-> c.started, blocks |-> [i \in DOMAIN c.blocks \ S |-> c.blocks[i]],
     used |-> c.used, verdict |-> c.verdict, exit |-> c.exit]

\* An ascending enumeration leaves nobody out.
LEMMA AscendingIsOnto ==
    ASSUME NEW S \in SUBSET Nat, IsFiniteSet(S)
    PROVE  \A x \in S : \E n \in 1..Cardinality(S) : Ascending(S)[n] = x
<1> DEFINE k == Cardinality(S)
           q == Ascending(S)
<1>1. q \in [1..k -> S] /\ Increasing(q, k) /\ k \in Nat
  BY AscendingType
<1> HIDE DEF q
<1>2. ASSUME NEW m \in 1..k, NEW n \in 1..k, q[m] = q[n] PROVE m = n
  <2>1. q[m] \in Nat /\ q[n] \in Nat
    BY <1>1
  <2>2. ~ (m < n) /\ ~ (n < m)
    BY <1>1, <1>2, <2>1 DEF Increasing
  <2> QED  BY <1>1, <2>2
<1>3. q \in Injection(1..k, S)
  BY <1>1, <1>2 DEF Injection, IsInjective
<1>4. Cardinality(1..k) = k
  BY <1>1, FS_Interval
<1>5. q \in Surjection(1..k, S)
  BY <1>3, <1>4, FS_Injection
<1> QED  BY <1>5 DEF Surjection, q

LEMMA ToldStop ==
    ASSUME NEW c, c.started \in BOOLEAN, NEW i
    PROVE  Told(c, ContentStop(i)) =
               [started |-> c.started, blocks |-> Remove(c.blocks, i), used |-> c.used,
                verdict |-> c.verdict, exit |-> c.exit]
<1>1. (c.started \/ FALSE) = c.started
  BY Zenon
<1> DEFINE b == c.started \/ FALSE
<1>2. Told(c, ContentStop(i)) =
          [started |-> b, blocks |-> Remove(c.blocks, i), used |-> c.used,
           verdict |-> c.verdict, exit |-> c.exit]
  BY DEF Told, ContentStop
<1> HIDE DEF b
<1>3. b = c.started
  BY <1>1 DEF b
<1> QED  BY <1>2, <1>3

LEMMA StopsPath ==
    ASSUME NEW c, IsClient(c), NEW S \in SUBSET Nat, IsFiniteSet(S), S \subseteq DOMAIN c.blocks
    PROVE  Path(c, Stops(S), Shut(c, S))
<1> DEFINE k == Cardinality(S)
           a == Ascending(S)
           Upto(n) == {x \in S : \E m \in 1..n : a[m] = x}
           p == [n \in 0..k |-> Shut(c, Upto(n))]
           q == Stops(S)
<1>1. a \in [1..k -> S] /\ Increasing(a, k) /\ k \in Nat
  BY AscendingType
<1>2. \A n \in 1..k : q[n] = ContentStop(a[n])
  BY DEF Stops
<1>3. Len(q) = k
  BY <1>1 DEF Stops
<1>0. \A x \in S : \E n \in 1..k : a[n] = x
  BY AscendingIsOnto
<1> HIDE DEF a, q, k
<1>4. Upto(0) = {} /\ Upto(k) = S
  <2>1. 1..0 = {}
    OBVIOUS
  <2>2. Upto(0) = {}
    BY <2>1
  <2>3. Upto(k) = S
    BY <1>0
  <2> QED  BY <2>2, <2>3
<1>5. Shut(c, {}) = c
  BY DEF Shut, IsClient
<1>6. ASSUME NEW n \in 1..k
      PROVE  Legal(p[n - 1], q[n]) /\ p[n] = Told(p[n - 1], q[n])
  <2> DEFINE before == Shut(c, Upto(n - 1))
  <2>1. n - 1 \in 0..k /\ n \in 0..k /\ a[n] \in S
    BY <1>1
  <2>2. a[n] \notin Upto(n - 1)
    <3> SUFFICES ASSUME NEW m \in 1..(n - 1), a[m] = a[n] PROVE FALSE
      OBVIOUS
    <3> HIDE DEF p, before, Upto
    <3>1. m \in 1..k /\ m < n
      BY <1>1
    <3>2. a[m] \in Nat
      BY <1>1, <3>1
    <3> QED  BY <1>1, <3>1, <3>2 DEF Increasing
  <2>3. Upto(n) = Upto(n - 1) \cup {a[n]}
    BY <1>1, <2>1
  <2> HIDE DEF Upto
  <2>4. a[n] \in DOMAIN before.blocks
    BY <2>1, <2>2 DEF Shut
  <2>5. Legal(before, ContentStop(a[n]))
    BY <2>4 DEF Legal, ContentStop
  <2>6. Shut(c, Upto(n)) = Told(before, ContentStop(a[n]))
    <3>1. [i \in DOMAIN c.blocks \ Upto(n) |-> c.blocks[i]] = Remove(before.blocks, a[n])
      BY <2>3 DEF Shut, Remove
    <3>2. Told(before, ContentStop(a[n])) =
              [started |-> before.started, blocks |-> Remove(before.blocks, a[n]), used |-> before.used,
               verdict |-> before.verdict, exit |-> before.exit]
      <4>1. before.started \in BOOLEAN
        BY DEF Shut, IsClient
      <4> HIDE DEF before, p
      <4> QED  BY <4>1, ToldStop
    <3> QED  BY <3>1, <3>2 DEF Shut
  <2> QED  BY <1>2, <2>1, <2>5, <2>6
<1> HIDE DEF Upto
<1>7. p[0] = c /\ p[k] = Shut(c, S)
  <2>1. 0 \in 0..k /\ k \in 0..k
    BY <1>1
  <2> QED  BY <1>4, <1>5, <2>1
<1> HIDE DEF p
<1>8. Path(c, q, Shut(c, S))
  BY <1>3, <1>6, <1>7 DEF Path
<1> QED  BY <1>8 DEF q

\* Some of the open blocks are stopped.
LEMMA StoppingSome ==
    ASSUME NEW b, NEW s, NEW c, Says(b, s, c), NEW S, S \subseteq DOMAIN s.open, NEW t, IsDecodeState(t),
           t.out = s.out \o Stops(S), t.open = [i \in DOMAIN s.open \ S |-> s.open[i]]
    PROVE  Says(b, t, Shut(c, S))
<1>1. S \in SUBSET Nat /\ IsFiniteSet(S)
  BY Fields, FS_Subset DEF Says, IsPartialFn
<1>2. Stops(S) \in Seq(Event) /\ s.out \in Seq(Event)
  BY <1>1, StopsType, Fields DEF Says
<1>3. Path(c, Stops(S), Shut(c, S))
  BY <1>1, StopsPath DEF Says
<1>4. Path(b, t.out, Shut(c, S))
  BY <1>2, <1>3, OneAfterTheOther DEF Says
<1>5. IsClient(Shut(c, S)) /\ DOMAIN Shut(c, S).blocks = DOMAIN t.open
  BY DEF Shut, IsClient, Says
<1> QED  BY <1>4, <1>5 DEF Says

\* drain, and what is known after it.
LEMMA Draining ==
    \A b, s, c : Says(b, s, c) =>
        \E d : /\ Says(b, Drain(s), d) /\ SameFlags(s, Drain(s))
               /\ d.blocks = EmptyFn /\ Drain(s).open = EmptyFn
               /\ d.started = c.started /\ d.used = c.used
               /\ d.verdict = c.verdict /\ d.exit = c.exit
<1> TAKE b, s, c
<1> HAVE Says(b, s, c)
<1> DEFINE S == DOMAIN s.open
           t == Drain(s)
<1>1. t.out = s.out \o Stops(S) /\ t.open = EmptyFn /\ SameFlags(s, t)
  <2> DEFINE q == s.out \o Stops(S)
             none == EmptyFn
  <2>1. t = [s EXCEPT !.open = none, !.out = q]
    BY DEF Drain
  <2> HIDE DEF q, none, t
  <2>2. t.out = q /\ t.open = none /\ SameFlags(s, t)
    BY <2>1, Fields DEF SameFlags, Says
  <2> QED  BY <2>2 DEF q, none
<1>2. IsDecodeState(t)
  BY DrainType DEF Says
<1>3. EmptyFn = [i \in DOMAIN s.open \ S |-> s.open[i]]
  BY DEF EmptyFn
<1> HIDE DEF t
<1>4. Says(b, t, Shut(c, S))
  BY <1>1, <1>2, <1>3, StoppingSome
<1>5. Shut(c, S).blocks = EmptyFn
  BY DEF Shut, EmptyFn, Says
<1> QED  BY <1>1, <1>4, <1>5 DEF Shut, t

(***************************************************************************)
(* The remaining events, by what they change.                              *)
(***************************************************************************)
\* End may come: a verdict or an error has been told.
Settled(c) == c.verdict # "none" \/ c.exit # 0

LEMMA ToldNothing ==
    ASSUME NEW c, IsClient(c), NEW e, e.type \in {"ContentDelta", "Usage"}
    PROVE  Told(c, e) = c
<1>1. (c.started \/ FALSE) = c.started
  BY Zenon DEF IsClient
<1> DEFINE b == c.started \/ FALSE
<1>2. Told(c, e) = [started |-> b, blocks |-> c.blocks, used |-> c.used,
                    verdict |-> c.verdict, exit |-> c.exit]
  BY DEF Told
<1> HIDE DEF b
<1>3. b = c.started
  BY <1>1 DEF b
<1> QED  BY <1>2, <1>3 DEF IsClient

LEMMA Counting ==
    ASSUME NEW b, NEW s, NEW c, Says(b, s, c), c.started = TRUE
    PROVE  Says(b, Emit(s, Usage), c)
<1>1. Usage \in Event /\ Usage.type = "Usage"
  BY EventTypes DEF Usage
<1>2. Legal(c, Usage)
  BY <1>1 DEF Legal
<1>3. Told(c, Usage) = c
  BY <1>1, ToldNothing DEF Says
<1> QED  BY <1>1, <1>2, <1>3, Saying

LEMMA Fragmenting ==
    ASSUME NEW b, NEW s, NEW c, Says(b, s, c), NEW i \in DOMAIN c.blocks, NEW d \in Deltas,
           NEW name \in Pieces, c.blocks[i] = name
    PROVE  Says(b, Emit(s, ContentDelta(i, d, name)), c)
<1> DEFINE e == ContentDelta(i, d, name)
<1>1. i \in Nat
  BY Fields DEF Says, IsPartialFn
<1>2. e \in Event /\ e.type = "ContentDelta" /\ e.index = i /\ e.block = name
  BY <1>1, EventTypes DEF ContentDelta
<1> HIDE DEF e
<1>3. Legal(c, e)
  BY <1>2 DEF Legal
<1>4. Told(c, e) = c
  BY <1>2, ToldNothing DEF Says
<1>5. Says(b, Emit(s, e), c)
  BY <1>2, <1>3, <1>4, Saying
<1> QED  BY <1>5 DEF e

LEMMA Erring ==
    \A b, s, c : \A k \in ErrorKinds : \A n \in Nat : Says(b, s, c) =>
        \E d : /\ Says(b, Emit(s, ErrorWith(k, n)), d) /\ d.exit # 0
               /\ d.started = c.started /\ d.blocks = c.blocks /\ d.used = c.used
               /\ d.verdict = c.verdict
<1> TAKE b, s, c
<1> TAKE k \in ErrorKinds
<1> TAKE n \in Nat
<1> HAVE Says(b, s, c)
<1> DEFINE e == ErrorWith(k, n)
<1>1. e \in Event /\ e.type = "Error" /\ e.kind = k
  BY EventTypes DEF ErrorWith
<1> HIDE DEF e
<1>2. Legal(c, e)
  BY <1>1 DEF Legal
<1>3. Says(b, Emit(s, e), Told(c, e))
  BY <1>1, <1>2, Saying
<1>4. /\ Told(c, e).started = c.started /\ Told(c, e).blocks = c.blocks /\ Told(c, e).used = c.used
      /\ Told(c, e).verdict = c.verdict /\ Told(c, e).exit = ExitOf[k]
  BY <1>1, ToldElse DEF Says, IsClient
<1>5. ExitOf[k] # 0
  BY ErrorsAreNotZero
<1> QED  BY <1>3, <1>4, <1>5 DEF e

\* The end of an answer: what is open is closed, usage may follow, then the verdict.
LEMMA Ending ==
    \A b, s, c, r, u :
        /\ Says(b, s, c) /\ c.started = TRUE /\ c.verdict = "none"
        /\ r \in Reasons /\ u \in {Drain(s), Emit(Drain(s), Usage)}
        => LET t == [Emit(u, Finish(r)) EXCEPT !.terminated = TRUE]
           IN  \E d : /\ Says(b, t, d) /\ d.verdict # "none"
                      /\ d.started = TRUE /\ t.started = s.started
<1> TAKE b, s, c, r, u
<1> HAVE /\ Says(b, s, c) /\ c.started = TRUE /\ c.verdict = "none"
         /\ r \in Reasons /\ u \in {Drain(s), Emit(Drain(s), Usage)}
<1>1. PICK d : /\ Says(b, Drain(s), d) /\ SameFlags(s, Drain(s))
               /\ d.blocks = EmptyFn /\ Drain(s).open = EmptyFn
               /\ d.started = c.started /\ d.used = c.used
               /\ d.verdict = c.verdict /\ d.exit = c.exit
  BY Draining
<1> DEFINE z == Drain(s)
           e == Finish(r)
<1> HIDE DEF z
<1>2. Says(b, u, d) /\ u.started = s.started
  <2>1. z.started = s.started
    BY <1>1 DEF SameFlags, z
  <2>2. Emit(z, Usage).started = z.started
    BY <1>1, EmitFields DEF SameFlags, Says, z
  <2>3. Says(b, Emit(z, Usage), d)
    BY <1>1, Counting DEF z
  <2> QED  BY <1>1, <2>1, <2>2, <2>3 DEF z
<1>3. e \in Event /\ e.type = "Finish" /\ e.reason = r
  BY EventTypes DEF Finish
<1> HIDE DEF e
<1>4. Legal(d, e)
  BY <1>1, <1>3 DEF Legal
<1>5. Says(b, Emit(u, e), Told(d, e))
  BY <1>2, <1>3, <1>4, Saying
<1>6. Told(d, e).verdict = r /\ Told(d, e).started = d.started
  <2>1. d.started \in BOOLEAN
    BY <1>1 DEF Says, IsClient
  <2>2. e.type \in {"ContentDelta", "Usage", "Finish", "Error"}
    BY <1>3
  <2> QED  BY <1>3, <2>1, <2>2, ToldElse
<1> DEFINE v == Emit(u, e)
           t == [v EXCEPT !.terminated = TRUE]
<1>7. IsDecodeState(v) /\ v.started = u.started
  <2>1. IsDecodeState(u) /\ IsDecodeState(v)
    BY <1>2, <1>5 DEF Says
  <2> QED  BY <2>1, EmitFields DEF SameFlags
<1> HIDE DEF v
<1>8. IsDecodeState(t) /\ t.out = v.out /\ t.open = v.open /\ t.started = v.started
  <2>1. IsDecodeState(t)
    BY <1>7, FlagTypes
  <2> QED  BY <1>7, <2>1 DEF IsDecodeState
<1> HIDE DEF t
<1>9. Says(b, t, Told(d, e))
  <2>1. Says(b, v, Told(d, e))
    BY <1>5 DEF v
  <2> QED  BY <1>8, <2>1, Flagging
<1>10. r # "none"
  BY DEF Reasons
<1>11. t = [Emit(u, Finish(r)) EXCEPT !.terminated = TRUE]
  BY DEF t, v, e
<1> QED  BY <1>1, <1>2, <1>6, <1>7, <1>8, <1>9, <1>10, <1>11

(***************************************************************************)
(* The dialects without block structure: openai, google and ollama.        *)
(***************************************************************************)
\* Until the verdict every block stays open, and they are numbered from 0 as they come.
Lazy(s, c) ==
    /\ ~ s.terminated /\ c.verdict = "none" /\ c.started = s.started
    /\ c.used = DOMAIN s.open /\ DOMAIN s.open = 0..(NextIndex(s) - 1)
    /\ \A i \in DOMAIN s.open : s.open[i] \in {"Text", "Thinking"} => c.blocks[i] = s.open[i]

\* A wire index leads to the block of that call.
Tools(s, c) ==
    \A t \in DOMAIN s.tool_index :
        s.tool_index[t] \in DOMAIN c.blocks /\ c.blocks[s.tool_index[t]] = BlockName(t)

LEMMA FlagFields ==
    ASSUME NEW s, IsDecodeState(s)
    PROVE  /\ LET t == [s EXCEPT !.started = TRUE]
              IN  /\ IsDecodeState(t) /\ t.out = s.out /\ t.open = s.open /\ t.started = TRUE
                  /\ t.terminated = s.terminated /\ t.tool_index = s.tool_index
                  /\ t.part_index = s.part_index
           /\ LET t == [s EXCEPT !.terminated = TRUE]
              IN  /\ IsDecodeState(t) /\ t.out = s.out /\ t.open = s.open /\ t.started = s.started
                  /\ t.terminated = TRUE /\ t.tool_index = s.tool_index
                  /\ t.part_index = s.part_index
           /\ \A r \in BOOLEAN : LET t == [s EXCEPT !.refusal = r]
              IN  /\ IsDecodeState(t) /\ t.out = s.out /\ t.open = s.open /\ t.started = s.started
                  /\ t.terminated = s.terminated /\ t.tool_index = s.tool_index
                  /\ t.part_index = s.part_index
           /\ \A r \in BOOLEAN : LET t == [s EXCEPT !.error_tag = r]
              IN  /\ IsDecodeState(t) /\ t.out = s.out /\ t.open = s.open /\ t.started = s.started
                  /\ t.terminated = s.terminated /\ t.tool_index = s.tool_index
                  /\ t.part_index = s.part_index
  BY DEF IsDecodeState

\* MessageStart is told unless it was.
LEMMA Starting ==
    \A b, s, c : Says(b, s, c) /\ c.started = s.started =>
        LET t == StartMessage(s)
        IN  \E d : /\ Says(b, t, d) /\ d.started = TRUE /\ t.started = TRUE
                   /\ d.blocks = c.blocks /\ d.used = c.used /\ d.verdict = c.verdict
                   /\ t.open = s.open /\ t.terminated = s.terminated
                   /\ t.tool_index = s.tool_index /\ t.part_index = s.part_index
<1> TAKE b, s, c
<1> HAVE Says(b, s, c) /\ c.started = s.started
<1>0. s.started \in BOOLEAN /\ IsDecodeState(s)
  BY Fields DEF Says
<1>1. CASE s.started
  <2>1. StartMessage(s) = s /\ s.started = TRUE /\ c.started = TRUE
    BY <1>0, <1>1 DEF StartMessage
  <2> QED  BY <2>1
<1>2. CASE ~ s.started
  <2> DEFINE u == [s EXCEPT !.started = TRUE]
             e == MessageStart
             t == Emit(u, e)
  <2>1. /\ IsDecodeState(u) /\ u.out = s.out /\ u.open = s.open /\ u.started = TRUE
        /\ u.terminated = s.terminated /\ u.tool_index = s.tool_index
        /\ u.part_index = s.part_index
    BY <1>0, FlagFields
  <2>2. StartMessage(s) = t
    BY <1>2 DEF StartMessage
  <2> HIDE DEF u
  <2>3. Says(b, u, c)
    BY <2>1, Flagging
  <2>4. e \in Event /\ e.type = "MessageStart"
    BY EventTypes DEF MessageStart
  <2>5. Legal(c, e)
    BY <1>2, <2>4 DEF Legal
  <2>6. Says(b, t, Told(c, e))
    BY <2>3, <2>4, <2>5, Saying
  <2>7. /\ Told(c, e).started = TRUE /\ Told(c, e).blocks = c.blocks /\ Told(c, e).used = c.used
        /\ Told(c, e).verdict = c.verdict
    BY ToldStart
  <2>8. t.open = u.open /\ SameFlags(u, t)
    BY <2>1, EmitFields
  <2> HIDE DEF t
  <2> QED  BY <2>1, <2>2, <2>6, <2>7, <2>8 DEF SameFlags
<1> QED  BY <1>0, <1>1, <1>2

\* A block is opened at the next index.
MayOpenNext(b, s, c, k, name) ==
    /\ Says(b, s, c) /\ Lazy(s, c) /\ s.started = TRUE /\ k \in Kinds /\ name \in Pieces
    /\ k \in {"Text", "Thinking"} => name = k

LEMMA OpeningNext ==
    \A b, s, c, k, name : MayOpenNext(b, s, c, k, name) =>
        LET i == NextIndex(s)
            t == OpenBlock(s, i, k, name)
        IN  \E d : /\ Says(b, t, d) /\ Lazy(t, d) /\ t.started = TRUE
                   /\ t.open = Insert(s.open, i, k) /\ d.blocks = Insert(c.blocks, i, name)
                   /\ SameFlags(s, t) /\ i \in Nat /\ i \notin DOMAIN s.open
<1> TAKE b, s, c, k, name
<1> HAVE MayOpenNext(b, s, c, k, name)
<1> DEFINE i == NextIndex(s)
           t == OpenBlock(s, i, k, name)
<1> USE DEF MayOpenNext
<1>1. i \in Nat /\ IsDecodeState(s) /\ IsFiniteSet(DOMAIN s.open) /\ DOMAIN c.blocks = DOMAIN s.open
  BY NextIndexType, Fields DEF Says, IsPartialFn
<1>2. DOMAIN s.open = 0..(i - 1)
  BY DEF Lazy
<1>2a. i = Cardinality(DOMAIN s.open)
  BY DEF NextIndex
<1>2b. c.used = DOMAIN s.open
  BY DEF Lazy
<1>3. i \notin DOMAIN s.open /\ i \notin c.used /\ i \in Nat
  BY <1>1, <1>2, <1>2b
<1>4. c.started = TRUE /\ c.verdict = "none"
  BY DEF Lazy
<1> HIDE DEF i
<1>m. MayOpen(b, s, c, i, k, name)
  BY <1>3, <1>4 DEF MayOpen
<1>5a. SameFlags(s, t) /\ t.open = Insert(s.open, i, k)
  BY <1>1, OpenBlockFields
<1>5b. PICK d : /\ Says(b, t, d)
                /\ d.blocks = Insert(c.blocks, i, name) /\ d.used = c.used \cup {i}
                /\ d.started = TRUE /\ d.verdict = c.verdict /\ d.exit = c.exit
  BY <1>m, Opening
<1>5. /\ Says(b, t, d) /\ SameFlags(s, t)
      /\ t.open = Insert(s.open, i, k) /\ d.blocks = Insert(c.blocks, i, name)
      /\ d.used = c.used \cup {i} /\ d.started = TRUE /\ d.verdict = c.verdict
  BY <1>5a, <1>5b
<1> HIDE DEF t
<1>6. DOMAIN t.open = DOMAIN s.open \cup {i}
  BY <1>5 DEF Insert
<1>7. NextIndex(t) = i + 1
  <2>1. Cardinality(DOMAIN s.open \cup {i}) = Cardinality(DOMAIN s.open) + 1
    BY <1>1, <1>3, FS_AddElement
  <2> QED  BY <1>2a, <1>6, <2>1 DEF NextIndex
<1>8. DOMAIN t.open = 0..(NextIndex(t) - 1)
  <2>1. (0..(i - 1)) \cup {i} = 0..((i + 1) - 1)
    BY <1>3
  <2> QED  BY <1>2, <1>6, <1>7, <2>1
<1>9. ASSUME NEW j \in DOMAIN t.open, t.open[j] \in {"Text", "Thinking"} PROVE d.blocks[j] = t.open[j]
  <2>1. CASE j = i
    BY <1>5, <2>1, <1>9 DEF Insert
  <2>2. CASE j # i
    <3>1. j \in DOMAIN s.open /\ t.open[j] = s.open[j]
      BY <1>5, <1>6, <2>2 DEF Insert
    <3>2. d.blocks[j] = c.blocks[j]
      BY <1>1, <1>5, <2>2, <3>1 DEF Insert
    <3> QED  BY <1>9, <3>1, <3>2 DEF Lazy
  <2> QED  BY <2>1, <2>2
<1>10. t.started = TRUE /\ t.terminated = s.terminated
  BY <1>1, <1>5, Fields DEF SameFlags
<1>11. Lazy(t, d)
  BY <1>2b, <1>4, <1>5, <1>6, <1>8, <1>9, <1>10 DEF Lazy
<1> QED  BY <1>1, <1>3, <1>5, <1>10, <1>11 DEF t, i

\* A new block leaves the calls where they are.
LEMMA ToolsStay ==
    ASSUME NEW s, NEW c, Tools(s, c), NEW i, i \notin DOMAIN c.blocks, NEW name,
           NEW t, t.tool_index = s.tool_index, NEW d, d.blocks = Insert(c.blocks, i, name)
    PROVE  Tools(t, d)
  BY DEF Tools, Insert

\* A fragment of a lazy block.
LEMMA LazySaying ==
    \A b, s, c, k, e :
        /\ Says(b, s, c) /\ Lazy(s, c) /\ Tools(s, c) /\ s.started = TRUE
        /\ k \in {"Text", "Thinking"} /\ e \in Deltas
        => LET t == LazyDelta(s, k, e)
           IN  \E d : Says(b, t, d) /\ Lazy(t, d) /\ Tools(t, d) /\ t.started = TRUE
<1> TAKE b, s, c, k, e
<1> HAVE /\ Says(b, s, c) /\ Lazy(s, c) /\ Tools(s, c) /\ s.started = TRUE
         /\ k \in {"Text", "Thinking"} /\ e \in Deltas
<1> DEFINE o == OpenLazy(s, k)
<1>0. k \in Kinds /\ k \in Pieces
  <2>1. k = "Text" \/ k = "Thinking"
    OBVIOUS
  <2> QED  BY <2>1 DEF Kinds, Pieces
<1>1. \E d : Says(b, o, d) /\ Lazy(o, d) /\ Tools(o, d) /\ o.started = TRUE /\ OpenOf(o, k) # {}
  <2>1. CASE OpenOf(s, k) # {}
    BY <2>1 DEF OpenLazy
  <2>2. CASE OpenOf(s, k) = {}
    <3> DEFINE i == NextIndex(s)
    <3>1. o = OpenBlock(s, i, k, k)
      BY <2>2 DEF OpenLazy
    <3>2. PICK d : /\ Says(b, o, d) /\ Lazy(o, d) /\ o.started = TRUE
                   /\ o.open = Insert(s.open, i, k) /\ d.blocks = Insert(c.blocks, i, k)
                   /\ SameFlags(s, o) /\ i \in Nat /\ i \notin DOMAIN s.open
      <4>1. MayOpenNext(b, s, c, k, k)
        BY <1>0 DEF MayOpenNext
      <4> QED  BY <3>1, <4>1, OpeningNext
    <3> HIDE DEF i, o
    <3>3. Tools(o, d)
      BY <3>2, ToolsStay DEF Says, SameFlags
    <3>4. i \in OpenOf(o, k)
      BY <3>2 DEF OpenOf, Insert
    <3> QED  BY <3>2, <3>3, <3>4
  <2> QED  BY <2>1, <2>2
<1>2. PICK d : Says(b, o, d) /\ Lazy(o, d) /\ Tools(o, d) /\ o.started = TRUE /\ OpenOf(o, k) # {}
  BY <1>1
<1> HIDE DEF o
<1> DEFINE j == CHOOSE x \in OpenOf(o, k) : TRUE
           t == Emit(o, ContentDelta(j, e, k))
<1>3. j \in DOMAIN o.open /\ o.open[j] = k
  BY <1>2 DEF OpenOf
<1>4. j \in DOMAIN d.blocks /\ d.blocks[j] = k
  BY <1>2, <1>3 DEF Says, Lazy
<1> HIDE DEF j
<1>5. Says(b, t, d)
  BY <1>0, <1>2, <1>4, Fragmenting
<1>6. t.open = o.open /\ SameFlags(o, t)
  BY <1>2, EmitFields DEF Says
<1>7. LazyDelta(s, k, e) = t
  BY DEF LazyDelta, o, t, j
<1> HIDE DEF t
<1>8. Lazy(t, d) /\ Tools(t, d) /\ t.started = TRUE
  BY <1>2, <1>6 DEF Lazy, Tools, SameFlags, NextIndex
<1> QED  BY <1>5, <1>7, <1>8

(***************************************************************************)
(* An answer of such a dialect: Ongoing, from MessageStart to the verdict, *)
(* and Answered, from then on.                                             *)
(***************************************************************************)
Ongoing(b, s, c) == Says(b, s, c) /\ Lazy(s, c) /\ Tools(s, c) /\ s.started = TRUE

Answered(b, s, c) == Says(b, s, c) /\ c.verdict # "none" /\ c.started = TRUE /\ s.started = TRUE

LEMMA Beginning ==
    \A b, s, c : Says(b, s, c) /\ Lazy(s, c) /\ Tools(s, c) => \E d : Ongoing(b, StartMessage(s), d)
<1> TAKE b, s, c
<1> HAVE Says(b, s, c) /\ Lazy(s, c) /\ Tools(s, c)
<1> DEFINE t == StartMessage(s)
<1>1. PICK d : /\ Says(b, t, d)
               /\ d.started = TRUE /\ t.started = TRUE
               /\ d.blocks = c.blocks /\ d.used = c.used /\ d.verdict = c.verdict
               /\ t.open = s.open /\ t.terminated = s.terminated
               /\ t.tool_index = s.tool_index
  BY Starting DEF Lazy
<1> HIDE DEF t
<1>2. Lazy(t, d)
  BY <1>1 DEF Lazy, NextIndex
<1>3. Tools(t, d)
  BY <1>1 DEF Tools
<1> QED  BY <1>1, <1>2, <1>3 DEF Ongoing, t

LEMMA OngoingLazy ==
    \A b, s, c, k, e : Ongoing(b, s, c) /\ k \in {"Text", "Thinking"} /\ e \in Deltas
        => \E d : Ongoing(b, LazyDelta(s, k, e), d)
  BY LazySaying DEF Ongoing

\* What is emitted opens and closes nothing.
LEMMA OngoingSame ==
    \A b, s, c, t : Ongoing(b, s, c) /\ Says(b, t, c) /\ t.open = s.open /\ t.started = s.started
                    /\ t.terminated = s.terminated /\ t.tool_index = s.tool_index
        => Ongoing(b, t, c)
  BY DEF Ongoing, Lazy, Tools, NextIndex

LEMMA OngoingFragment ==
    \A b, s, c, i, e, name :
        Ongoing(b, s, c) /\ i \in DOMAIN c.blocks /\ c.blocks[i] = name /\ name \in Pieces /\ e \in Deltas
        => Ongoing(b, Emit(s, ContentDelta(i, e, name)), c)
<1> TAKE b, s, c, i, e, name
<1> HAVE Ongoing(b, s, c) /\ i \in DOMAIN c.blocks /\ c.blocks[i] = name /\ name \in Pieces /\ e \in Deltas
<1> DEFINE t == Emit(s, ContentDelta(i, e, name))
<1>1. Says(b, t, c)
  BY Fragmenting DEF Ongoing
<1>2. IsDecodeState(s)
  BY DEF Ongoing, Says
<1>3. t.open = s.open /\ SameFlags(s, t)
  BY <1>2, EmitFields
<1> HIDE DEF t
<1>4. Ongoing(b, t, c)
  BY <1>1, <1>3, OngoingSame DEF SameFlags
<1> QED  BY <1>4 DEF t

LEMMA OngoingUsage ==
    \A b, s, c : Ongoing(b, s, c) => Ongoing(b, Emit(s, Usage), c)
<1> TAKE b, s, c
<1> HAVE Ongoing(b, s, c)
<1> DEFINE t == Emit(s, Usage)
<1>1. IsDecodeState(s) /\ Says(b, s, c) /\ c.started = TRUE
  BY DEF Ongoing, Says, Lazy
<1>2. Says(b, t, c)
  BY <1>1, Counting
<1>3. t.open = s.open /\ SameFlags(s, t)
  BY <1>1, EmitFields
<1> HIDE DEF t
<1>4. Ongoing(b, t, c)
  BY <1>2, <1>3, OngoingSame DEF SameFlags
<1> QED  BY <1>4 DEF t

LEMMA OngoingRefusal ==
    \A b, s, c : \A r \in BOOLEAN : Ongoing(b, s, c) => Ongoing(b, [s EXCEPT !.refusal = r], c)
<1> TAKE b, s, c
<1> TAKE r \in BOOLEAN
<1> HAVE Ongoing(b, s, c)
<1> DEFINE t == [s EXCEPT !.refusal = r]
<1>1. IsDecodeState(s) /\ Says(b, s, c)
  BY DEF Ongoing, Says
<1>2. /\ IsDecodeState(t) /\ t.out = s.out /\ t.open = s.open /\ t.started = s.started
      /\ t.terminated = s.terminated /\ t.tool_index = s.tool_index
  BY <1>1, FlagFields
<1> HIDE DEF t
<1>3. Says(b, t, c)
  BY <1>1, <1>2, Flagging
<1>4. Ongoing(b, t, c)
  BY <1>2, <1>3, OngoingSame
<1> QED  BY <1>4 DEF t

\* A block that comes with its content.
LEMMA OngoingWhole ==
    \A b, s, c, k, e, name :
        Ongoing(b, s, c) /\ k \in {"ToolUse", "Image"} /\ e \in Deltas /\ name \in Pieces
        => LET i == NextIndex(s)
           IN  \E d : /\ Ongoing(b, Emit(OpenBlock(s, i, k, name), ContentDelta(i, e, name)), d)
                      /\ i \in DOMAIN d.blocks /\ d.blocks[i] = name
<1> TAKE b, s, c, k, e, name
<1> HAVE Ongoing(b, s, c) /\ k \in {"ToolUse", "Image"} /\ e \in Deltas /\ name \in Pieces
<1> DEFINE i == NextIndex(s)
           t == OpenBlock(s, i, k, name)
<1>1. MayOpenNext(b, s, c, k, name)
  <2>1. k \in Kinds /\ k \notin {"Text", "Thinking"}
    BY DEF Kinds
  <2> QED  BY <2>1 DEF MayOpenNext, Ongoing
<1>2. PICK d : /\ Says(b, t, d) /\ Lazy(t, d) /\ t.started = TRUE
               /\ t.open = Insert(s.open, i, k) /\ d.blocks = Insert(c.blocks, i, name)
               /\ SameFlags(s, t) /\ i \in Nat /\ i \notin DOMAIN s.open
  BY <1>1, OpeningNext
<1> HIDE DEF t, i
<1>3. Tools(t, d)
  <2>1. i \notin DOMAIN c.blocks /\ Tools(s, c) /\ t.tool_index = s.tool_index
    BY <1>2 DEF Ongoing, Says, SameFlags
  <2> QED  BY <1>2, <2>1, ToolsStay
<1>4. Ongoing(b, t, d) /\ i \in DOMAIN d.blocks /\ d.blocks[i] = name
  BY <1>2, <1>3 DEF Ongoing, Insert
<1>5. Ongoing(b, Emit(t, ContentDelta(i, e, name)), d)
  BY <1>4, OngoingFragment
<1> QED  BY <1>4, <1>5 DEF t, i

\* A fragment of a call, whose block is opened at the first.
LEMMA OngoingTool ==
    \A b, s, c, f : Ongoing(b, s, c) /\ f.tool \in Nat /\ f.block = BlockName(f.tool)
        => \E d : Ongoing(b, ToolCall(f, s), d)
<1> TAKE b, s, c, f
<1> HAVE Ongoing(b, s, c) /\ f.tool \in Nat /\ f.block = BlockName(f.tool)
<1> DEFINE i == NextIndex(s)
           u == [s EXCEPT !.tool_index = Insert(@, f.tool, i)]
           t == IF f.tool \in DOMAIN s.tool_index THEN s ELSE OpenBlock(u, i, "ToolUse", f.block)
<1>1. f.block \in Pieces /\ IsDecodeState(s)
  BY BlockNames DEF Ongoing, Says
<1>2. \E d : Ongoing(b, t, d) /\ f.tool \in DOMAIN t.tool_index
  <2>1. CASE f.tool \in DOMAIN s.tool_index
    BY <2>1
  <2>2. CASE f.tool \notin DOMAIN s.tool_index
    <3>1. IsPartialFn(Insert(s.tool_index, f.tool, i), Nat, Nat)
      BY <1>1, NextIndexType, Fields, InsertType
    <3>2. /\ IsDecodeState(u) /\ u.out = s.out /\ u.open = s.open /\ u.started = s.started
          /\ u.terminated = s.terminated /\ u.tool_index = Insert(s.tool_index, f.tool, i)
      BY <1>1, <3>1 DEF IsDecodeState
    <3>3. i = NextIndex(u)
      BY <3>2 DEF NextIndex
    <3>4. t = OpenBlock(u, i, "ToolUse", f.block)
      BY <2>2
    <3> HIDE DEF u, i, t
    <3>5. Says(b, u, c) /\ Lazy(u, c) /\ u.started = TRUE
      <4>1. Says(b, u, c)
        BY <3>2, Flagging DEF Ongoing
      <4>2. Lazy(u, c)
        BY <3>2 DEF Ongoing, Lazy, NextIndex
      <4> QED  BY <3>2, <4>1, <4>2 DEF Ongoing
    <3>6. MayOpenNext(b, u, c, "ToolUse", f.block)
      BY <1>1, <3>5 DEF MayOpenNext, Kinds
    <3>7. PICK d : /\ Says(b, t, d) /\ Lazy(t, d) /\ t.started = TRUE
                   /\ t.open = Insert(u.open, i, "ToolUse") /\ d.blocks = Insert(c.blocks, i, f.block)
                   /\ SameFlags(u, t) /\ i \in Nat /\ i \notin DOMAIN u.open
      BY <3>3, <3>4, <3>6, OpeningNext
    <3>8. t.tool_index = Insert(s.tool_index, f.tool, i)
      BY <3>2, <3>7 DEF SameFlags
    <3>9. Tools(t, d)
      <4>1. ASSUME NEW x \in DOMAIN t.tool_index
            PROVE  t.tool_index[x] \in DOMAIN d.blocks /\ d.blocks[t.tool_index[x]] = BlockName(x)
        <5>1. CASE x = f.tool
          BY <3>7, <3>8, <5>1 DEF Insert
        <5>2. CASE x # f.tool
          <6>1. x \in DOMAIN s.tool_index /\ t.tool_index[x] = s.tool_index[x]
            BY <3>8, <5>2 DEF Insert
          <6>2. s.tool_index[x] \in DOMAIN c.blocks /\ c.blocks[s.tool_index[x]] = BlockName(x)
            BY <6>1 DEF Ongoing, Tools
          <6>3. i \notin DOMAIN c.blocks
            BY <3>2, <3>7 DEF Ongoing, Says
          <6> QED  BY <3>7, <6>1, <6>2, <6>3 DEF Insert
        <5> QED  BY <5>1, <5>2
      <4> QED  BY <4>1 DEF Tools
    <3>10. f.tool \in DOMAIN t.tool_index
      BY <3>8 DEF Insert
    <3> QED  BY <3>7, <3>9, <3>10 DEF Ongoing
  <2> QED  BY <2>1, <2>2
<1>3. PICK d : Ongoing(b, t, d) /\ f.tool \in DOMAIN t.tool_index
  BY <1>2
<1>4. ToolCall(f, s) = IF f.args THEN Emit(t, ContentDelta(t.tool_index[f.tool], "JsonDelta", f.block)) ELSE t
  BY DEF ToolCall
<1> HIDE DEF t
<1>5. t.tool_index[f.tool] \in DOMAIN d.blocks /\ d.blocks[t.tool_index[f.tool]] = f.block
  BY <1>3 DEF Ongoing, Tools
<1>6. Ongoing(b, Emit(t, ContentDelta(t.tool_index[f.tool], "JsonDelta", f.block)), d)
  BY <1>1, <1>3, <1>5, OngoingFragment DEF Deltas
<1> QED  BY <1>3, <1>4, <1>6

\* The end of an answer.
LEMMA OngoingEnds ==
    \A b, s, c, r, u : Ongoing(b, s, c) /\ r \in Reasons /\ u \in {Drain(s), Emit(Drain(s), Usage)}
        => \E d : Answered(b, [Emit(u, Finish(r)) EXCEPT !.terminated = TRUE], d)
<1> TAKE b, s, c, r, u
<1> HAVE Ongoing(b, s, c) /\ r \in Reasons /\ u \in {Drain(s), Emit(Drain(s), Usage)}
<1> DEFINE t == [Emit(u, Finish(r)) EXCEPT !.terminated = TRUE]
<1>1. Says(b, s, c) /\ c.started = TRUE /\ c.verdict = "none" /\ s.started = TRUE
  BY DEF Ongoing, Lazy
<1>2. \E d : /\ Says(b, t, d) /\ d.verdict # "none"
             /\ d.started = TRUE /\ t.started = s.started
  BY <1>1, Ending
<1> HIDE DEF t
<1>3. \E d : Answered(b, t, d)
  BY <1>1, <1>2 DEF Answered
<1> QED  BY <1>3 DEF t

LEMMA AnsweredUsage ==
    \A b, s, c : Answered(b, s, c) => Answered(b, Emit(s, Usage), c)
<1> TAKE b, s, c
<1> HAVE Answered(b, s, c)
<1>1. Says(b, Emit(s, Usage), c) /\ IsDecodeState(s)
  BY Counting DEF Answered, Says
<1>2. Emit(s, Usage).started = s.started
  BY <1>1, EmitFields DEF SameFlags
<1> QED  BY <1>1, <1>2 DEF Answered

\* What relates these decoders to the provider: as long as the provider has given no verdict,
\* the consumer has none; and the terminal marker comes after a verdict or an error.
LazyRel(w, s, c) ==
    /\ w.phase \in {"before", "open"} => Lazy(s, c) /\ Tools(s, c)
    /\ w.phase = "verdict" => c.verdict # "none" /\ c.started = TRUE /\ s.started = TRUE
    /\ w.phase = "failed" => c.exit # 0
    /\ s.terminated => Settled(c)

\* What a frame does, whichever the dialect.
LazyKept(b, t, v) == \E d : Says(b, t, d) /\ LazyRel(v, t, d)

LEMMA LazyErring ==
    \A b, s, c, w, v : \A k \in ErrorKinds :
        Says(b, s, c) /\ LazyRel(w, s, c) /\ v.phase \in {w.phase, "failed"}
        => LazyKept(b, Emit(s, Error(k)), v)
<1> TAKE b, s, c, w, v
<1> TAKE k \in ErrorKinds
<1> HAVE Says(b, s, c) /\ LazyRel(w, s, c) /\ v.phase \in {w.phase, "failed"}
<1> DEFINE t == Emit(s, Error(k))
<1>1. PICK d : /\ Says(b, t, d) /\ d.exit # 0
               /\ d.started = c.started /\ d.blocks = c.blocks /\ d.used = c.used
               /\ d.verdict = c.verdict
  BY Erring DEF Error
<1>2. t.open = s.open /\ SameFlags(s, t)
  BY EmitFields DEF Says
<1> HIDE DEF t
<1>3. Lazy(s, c) => Lazy(t, d)
  BY <1>1, <1>2 DEF Lazy, SameFlags, NextIndex
<1>4. Tools(s, c) => Tools(t, d)
  BY <1>1, <1>2 DEF Tools, SameFlags
<1>5. Settled(d)
  BY <1>1 DEF Settled
<1>6. LazyRel(v, t, d)
  BY <1>1, <1>2, <1>3, <1>4, <1>5 DEF LazyRel, SameFlags
<1> QED  BY <1>1, <1>6 DEF LazyKept, t

\* Most frames leave the answer ongoing; the last one ends it.
LEMMA LazyProceeds ==
    \A b, t, c, v : Ongoing(b, t, c) /\ v.phase = "open" => LazyKept(b, t, v)
  BY DEF Ongoing, LazyRel, LazyKept, Lazy

LEMMA LazyConcludes ==
    \A b, t, c, v : Answered(b, t, c) /\ v.phase \in {"verdict", "over"} => LazyKept(b, t, v)
  BY DEF Answered, LazyRel, LazyKept, Settled

(***************************************************************************)
(* OpenAI chat completions.                                                *)
(***************************************************************************)
LEMMA FinishChatEnds ==
    \A b, s, c : \A r \in Reasons : Ongoing(b, s, c) => \E d : Answered(b, FinishChat(r, s), d)
<1> TAKE b, s, c
<1> TAKE r \in Reasons
<1> HAVE Ongoing(b, s, c)
<1> DEFINE q == IF s.refusal THEN "Refusal" ELSE r
           u == Drain(s)
<1>1. q \in Reasons
  BY DEF Reasons
<1>2. FinishChat(r, s) = [Emit(u, Finish(q)) EXCEPT !.terminated = TRUE]
  BY DEF FinishChat
<1>3. u \in {Drain(s), Emit(Drain(s), Usage)}
  OBVIOUS
<1> HIDE DEF q, u
<1>4. \E d : Answered(b, [Emit(u, Finish(q)) EXCEPT !.terminated = TRUE], d)
  BY <1>1, <1>3, OngoingEnds
<1> QED  BY <1>2, <1>4

LEMMA ChunkShape ==
    \A w : \A f \in OpenAiChunks(w) \cup RefusalChunks :
        f.type = "chunk" /\ (f.tool # NoTool => f.block = BlockName(f.tool))
<1> TAKE w
<1> TAKE f \in OpenAiChunks(w) \cup RefusalChunks
<1>1. CASE f \in OpenAiChunks(w)
  <2>1. PICK t \in CallsSent(w) :
            f \in [type : {"chunk"}, thinking : BOOLEAN, text : BOOLEAN, refusal : {FALSE}, tool : {t},
                  args : IF t = NoTool THEN {FALSE} ELSE BOOLEAN,
                  block : {IF t = NoTool THEN "" ELSE BlockName(t)},
                  finish : {"none", "Stop"}, usage : {FALSE}]
    BY <1>1 DEF OpenAiChunks
  <2>2. f.type = "chunk" /\ f.tool = t /\ f.block = IF t = NoTool THEN "" ELSE BlockName(t)
    BY <2>1
  <2> QED  BY <2>2
<1>2. CASE f \in RefusalChunks
  BY <1>2 DEF RefusalChunks
<1> QED  BY <1>1, <1>2

LEMMA ChatChunkSays ==
    \A b, s, c : \A f \in ChatFrames :
        /\ Says(b, s, c) /\ Lazy(s, c) /\ Tools(s, c)
        /\ f.type = "chunk"
        /\ f.tool # NoTool => f.block = BlockName(f.tool)
        => \E d : IF f.finish = "none" THEN Ongoing(b, ChatChunk(f, s), d)
                  ELSE Answered(b, ChatChunk(f, s), d)
<1> TAKE b, s, c
<1> TAKE f \in ChatFrames
<1> HAVE /\ Says(b, s, c) /\ Lazy(s, c) /\ Tools(s, c)
         /\ f.type = "chunk"
         /\ f.tool # NoTool => f.block = BlockName(f.tool)
<1>t. f.tool \in Nat \cup {NoTool} /\ f.finish \in Reasons \cup {"none"} /\ f.refusal \in BOOLEAN
  BY DEF ChatFrames
<1> DEFINE On(u) == \E d : Ongoing(b, u, d)
<1>1. On(StartMessage(s))
  BY Beginning
<1>2. \A u : On(u) => On(ChatThinking(f, u))
  BY OngoingLazy DEF ChatThinking, Deltas
<1>3. \A u : On(u) => On(ChatText(f, u))
  BY OngoingLazy DEF ChatText, Deltas
<1>4. ASSUME NEW u, On(u) PROVE On(ChatRefusal(f, u))
  <2> DEFINE r == u.refusal \/ f.refusal
  <2>1. r \in BOOLEAN
    OBVIOUS
  <2>2. ChatRefusal(f, u) = [u EXCEPT !.refusal = r]
    BY DEF ChatRefusal
  <2> HIDE DEF r
  <2> QED  BY <1>4, <2>1, <2>2, OngoingRefusal
<1>5. \A u : On(u) => On(ChatTool(f, u))
  <2>1. CASE f.tool = NoTool
    BY <2>1 DEF ChatTool
  <2>2. CASE f.tool # NoTool
    <3>1. f.tool \in Nat /\ f.block = BlockName(f.tool)
      BY <1>t, <2>2
    <3>2. \A u : ChatTool(f, u) = ToolCall(f, u)
      BY <2>2 DEF ChatTool
    <3> QED  BY <3>1, <3>2, OngoingTool
  <2> QED  BY <2>1, <2>2
<1>6. \A u : On(u) => \E d : IF f.finish = "none" THEN Ongoing(b, ChatFinish(f, u), d)
                             ELSE Answered(b, ChatFinish(f, u), d)
  BY <1>t, FinishChatEnds DEF ChatFinish
<1>7. \A u : (\E d : IF f.finish = "none" THEN Ongoing(b, u, d) ELSE Answered(b, u, d))
          => \E d : IF f.finish = "none" THEN Ongoing(b, ChatUsage(f, u), d) ELSE Answered(b, ChatUsage(f, u), d)
  BY OngoingUsage, AnsweredUsage DEF ChatUsage
<1> DEFINE z == ChatTool(f, ChatRefusal(f, ChatText(f, ChatThinking(f, StartMessage(s)))))
<1>8. On(z)
  <2> HIDE DEF On
  <2> QED  BY <1>1, <1>2, <1>3, <1>4, <1>5
<1>9. ChatChunk(f, s) = ChatUsage(f, ChatFinish(f, z))
  BY DEF ChatChunk
<1> HIDE DEF z
<1> QED  BY <1>6, <1>7, <1>8, <1>9

\* After the verdict only usage is sent.
LEMMA UsageChunkSays ==
    \A b, s, c : \A f \in UsageChunks : Answered(b, s, c) => Answered(b, ChatChunk(f, s), c)
<1> TAKE b, s, c
<1> TAKE f \in UsageChunks
<1> HAVE Answered(b, s, c)
<1>1. /\ f.thinking = FALSE /\ f.text = FALSE /\ f.refusal = FALSE /\ f.tool = NoTool
      /\ f.finish = "none" /\ f.usage = TRUE
  BY Zenon DEF UsageChunks
<1>2. IsDecodeState(s) /\ s.started = TRUE
  BY DEF Answered, Says
<1>3. ChatRefusal(f, s) = s
  <2> DEFINE r == s.refusal \/ f.refusal
  <2>1. r = s.refusal
    BY <1>1, <1>2, Fields, Zenon
  <2>2. ChatRefusal(f, s) = [s EXCEPT !.refusal = r]
    BY DEF ChatRefusal
  <2> HIDE DEF r
  <2> QED  BY <1>2, <2>1, <2>2 DEF IsDecodeState
<1>4. ChatTool(f, ChatRefusal(f, ChatText(f, ChatThinking(f, StartMessage(s))))) = s
  BY <1>1, <1>2, <1>3 DEF ChatTool, ChatText, ChatThinking, StartMessage
<1>5. ChatChunk(f, s) = Emit(s, Usage)
  BY <1>1, <1>4 DEF ChatChunk, ChatUsage, ChatFinish
<1> QED  BY <1>5, AnsweredUsage

LEMMA ChatKeeps ==
    \A b, w, s, c : \A f \in OpenAiFrames(w) :
        WireOK("openai", w) /\ Says(b, s, c) /\ LazyRel(w, s, c)
        => LazyKept(b, ChatDecode(f, s), OpenAiAfter(w, f))
<1> TAKE b, w, s, c
<1> TAKE f \in OpenAiFrames(w)
<1> HAVE WireOK("openai", w) /\ Says(b, s, c) /\ LazyRel(w, s, c)
<1> DEFINE v == OpenAiAfter(w, f)
           t == ChatDecode(f, s)
<1>0. f \in ChatFrames
  BY OpenAiFramesType
<1>w. /\ \A p : [w EXCEPT !.phase = p].phase = p
      /\ Failed(w).phase = "failed"
  BY DEF WireOK, Failed
<1>1. CASE f.type = "done"
  <2>1. t = [s EXCEPT !.terminated = TRUE] /\ v = [w EXCEPT !.phase = "over"]
    BY <1>1 DEF ChatDecode, OpenAiAfter
  <2>2. w.phase \in {"verdict", "failed"}
    BY <1>1, ChunkShape DEF OpenAiFrames, ErrorFrames
  <2>3. v.phase = "over"
    BY <1>w, <2>1
  <2> HIDE DEF v
  <2> HIDE DEF t
  <2>4. IsDecodeState(t) /\ t.out = s.out /\ t.open = s.open
    <3>1. IsDecodeState(s)
      BY DEF Says
    <3> QED  BY <2>1, <3>1, FlagFields
  <2>5. Says(b, t, c)
    BY <2>4, Flagging
  <2>6. LazyRel(v, t, c)
    BY <2>2, <2>3 DEF LazyRel, Settled
  <2> QED  BY <2>5, <2>6 DEF LazyKept, t, v
<1>2. CASE f.type = "error"
  <2>1. t = Emit(s, Error(f.kind)) /\ v = Failed(w)
    BY <1>2 DEF ChatDecode, OpenAiAfter
  <2>2. f.kind \in ErrorKinds
    BY <1>0, <1>2 DEF ChatFrames
  <2>3. v.phase = "failed"
    BY <1>w, <2>1
  <2> HIDE DEF t, v
  <2> QED  BY <2>1, <2>2, <2>3, LazyErring DEF t, v
<1>3. CASE f.type = "chunk" /\ w.phase \in {"before", "open"}
  <2>1. t = ChatChunk(f, s)
    BY <1>3 DEF ChatDecode
  <2>2. f.tool # NoTool => f.block = BlockName(f.tool)
    <3>1. f \in OpenAiChunks(w) \cup RefusalChunks
      BY <1>3 DEF OpenAiFrames, ErrorFrames
    <3> QED  BY <3>1, ChunkShape
  <2>3. v.phase = IF f.finish = "none" THEN "open" ELSE "verdict"
    BY <1>3 DEF OpenAiAfter, WireOK
  <2>4. \E d : IF f.finish = "none" THEN Ongoing(b, ChatChunk(f, s), d)
               ELSE Answered(b, ChatChunk(f, s), d)
    BY <1>0, <1>3, <2>2, ChatChunkSays DEF LazyRel
  <2> HIDE DEF t, v
  <2> QED  BY <2>1, <2>3, <2>4, LazyProceeds, LazyConcludes DEF t, v
<1>4. CASE f.type = "chunk" /\ w.phase \notin {"before", "open"}
  <2>1. w.phase = "verdict" /\ f \in UsageChunks
    BY <1>4 DEF OpenAiFrames
  <2>2. t = ChatChunk(f, s)
    BY <1>4 DEF ChatDecode
  <2>3. v.phase = "verdict"
    BY <1>4, <2>1 DEF OpenAiAfter, WireOK
  <2>4. Answered(b, s, c)
    BY <2>1 DEF LazyRel, Answered
  <2>5. Answered(b, t, c)
    BY <2>1, <2>2, <2>4, UsageChunkSays
  <2> HIDE DEF t, v
  <2> QED  BY <2>3, <2>5, LazyConcludes DEF t, v
<1> QED  BY <1>0, <1>1, <1>2, <1>3, <1>4 DEF ChatFrames

(***************************************************************************)
(* Google generateContent.                                                 *)
(***************************************************************************)
LEMMA PartCallSays ==
    \A b, s, c : \A f \in GenaiFrames :
        Ongoing(b, s, c) /\ f.type = "chunk" => \E d : Ongoing(b, PartCall(f, s), d)
<1> TAKE b, s, c
<1> TAKE f \in GenaiFrames
<1> HAVE Ongoing(b, s, c) /\ f.type = "chunk"
<1> DEFINE i == NextIndex(s)
           t == Emit(OpenBlock(s, i, "ToolUse", f.block), ContentDelta(i, "JsonDelta", f.block))
<1>1. f.block \in Pieces /\ "JsonDelta" \in Deltas /\ "SignatureDelta" \in Deltas
  BY DEF GenaiFrames, Deltas
<1>2. PICK d : Ongoing(b, t, d) /\ i \in DOMAIN d.blocks /\ d.blocks[i] = f.block
  BY <1>1, OngoingWhole
<1>3. PartCall(f, s) = IF ~ f.call THEN s
                       ELSE IF f.signature THEN Emit(t, ContentDelta(i, "SignatureDelta", f.block)) ELSE t
  BY DEF PartCall
<1> HIDE DEF t, i
<1>4. Ongoing(b, Emit(t, ContentDelta(i, "SignatureDelta", f.block)), d)
  BY <1>1, <1>2, OngoingFragment
<1> QED  BY <1>2, <1>3, <1>4

LEMMA PartImageSays ==
    \A b, s, c : \A f \in GenaiFrames :
        Ongoing(b, s, c) /\ f.type = "chunk" => \E d : Ongoing(b, PartImage(f, s), d)
<1> TAKE b, s, c
<1> TAKE f \in GenaiFrames
<1> HAVE Ongoing(b, s, c) /\ f.type = "chunk"
<1> DEFINE i == NextIndex(s)
           t == Emit(OpenBlock(s, i, "Image", f.block), ContentDelta(i, "ImageDelta", f.block))
<1>1. f.block \in Pieces /\ "ImageDelta" \in Deltas
  BY DEF GenaiFrames, Deltas
<1>2. \E d : Ongoing(b, t, d)
  BY <1>1, OngoingWhole
<1>3. PartImage(f, s) = IF ~ f.image THEN s ELSE t
  BY DEF PartImage
<1> HIDE DEF t
<1> QED  BY <1>2, <1>3

LEMMA GenaiTerminates ==
    \A b, s, c, f : \A r \in Reasons :
        Ongoing(b, s, c) => \E d : Answered(b, GenaiTerminate(r, f, s), d)
<1> TAKE b, s, c, f
<1> TAKE r \in Reasons
<1> HAVE Ongoing(b, s, c)
<1> DEFINE u == GenaiUsage(f, Drain(s))
<1>1. u \in {Drain(s), Emit(Drain(s), Usage)}
  BY DEF GenaiUsage
<1>2. GenaiTerminate(r, f, s) = [Emit(u, Finish(r)) EXCEPT !.terminated = TRUE]
  BY DEF GenaiTerminate
<1> HIDE DEF u
<1>3. \E d : Answered(b, [Emit(u, Finish(r)) EXCEPT !.terminated = TRUE], d)
  BY <1>1, OngoingEnds
<1> QED  BY <1>2, <1>3

LEMMA GenaiChunkSays ==
    \A b, s, c : \A f \in GenaiFrames :
        Says(b, s, c) /\ Lazy(s, c) /\ Tools(s, c) /\ f.type = "chunk"
        => \E d : IF f.finish # "none" \/ f.blocked THEN Answered(b, GenaiChunk(f, s), d)
                  ELSE Ongoing(b, GenaiChunk(f, s), d)
<1> TAKE b, s, c
<1> TAKE f \in GenaiFrames
<1> HAVE Says(b, s, c) /\ Lazy(s, c) /\ Tools(s, c) /\ f.type = "chunk"
<1> DEFINE On(u) == \E d : Ongoing(b, u, d)
<1>0. f.finish \in Reasons \cup {"none"}
  BY DEF GenaiFrames
<1>1. On(StartMessage(s))
  BY Beginning
<1>2. \A u : On(u) => On(PartText(f, u))
  BY OngoingLazy DEF PartText, Deltas
<1>3. \A u : On(u) => On(PartCall(f, u))
  BY PartCallSays
<1>4. \A u : On(u) => On(PartImage(f, u))
  BY PartImageSays
<1> DEFINE z == PartImage(f, PartCall(f, PartText(f, StartMessage(s))))
<1>5. On(z)
  <2> HIDE DEF On
  <2> QED  BY <1>1, <1>2, <1>3, <1>4
<1>6. GenaiChunk(f, s) = GenaiEnd(f, z)
  BY DEF GenaiChunk
<1> HIDE DEF z
<1>7. CASE f.finish # "none"
  <2>1. GenaiReason(f.finish, z) \in Reasons
    BY <1>0, <1>7 DEF GenaiReason, Reasons
  <2>2. GenaiEnd(f, z) = GenaiTerminate(GenaiReason(f.finish, z), f, z)
    BY <1>7 DEF GenaiEnd
  <2> QED  BY <1>5, <1>6, <1>7, <2>1, <2>2, GenaiTerminates
<1>8. CASE f.finish = "none" /\ f.blocked
  <2>1. GenaiEnd(f, z) = GenaiTerminate("Refusal", f, z)
    BY <1>8 DEF GenaiEnd
  <2>2. "Refusal" \in Reasons
    BY DEF Reasons
  <2> QED  BY <1>5, <1>6, <1>8, <2>1, <2>2, GenaiTerminates
<1>9. CASE f.finish = "none" /\ ~ f.blocked
  <2>1. GenaiEnd(f, z) = GenaiUsage(f, z)
    BY <1>9 DEF GenaiEnd
  <2>2. \E d : Ongoing(b, GenaiUsage(f, z), d)
    BY <1>5, OngoingUsage DEF GenaiUsage
  <2> QED  BY <1>6, <1>9, <2>1, <2>2
<1> QED  BY <1>7, <1>8, <1>9

LEMMA GenaiKeeps ==
    \A b, w, s, c : \A f \in GoogleFrames(w) :
        WireOK("google", w) /\ Says(b, s, c) /\ LazyRel(w, s, c)
        => LazyKept(b, GenaiDecode(f, s), GoogleAfter(w, f))
<1> TAKE b, w, s, c
<1> TAKE f \in GoogleFrames(w)
<1> HAVE WireOK("google", w) /\ Says(b, s, c) /\ LazyRel(w, s, c)
<1> DEFINE v == GoogleAfter(w, f)
           t == GenaiDecode(f, s)
<1>0. f \in GenaiFrames /\ w.phase \in {"before", "open"}
  <2>1. w.next \in Nat
    BY ProviderAssumption DEF WireOK
  <2> QED  BY <2>1, GoogleFramesType DEF GoogleFrames
<1>1. CASE f.type = "error"
  <2>1. t = Emit(s, Error(f.kind)) /\ v = Failed(w)
    BY <1>1 DEF GenaiDecode, GoogleAfter
  <2>2. f.kind \in ErrorKinds
    BY <1>0, <1>1 DEF GenaiFrames
  <2>3. v.phase = "failed"
    BY <2>1 DEF Failed, WireOK
  <2> HIDE DEF t, v
  <2> QED  BY <2>1, <2>2, <2>3, LazyErring DEF t, v
<1>2. CASE f.type # "error"
  <2>1. t = GenaiChunk(f, s) /\ f.type = "chunk"
    BY <1>0, <1>2 DEF GenaiDecode, GenaiFrames
  <2>2. v.phase = IF f.finish # "none" \/ f.blocked THEN "over" ELSE "open"
    BY <1>2 DEF GoogleAfter, WireOK
  <2>3. \E d : IF f.finish # "none" \/ f.blocked THEN Answered(b, GenaiChunk(f, s), d)
               ELSE Ongoing(b, GenaiChunk(f, s), d)
    BY <1>0, <2>1, GenaiChunkSays DEF LazyRel
  <2> HIDE DEF t, v
  <2> QED  BY <2>1, <2>2, <2>3, LazyProceeds, LazyConcludes DEF t, v
<1> QED  BY <1>1, <1>2

(***************************************************************************)
(* Ollama chat.                                                            *)
(***************************************************************************)
LEMMA OllamaLineSays ==
    \A b, s, c : \A f \in OllamaFrames :
        Says(b, s, c) /\ Lazy(s, c) /\ Tools(s, c) /\ f.type = "line"
        => \E d : IF f.done THEN Answered(b, OllamaLine(f, s), d) ELSE Ongoing(b, OllamaLine(f, s), d)
<1> TAKE b, s, c
<1> TAKE f \in OllamaFrames
<1> HAVE Says(b, s, c) /\ Lazy(s, c) /\ Tools(s, c) /\ f.type = "line"
<1> DEFINE On(u) == \E d : Ongoing(b, u, d)
<1>0. f.reason \in Reasons /\ f.block \in Pieces
  BY DEF OllamaFrames
<1>1. On(StartMessage(s))
  BY Beginning
<1>2. \A u : On(u) => On(LineThinking(f, u))
  BY OngoingLazy DEF LineThinking, Deltas
<1>3. \A u : On(u) => On(LineText(f, u))
  BY OngoingLazy DEF LineText, Deltas
<1>4. \A u : On(u) => On(LineCall(f, u))
  BY <1>0, OngoingWhole DEF LineCall, Deltas
<1> DEFINE z == LineCall(f, LineText(f, LineThinking(f, StartMessage(s))))
<1>5. On(z)
  <2> HIDE DEF On
  <2> QED  BY <1>1, <1>2, <1>3, <1>4
<1>6. OllamaLine(f, s) = IF f.done THEN FinishLine(f, z) ELSE z
  BY DEF OllamaLine
<1> HIDE DEF z
<1>7. \E d : Answered(b, FinishLine(f, z), d)
  <2> DEFINE r == OllamaReason(f.reason, z)
             u == Emit(Drain(z), Usage)
  <2>1. r \in Reasons /\ u \in {Drain(z), Emit(Drain(z), Usage)}
    BY <1>0 DEF OllamaReason, Reasons
  <2>2. FinishLine(f, z) = [Emit(u, Finish(r)) EXCEPT !.terminated = TRUE]
    BY DEF FinishLine
  <2> HIDE DEF r, u
  <2>3. \E d : Answered(b, [Emit(u, Finish(r)) EXCEPT !.terminated = TRUE], d)
    BY <1>5, <2>1, OngoingEnds
  <2> QED  BY <2>2, <2>3
<1> QED  BY <1>5, <1>6, <1>7

LEMMA OllamaKeeps ==
    \A b, w, s, c : \A f \in OllamaLines(w) :
        WireOK("ollama", w) /\ Says(b, s, c) /\ LazyRel(w, s, c)
        => LazyKept(b, OllamaDecode(f, s), OllamaAfter(w, f))
<1> TAKE b, w, s, c
<1> TAKE f \in OllamaLines(w)
<1> HAVE WireOK("ollama", w) /\ Says(b, s, c) /\ LazyRel(w, s, c)
<1> DEFINE v == OllamaAfter(w, f)
           t == OllamaDecode(f, s)
<1>0. f \in OllamaFrames /\ w.phase \in {"before", "open"}
  <2>1. w.next \in Nat
    BY ProviderAssumption DEF WireOK
  <2> QED  BY <2>1, OllamaFramesType DEF OllamaLines
<1>1. CASE f.type = "error"
  <2>1. t = Emit(s, Error("Transport")) /\ v = Failed(w)
    BY <1>1 DEF OllamaDecode, OllamaAfter
  <2>2. "Transport" \in ErrorKinds
    BY DEF ErrorKinds
  <2>3. v.phase = "failed"
    BY <2>1 DEF Failed, WireOK
  <2> HIDE DEF t, v
  <2> QED  BY <2>1, <2>2, <2>3, LazyErring DEF t, v
<1>2. CASE f.type # "error"
  <2>1. t = OllamaLine(f, s) /\ f.type = "line"
    BY <1>0, <1>2 DEF OllamaDecode, OllamaFrames
  <2>2. v.phase = IF f.done THEN "over" ELSE "open"
    BY <1>2 DEF OllamaAfter, WireOK
  <2>3. \E d : IF f.done THEN Answered(b, OllamaLine(f, s), d) ELSE Ongoing(b, OllamaLine(f, s), d)
    BY <1>0, <2>1, OllamaLineSays DEF LazyRel
  <2> HIDE DEF t, v
  <2> QED  BY <2>1, <2>2, <2>3, LazyProceeds, LazyConcludes DEF t, v
<1> QED  BY <1>1, <1>2(***************************************************************************)
(* Anthropic messages, and the claude subprocess that wraps them.          *)
(***************************************************************************)
\* The open blocks are among the provider's, under its numbers.
ByNumber(w, c) ==
    /\ c.used \subseteq 0..(w.next - 1)
    /\ \A i \in DOMAIN c.blocks : c.blocks[i] = BlockName(i) /\ \E x \in w.live : x.index = i

NumberedRel(w, s, c) ==
    /\ w.phase = "before" => c.started = FALSE
    /\ w.phase = "open" => c.started = TRUE
    /\ w.phase \in {"before", "open"} => c.verdict = "none" /\ ByNumber(w, c)
    /\ w.phase = "verdict" => c.verdict # "none"
    /\ s.terminated => Settled(c)

NumberedKept(b, t, v) == \E d : Says(b, t, d) /\ NumberedRel(v, t, d)

LEMMA NumberedErring ==
    \A b, s, c, w, v : \A k \in ErrorKinds :
        /\ Says(b, s, c) /\ NumberedRel(w, s, c)
        /\ v.phase \in {w.phase, "failed", "over"} /\ v.next = w.next /\ v.live = w.live
        => NumberedKept(b, Emit(s, Error(k)), v)
<1> TAKE b, s, c, w, v
<1> TAKE k \in ErrorKinds
<1> HAVE /\ Says(b, s, c) /\ NumberedRel(w, s, c)
         /\ v.phase \in {w.phase, "failed", "over"} /\ v.next = w.next /\ v.live = w.live
<1> DEFINE t == Emit(s, Error(k))
<1>1. PICK d : /\ Says(b, t, d) /\ d.exit # 0
               /\ d.started = c.started /\ d.blocks = c.blocks /\ d.used = c.used
               /\ d.verdict = c.verdict
  BY Erring DEF Error
<1> HIDE DEF t
<1>2. Settled(d) /\ (ByNumber(w, c) => ByNumber(v, d))
  BY <1>1 DEF Settled, ByNumber
<1>3. NumberedRel(v, t, d)
  BY <1>1, <1>2 DEF NumberedRel
<1> QED  BY <1>1, <1>3 DEF NumberedKept, t

\* A change of the flags; the end may come only once it is due.
LEMMA NumberedFlagging ==
    \A b, s, c, w, t, v :
        /\ Says(b, s, c) /\ NumberedRel(w, s, c)
        /\ IsDecodeState(t) /\ t.out = s.out /\ t.open = s.open
        /\ v.phase \in {w.phase, "over"} /\ v.next = w.next /\ v.live = w.live
        /\ t.terminated => s.terminated \/ Settled(c)
        => NumberedKept(b, t, v)
<1> TAKE b, s, c, w, t, v
<1> HAVE /\ Says(b, s, c) /\ NumberedRel(w, s, c)
         /\ IsDecodeState(t) /\ t.out = s.out /\ t.open = s.open
         /\ v.phase \in {w.phase, "over"} /\ v.next = w.next /\ v.live = w.live
         /\ t.terminated => s.terminated \/ Settled(c)
<1>1. Says(b, t, c)
  BY Flagging
<1>2. NumberedRel(v, t, c)
  BY DEF NumberedRel, ByNumber
<1> QED  BY <1>1, <1>2 DEF NumberedKept

\* message_start.
LEMMA MessageStarts ==
    \A b, s, c, w, v, f :
        /\ Says(b, s, c) /\ NumberedRel(w, s, c) /\ w.phase = "before"
        /\ v.phase = "open" /\ v.next = w.next /\ v.live = w.live
        => NumberedKept(b, MessageStartEvent(f, s), v)
<1> TAKE b, s, c, w, v, f
<1> HAVE /\ Says(b, s, c) /\ NumberedRel(w, s, c) /\ w.phase = "before"
         /\ v.phase = "open" /\ v.next = w.next /\ v.live = w.live
<1> DEFINE e == MessageStart
           u == Emit(s, e)
           d == Told(c, e)
           t == MessageStartEvent(f, s)
<1>1. e \in Event /\ e.type = "MessageStart"
  BY EventTypes DEF MessageStart
<1>2. Legal(c, e)
  BY <1>1 DEF Legal, NumberedRel
<1>3. Says(b, u, d)
  BY <1>1, <1>2, Saying
<1>4. d.started = TRUE /\ d.blocks = c.blocks /\ d.used = c.used /\ d.verdict = c.verdict /\ d.exit = c.exit
  BY ToldStart
<1>5. t = IF f.usage THEN Emit(u, Usage) ELSE u
  BY DEF MessageStartEvent, MessagesUsage
<1>6. u.terminated = s.terminated /\ Emit(u, Usage).terminated = u.terminated
  <2>1. IsDecodeState(s) /\ IsDecodeState(u)
    BY <1>3 DEF Says
  <2> HIDE DEF u
  <2>2. Emit(u, Usage).terminated = u.terminated
    BY <2>1, EmitFields DEF SameFlags
  <2>3. u.terminated = s.terminated
    BY <2>1, EmitFields DEF SameFlags, u
  <2> QED  BY <2>2, <2>3
<1> HIDE DEF t, d, u, e
<1>7. Says(b, Emit(u, Usage), d)
  BY <1>3, <1>4, Counting
<1>8. NumberedRel(v, t, d)
  BY <1>4, <1>5, <1>6 DEF NumberedRel, ByNumber, Settled
<1> QED  BY <1>3, <1>5, <1>7, <1>8 DEF NumberedKept, t

\* content_block_start.
LEMMA BlockStarts ==
    \A b, s, c, w, v, f :
        /\ Says(b, s, c) /\ NumberedRel(w, s, c) /\ w.phase = "open"
        /\ v.phase = "open" /\ v.next = w.next + 1 /\ w.next \in Nat
        /\ v.live = w.live \cup {[index |-> f.index, kind |-> f.kind]}
        /\ f.index = w.next /\ f.kind \in Kinds \cup {"unknown"} /\ f.block = BlockName(f.index)
        => NumberedKept(b, ContentBlockStart(f, s), v)
<1> TAKE b, s, c, w, v, f
<1> HAVE /\ Says(b, s, c) /\ NumberedRel(w, s, c) /\ w.phase = "open"
         /\ v.phase = "open" /\ v.next = w.next + 1 /\ w.next \in Nat
         /\ v.live = w.live \cup {[index |-> f.index, kind |-> f.kind]}
         /\ f.index = w.next /\ f.kind \in Kinds \cup {"unknown"} /\ f.block = BlockName(f.index)
<1> DEFINE i == f.index
           t == ContentBlockStart(f, s)
<1>1. /\ c.started = TRUE /\ c.verdict = "none" /\ c.used \subseteq 0..(w.next - 1)
      /\ \A j \in DOMAIN c.blocks : c.blocks[j] = BlockName(j) /\ \E x \in w.live : x.index = j
  BY DEF NumberedRel, ByNumber
<1>2. CASE f.kind = "unknown"
  <2>1. t = s
    BY <1>2 DEF ContentBlockStart
  <2>2. 0..(w.next - 1) \subseteq 0..(v.next - 1)
    OBVIOUS
  <2>3. ByNumber(v, c)
    BY <1>1, <2>2 DEF ByNumber
  <2>4. NumberedRel(v, s, c)
    BY <1>1, <2>3 DEF NumberedRel
  <2> QED  BY <2>1, <2>4 DEF NumberedKept
<1>3. CASE f.kind # "unknown"
  <2>1. t = OpenBlock(s, i, f.kind, f.block)
    BY <1>3 DEF ContentBlockStart
  <2>2. f.block \in Pieces /\ f.kind \in Kinds /\ i \in Nat
    BY <1>3, BlockNames
  <2>3. i \notin c.used
    <3>1. i \notin 0..(w.next - 1)
      OBVIOUS
    <3> QED  BY <1>1, <3>1
  <2>4. MayOpen(b, s, c, i, f.kind, f.block)
    BY <1>1, <2>2, <2>3 DEF MayOpen
  <2> HIDE DEF t
  <2>5. PICK d : /\ Says(b, t, d)
                 /\ d.blocks = Insert(c.blocks, i, f.block) /\ d.used = c.used \cup {i}
                 /\ d.started = TRUE /\ d.verdict = c.verdict /\ d.exit = c.exit
    BY <2>1, <2>4, Opening
  <2>6. t.terminated = s.terminated
    <3>1. IsDecodeState(s)
      BY DEF Says
    <3> QED  BY <2>1, <3>1, OpenBlockFields DEF SameFlags
  <2>7. d.used \subseteq 0..(v.next - 1)
    <3>1. 0..(w.next - 1) \cup {w.next} = 0..(v.next - 1)
      OBVIOUS
    <3> QED  BY <1>1, <2>5, <3>1
  <2>8. ASSUME NEW j \in DOMAIN d.blocks PROVE d.blocks[j] = BlockName(j) /\ \E x \in v.live : x.index = j
    <3>1. CASE j = i
      <4>1. [index |-> i, kind |-> f.kind].index = i
        OBVIOUS
      <4> QED  BY <2>5, <3>1, <4>1 DEF Insert
    <3>2. CASE j # i
      BY <1>1, <2>5, <3>2 DEF Insert
    <3> QED  BY <3>1, <3>2
  <2>9. ByNumber(v, d)
    BY <2>7, <2>8 DEF ByNumber
  <2>10. NumberedRel(v, t, d)
    BY <1>1, <2>5, <2>6, <2>9 DEF NumberedRel, Settled
  <2> QED  BY <2>5, <2>10 DEF NumberedKept, t
<1> QED  BY <1>2, <1>3

\* content_block_delta.
LEMMA BlockContinues ==
    \A b, s, c, w, f :
        /\ Says(b, s, c) /\ NumberedRel(w, s, c) /\ w.phase = "open"
        /\ f.delta \in Deltas \cup {"unknown"} /\ f.block = BlockName(f.index)
        => NumberedKept(b, ContentBlockDelta(f, s), w)
<1> TAKE b, s, c, w, f
<1> HAVE /\ Says(b, s, c) /\ NumberedRel(w, s, c) /\ w.phase = "open"
         /\ f.delta \in Deltas \cup {"unknown"} /\ f.block = BlockName(f.index)
<1>1. CASE f.index \notin DOMAIN s.open \/ f.delta = "unknown"
  <2>1. ContentBlockDelta(f, s) = s
    BY <1>1 DEF ContentBlockDelta
  <2> QED  BY <2>1 DEF NumberedKept
<1>2. CASE f.index \in DOMAIN s.open /\ f.delta # "unknown"
  <2> DEFINE t == Emit(s, ContentDelta(f.index, f.delta, f.block))
  <2>1. ContentBlockDelta(f, s) = t
    BY <1>2 DEF ContentBlockDelta
  <2>2. f.index \in DOMAIN c.blocks /\ c.blocks[f.index] = f.block /\ f.block \in Pieces
    BY <1>2, BlockNames DEF Says, NumberedRel, ByNumber
  <2>3. f.delta \in Deltas
    BY <1>2
  <2>4. Says(b, t, c)
    BY <2>2, <2>3, Fragmenting
  <2>5. t.terminated = s.terminated
    BY EmitFields DEF Says, SameFlags
  <2> HIDE DEF t
  <2>6. NumberedRel(w, t, c)
    BY <2>5 DEF NumberedRel
  <2> QED  BY <2>1, <2>4, <2>6 DEF NumberedKept
<1> QED  BY <1>1, <1>2

\* content_block_stop.
LEMMA BlockStops ==
    \A b, s, c, w, v, f :
        /\ Says(b, s, c) /\ NumberedRel(w, s, c) /\ w.phase = "open"
        /\ v.phase = "open" /\ v.next = w.next /\ v.live = {x \in w.live : x.index # f.index}
        => NumberedKept(b, ContentBlockStop(f, s), v)
<1> TAKE b, s, c, w, v, f
<1> HAVE /\ Says(b, s, c) /\ NumberedRel(w, s, c) /\ w.phase = "open"
         /\ v.phase = "open" /\ v.next = w.next /\ v.live = {x \in w.live : x.index # f.index}
<1>1. /\ c.started = TRUE /\ c.verdict = "none" /\ c.used \subseteq 0..(w.next - 1)
      /\ \A j \in DOMAIN c.blocks : c.blocks[j] = BlockName(j) /\ \E x \in w.live : x.index = j
  BY DEF NumberedRel, ByNumber
<1>2. CASE f.index \notin DOMAIN s.open
  <2>1. ContentBlockStop(f, s) = s
    BY <1>2 DEF ContentBlockStop
  <2>2. f.index \notin DOMAIN c.blocks
    BY <1>2 DEF Says
  <2>3. ByNumber(v, c)
    BY <1>1, <2>2 DEF ByNumber
  <2>4. NumberedRel(v, s, c)
    BY <1>1, <2>3 DEF NumberedRel
  <2> QED  BY <2>1, <2>4 DEF NumberedKept
<1>3. CASE f.index \in DOMAIN s.open
  <2> DEFINE i == f.index
             t == Emit([s EXCEPT !.open = Remove(@, i)], ContentStop(i))
             d == Told(c, ContentStop(i))
  <2>1. ContentBlockStop(f, s) = t
    BY <1>3 DEF ContentBlockStop
  <2>2. /\ Says(b, t, d) /\ SameFlags(s, t)
        /\ d.blocks = Remove(c.blocks, i) /\ d.used = c.used
        /\ d.started = c.started /\ d.verdict = c.verdict /\ d.exit = c.exit
    BY <1>3, Stopping
  <2> HIDE DEF t, d
  <2>3. ByNumber(v, d)
    BY <1>1, <2>2 DEF ByNumber, Remove
  <2>4. NumberedRel(v, t, d)
    BY <1>1, <2>2, <2>3 DEF NumberedRel, Settled, SameFlags
  <2> QED  BY <2>1, <2>2, <2>4 DEF NumberedKept
<1> QED  BY <1>2, <1>3

\* message_delta.
LEMMA VerdictComes ==
    \A b, s, c, w, v, f :
        /\ Says(b, s, c) /\ NumberedRel(w, s, c) /\ w.phase = "open" /\ w.live = {}
        /\ v.phase = "verdict" /\ f.reason \in Reasons
        => NumberedKept(b, MessageDelta(f, s), v)
<1> TAKE b, s, c, w, v, f
<1> HAVE /\ Says(b, s, c) /\ NumberedRel(w, s, c) /\ w.phase = "open" /\ w.live = {}
         /\ v.phase = "verdict" /\ f.reason \in Reasons
<1> DEFINE u == MessagesUsage(f, s)
           e == Finish(f.reason)
           t == Emit(u, e)
           d == Told(c, e)
<1>1. /\ c.started = TRUE /\ c.verdict = "none" /\ DOMAIN c.blocks = {}
  BY DEF NumberedRel, ByNumber
<1>2. MessageDelta(f, s) = t
  <2>1. f.reason # "none"
    BY DEF Reasons
  <2> QED  BY <2>1 DEF MessageDelta
<1>3. Says(b, u, c)
  BY <1>1, Counting DEF MessagesUsage
<1>4. e \in Event /\ e.type = "Finish" /\ e.reason = f.reason
  BY EventTypes DEF Finish
<1> HIDE DEF u, e
<1>5. Legal(c, e)
  <2>1. c.blocks = EmptyFn
    BY <1>1 DEF Says, IsClient, EmptyFn
  <2> QED  BY <1>1, <1>4, <2>1 DEF Legal
<1>6. Says(b, t, d)
  BY <1>3, <1>4, <1>5, Saying
<1>7. d.verdict = f.reason
  <2>1. c.started \in BOOLEAN /\ e.type \in {"ContentDelta", "Usage", "Finish", "Error"}
    BY <1>1, <1>4
  <2> QED  BY <1>4, <2>1, ToldElse
<1>8. d.verdict # "none"
  BY <1>7 DEF Reasons
<1> HIDE DEF t, d
<1>9. NumberedRel(v, t, d)
  BY <1>8 DEF NumberedRel, Settled
<1> QED  BY <1>2, <1>6, <1>9 DEF NumberedKept

\* What may be sent while blocks are.
LEMMA BlockFrameShape ==
    \A w : \A f \in BlockFrames(w) :
        \/ /\ f.type = "content_block_start" /\ f.index = w.next /\ w.next < MaxBlocks
           /\ f.block = BlockName(f.index)
        \/ f.type = "content_block_delta" /\ f.block = BlockName(f.index)
        \/ f.type = "content_block_stop"
<1> TAKE w
<1> TAKE f \in BlockFrames(w)
<1> DEFINE Starts == {g \in [type : {"content_block_start"}, index : {w.next}, kind : BlockKinds,
                             block : {NextBlock(w)}] : w.next < MaxBlocks}
           DeltasFor(x) == [type : {"content_block_delta"}, index : {x.index},
                            delta : DeltasOf(x.kind), block : {BlockName(x.index)}]
           Ends == [type : {"content_block_stop"}, index : {x.index : x \in w.live}]
<1>1. CASE f \in Starts
  BY <1>1 DEF NextBlock
<1>2. ASSUME NEW x \in w.live, f \in DeltasFor(x)
      PROVE  f.type = "content_block_delta" /\ f.block = BlockName(f.index)
  BY <1>2
<1>3. CASE f \in Ends
  BY <1>3
<1> HIDE DEF Starts, DeltasFor, Ends
<1>4. f \in Starts \/ (\E x \in w.live : f \in DeltasFor(x)) \/ f \in Ends
  BY DEF BlockFrames, Starts, DeltasFor, Ends
<1> QED  BY <1>1, <1>2, <1>3, <1>4

LEMMA AnthropicShape ==
    \A w : \A f \in AnthropicFrames(w) :
        /\ f.type = "message_start" => w.phase = "before"
        /\ f.type \in {"content_block_start", "content_block_delta", "content_block_stop", "message_delta"}
            => w.phase = "open"
        /\ f.type = "content_block_start" => f.index = w.next /\ w.next < MaxBlocks
        /\ f.type \in {"content_block_start", "content_block_delta"} => f.block = BlockName(f.index)
        /\ f.type = "message_delta" => w.live = {} /\ f.reason \in Reasons
        /\ f.type = "message_stop" => w.phase = "verdict"
<1> TAKE w
<1> TAKE f \in AnthropicFrames(w)
<1> DEFINE Told1 == [type : {"message_start"}, usage : BOOLEAN]
           Pings == [type : {"ping"}]
           Verdicts == {g \in [type : {"message_delta"}, reason : {"Stop", "ToolUse"}, usage : BOOLEAN] :
                          w.live = {}}
           Stop1 == [type : {"message_stop"}]
<1>1. f \in ErrorFrames => f.type = "error"
  BY DEF ErrorFrames
<1>2. f \in Told1 => f.type = "message_start"
  OBVIOUS
<1>3. f \in Pings => f.type = "ping"
  OBVIOUS
<1>4. f \in Verdicts => f.type = "message_delta" /\ w.live = {} /\ f.reason \in Reasons
  BY Words
<1>5. f \in Stop1 => f.type = "message_stop"
  OBVIOUS
<1>6. \/ w.phase = "before" /\ f \in Told1 \cup ErrorFrames
      \/ w.phase = "open" /\ f \in BlockFrames(w) \cup ErrorFrames \cup Pings \cup Verdicts
      \/ w.phase = "verdict" /\ f \in Stop1 \cup ErrorFrames
  BY DEF AnthropicFrames
<1> HIDE DEF Told1, Pings, Verdicts, Stop1
<1> QED  BY <1>1, <1>2, <1>3, <1>4, <1>5, <1>6, BlockFrameShape

LEMMA MessagesKeeps ==
    \A b, w, s, c : \A d \in {"anthropic", "claude"} : \A f \in AnthropicFrames(w) :
        WireOK(d, w) /\ Says(b, s, c) /\ NumberedRel(w, s, c)
        => NumberedKept(b, MessagesDecode(f, s), AnthropicAfter(w, f))
<1> TAKE b, w, s, c
<1> TAKE d \in {"anthropic", "claude"}
<1> TAKE f \in AnthropicFrames(w)
<1> HAVE WireOK(d, w) /\ Says(b, s, c) /\ NumberedRel(w, s, c)
<1> DEFINE v == AnthropicAfter(w, f)
           t == MessagesDecode(f, s)
<1>0. f \in MessagesFrames /\ w.next \in Nat /\ MaxBlocks \in Nat
  <2>1. w.next \in Nat /\ w.live \subseteq LiveBlocks /\ MaxBlocks \in Nat
    BY ProviderAssumption DEF WireOK
  <2> QED  BY <2>1, AnthropicFramesType
<1>s. IsDecodeState(s)
  BY DEF Says
<1>1. CASE f.type = "message_start"
  <2>1. t = MessageStartEvent(f, s) /\ v = [w EXCEPT !.phase = "open"] /\ w.phase = "before"
    BY <1>1, AnthropicShape DEF MessagesDecode, AnthropicAfter
  <2>2. v.phase = "open" /\ v.next = w.next /\ v.live = w.live
    BY <2>1 DEF WireOK
  <2> HIDE DEF t, v
  <2>3. t = MessageStartEvent(f, s) /\ w.phase = "before"
    BY <2>1
  <2>4. NumberedKept(b, MessageStartEvent(f, s), v)
    BY <2>2, <2>3, MessageStarts
  <2> QED  BY <2>3, <2>4 DEF t, v
<1>2. CASE f.type = "content_block_start"
  <2>1. /\ w.phase = "open" /\ f.index = w.next /\ f.block = BlockName(f.index)
        /\ t = ContentBlockStart(f, s)
    BY <1>2, AnthropicShape DEF MessagesDecode
  <2>2. v = [w EXCEPT !.next = w.next + 1,
                      !.live = w.live \cup {[index |-> f.index, kind |-> f.kind]}]
    BY <1>2 DEF AnthropicAfter
  <2>3. /\ v.phase = w.phase /\ v.next = w.next + 1
        /\ v.live = w.live \cup {[index |-> f.index, kind |-> f.kind]}
    BY <2>2 DEF WireOK
  <2>4. f.kind \in Kinds \cup {"unknown"}
    BY <1>0, <1>2 DEF MessagesFrames
  <2> HIDE DEF t, v
  <2> QED  BY <1>0, <2>1, <2>3, <2>4, BlockStarts DEF t, v
<1>3. CASE f.type = "content_block_delta"
  <2>1. w.phase = "open" /\ f.block = BlockName(f.index) /\ t = ContentBlockDelta(f, s) /\ v = w
    BY <1>3, AnthropicShape DEF MessagesDecode, AnthropicAfter
  <2>2. f.delta \in Deltas \cup {"unknown"}
    BY <1>0, <1>3 DEF MessagesFrames
  <2> HIDE DEF t, v
  <2> QED  BY <2>1, <2>2, BlockContinues DEF t, v
<1>4. CASE f.type = "content_block_stop"
  <2>1. w.phase = "open" /\ t = ContentBlockStop(f, s)
    BY <1>4, AnthropicShape DEF MessagesDecode
  <2>2. v.phase = w.phase /\ v.next = w.next /\ v.live = {x \in w.live : x.index # f.index}
    BY <1>4 DEF AnthropicAfter, WireOK
  <2> HIDE DEF t, v
  <2> QED  BY <2>1, <2>2, BlockStops DEF t, v
<1>5. CASE f.type = "message_delta"
  <2>1. w.phase = "open" /\ w.live = {} /\ f.reason \in Reasons /\ t = MessageDelta(f, s)
    BY <1>5, AnthropicShape DEF MessagesDecode
  <2>2. v.phase = "verdict"
    BY <1>5 DEF AnthropicAfter, WireOK
  <2> HIDE DEF t, v
  <2> QED  BY <2>1, <2>2, VerdictComes DEF t, v
<1>6. CASE f.type = "message_stop"
  <2>1. w.phase = "verdict" /\ t = [s EXCEPT !.terminated = TRUE] /\ v = Over(w)
    BY <1>6, AnthropicShape DEF MessagesDecode, AnthropicAfter
  <2>2. v.phase = "over" /\ v.next = w.next /\ v.live = w.live
    BY <2>1 DEF Over, WireOK
  <2> HIDE DEF t, v
  <2>3. IsDecodeState(t) /\ t.out = s.out /\ t.open = s.open
    BY <1>s, <2>1, FlagFields
  <2>4. Settled(c)
    BY <2>1 DEF NumberedRel, Settled
  <2> QED  BY <2>2, <2>3, <2>4, NumberedFlagging DEF t, v
<1>7. CASE f.type = "error"
  <2>1. t = Emit(s, Error(f.kind)) /\ v = Failed(w)
    BY <1>7 DEF MessagesDecode, AnthropicAfter
  <2>2. f.kind \in ErrorKinds
    BY <1>0, <1>7 DEF MessagesFrames
  <2>3. v.phase = "failed" /\ v.next = w.next /\ v.live = w.live
    BY <2>1 DEF Failed, WireOK
  <2> HIDE DEF t, v
  <2> QED  BY <2>1, <2>2, <2>3, NumberedErring DEF t, v
<1>8. CASE f.type \notin {"message_start", "content_block_start", "content_block_delta",
                          "content_block_stop", "message_delta", "message_stop", "error"}
  <2>1. t = s /\ v = w
    BY <1>8 DEF MessagesDecode, AnthropicAfter
  <2> QED  BY <2>1 DEF NumberedKept
<1> QED  BY <1>1, <1>2, <1>3, <1>4, <1>5, <1>6, <1>7, <1>8

LEMMA ClaudeKeeps ==
    \A b, w, s, c : \A f \in ClaudeLines(w) :
        WireOK("claude", w) /\ Says(b, s, c) /\ NumberedRel(w, s, c)
        => NumberedKept(b, ClaudeDecode(f, s), ClaudeAfter(w, f))
<1> TAKE b, w, s, c
<1> TAKE f \in ClaudeLines(w)
<1> HAVE WireOK("claude", w) /\ Says(b, s, c) /\ NumberedRel(w, s, c)
<1> DEFINE v == ClaudeAfter(w, f)
           t == ClaudeDecode(f, s)
<1>0. f \in ClaudeFrames
  <2>1. w.next \in Nat /\ w.live \subseteq LiveBlocks
    BY ProviderAssumption DEF WireOK
  <2> QED  BY <2>1, ClaudeLinesType
<1>s. IsDecodeState(s)
  BY DEF Says
<1>1. CASE f.type = "stream_event"
  <2> DEFINE x == AnthropicAfter(w, f.event)
  <2>1. f.event \in AnthropicFrames(w)
    BY <1>1 DEF ClaudeLines
  <2>2. NumberedKept(b, MessagesDecode(f.event, s), x)
    BY <2>1, MessagesKeeps
  <2>3. WireOK("claude", x)
    BY <2>1, AnthropicAfterType
  <2>4. v = [x EXCEPT !.phase = IF x.phase = "over" THEN "told" ELSE x.phase]
    BY <1>1 DEF ClaudeAfter
  <2>5. t = MessagesDecode(f.event, s)
    BY <1>1 DEF ClaudeDecode
  <2> HIDE DEF t, v, x
  <2>6. v.phase = (IF x.phase = "over" THEN "told" ELSE x.phase) /\ v.next = x.next /\ v.live = x.live
    BY <2>3, <2>4 DEF WireOK
  <2>7. \A d : NumberedRel(x, t, d) => NumberedRel(v, t, d)
    BY <2>6 DEF NumberedRel, ByNumber
  <2> QED  BY <2>2, <2>5, <2>7 DEF NumberedKept, t, v
<1>2. CASE f.type = "assistant"
  <2>1. v = w
    BY <1>2 DEF ClaudeAfter
  <2>2. t = s \/ t = [s EXCEPT !.error_tag = (f.tag = "auth")]
    BY <1>2 DEF ClaudeDecode
  <2>3. IsDecodeState(t) /\ t.out = s.out /\ t.open = s.open /\ t.terminated = s.terminated
    <3> DEFINE r == f.tag = "auth"
    <3>1. r \in BOOLEAN
      OBVIOUS
    <3>2. t = s \/ t = [s EXCEPT !.error_tag = r]
      BY <2>2
    <3> DEFINE u == [s EXCEPT !.error_tag = r]
    <3> HIDE DEF r, t
    <3>3. IsDecodeState(u) /\ u.out = s.out /\ u.open = s.open /\ u.terminated = s.terminated
      BY <1>s, <3>1, FlagFields
    <3> HIDE DEF u
    <3>4. t = s \/ t = u
      BY <3>2 DEF u
    <3> QED  BY <1>s, <3>3, <3>4
  <2> HIDE DEF t, v
  <2> QED  BY <2>1, <2>3, NumberedFlagging DEF t, v
<1>3. CASE f.type = "result"
  <2> DEFINE u == [s EXCEPT !.terminated = TRUE]
  <2>1. v = [w EXCEPT !.phase = "over", !.fault = w.fault \/ f.is_error]
    BY <1>3 DEF ClaudeAfter
  <2>2. v.phase = "over" /\ v.next = w.next /\ v.live = w.live
    BY <2>1 DEF WireOK
  <2>3. IsDecodeState(u) /\ u.out = s.out /\ u.open = s.open
    BY <1>s, FlagFields
  <2>4. ResultKind(f, s) \in ErrorKinds /\ "Transport" \in ErrorKinds
    <3>1. f.status \in {"none"} \cup DOMAIN StatusKind
      BY <1>0, <1>3 DEF ClaudeFrames
    <3> QED  BY <3>1 DEF ResultKind, StatusKind, ErrorKinds
  <2>5. t = IF f.is_error THEN Emit(u, Error(ResultKind(f, s)))
            ELSE IF s.terminated THEN u ELSE Emit(u, Error("Transport"))
    BY <1>3 DEF ClaudeDecode, Result
  <2> HIDE DEF t, v, u
  <2>6. Says(b, u, c)
    BY <2>3, Flagging
  <2>7. \A k \in ErrorKinds : NumberedKept(b, Emit(u, Error(k)), v)
    <3> TAKE k \in ErrorKinds
    <3>1. PICK d : Says(b, Emit(u, Error(k)), d) /\ d.exit # 0
      BY <2>6, Erring DEF Error
    <3>2. NumberedRel(v, Emit(u, Error(k)), d)
      BY <2>2, <3>1 DEF NumberedRel, Settled
    <3> QED  BY <3>1, <3>2 DEF NumberedKept
  <2>8. s.terminated => NumberedKept(b, u, v)
    BY <2>2, <2>6 DEF NumberedRel, NumberedKept
  <2> QED  BY <2>4, <2>5, <2>7, <2>8 DEF t, v
<1> QED  BY <1>0, <1>1, <1>2, <1>3 DEF ClaudeFrames

(***************************************************************************)
(* OpenAI Responses.                                                       *)
(***************************************************************************)
\* The indices handed out are those below their number, and a block that is open under one
\* of them is the part it was handed out for.
Known(parts, c) ==
    /\ \A k \in DOMAIN parts : parts[k] < Cardinality(DOMAIN parts)
    /\ c.used \subseteq 0..(Cardinality(DOMAIN parts) - 1)
    /\ \A k \in DOMAIN parts : parts[k] \in DOMAIN c.blocks => c.blocks[parts[k]] = PartName(k[1], k[2])

\* Which parts of a live item may be known.
Expected(x, p) ==
    CASE x.kind = "message" -> p < x.parts [] x.kind = "image" -> FALSE [] OTHER -> p = 0

\* The items are numbered as they come, and no part is known before it was sent.
Itemized(w, parts) ==
    /\ \A k \in DOMAIN parts : k[1] < w.next
    /\ \A x \in w.live : x.index < w.next
    /\ \A x \in w.live : \A y \in w.live : x.index = y.index => x = y
    /\ \A x \in w.live : \A k \in DOMAIN parts : k[1] = x.index => Expected(x, k[2])

PartsRel(w, s, c) ==
    /\ w.phase \in {"before", "open"} =>
          /\ c.started = s.started /\ c.verdict = "none"
          /\ Known(s.part_index, c) /\ Itemized(w, s.part_index)
    /\ w.phase = "open" => s.started = TRUE
    /\ s.terminated => c.verdict # "none"

PartsKept(b, t, v) == \E d : Says(b, t, d) /\ PartsRel(v, t, d)

LEMMA PartsErring ==
    \A b, s, c, w, v : \A k \in ErrorKinds :
        /\ Says(b, s, c) /\ PartsRel(w, s, c)
        /\ v.phase \in {w.phase, "failed"} /\ v.next = w.next /\ v.live = w.live
        => PartsKept(b, Emit(s, Error(k)), v)
<1> TAKE b, s, c, w, v
<1> TAKE k \in ErrorKinds
<1> HAVE /\ Says(b, s, c) /\ PartsRel(w, s, c)
         /\ v.phase \in {w.phase, "failed"} /\ v.next = w.next /\ v.live = w.live
<1> DEFINE t == Emit(s, Error(k))
<1>1. PICK d : /\ Says(b, t, d) /\ d.exit # 0
               /\ d.started = c.started /\ d.blocks = c.blocks /\ d.used = c.used
               /\ d.verdict = c.verdict
  BY Erring DEF Error
<1>2. SameFlags(s, t)
  BY EmitFields DEF Says
<1> HIDE DEF t
<1>3. \A p : (Known(p, c) => Known(p, d)) /\ (Itemized(w, p) => Itemized(v, p))
  BY <1>1 DEF Known, Itemized
<1>4. PartsRel(v, t, d)
  BY <1>1, <1>2, <1>3 DEF PartsRel, SameFlags
<1> QED  BY <1>1, <1>4 DEF PartsKept, t

LEMMA AssignFresh ==
    \A s, key : IsDecodeState(s) /\ key \in Nat \X Nat /\ key \notin DOMAIN s.part_index =>
        LET i == Cardinality(DOMAIN s.part_index)
            t == Assign(s, key)
        IN  /\ IsDecodeState(t) /\ t.out = s.out /\ t.open = s.open /\ t.started = s.started
            /\ t.terminated = s.terminated /\ t.part_index = Insert(s.part_index, key, i)
            /\ t.part_index[key] = i /\ i \in Nat
            /\ Cardinality(DOMAIN t.part_index) = i + 1
<1> TAKE s, key
<1> HAVE IsDecodeState(s) /\ key \in Nat \X Nat /\ key \notin DOMAIN s.part_index
<1> DEFINE i == Cardinality(DOMAIN s.part_index)
           p == Insert(s.part_index, key, i)
           t == Assign(s, key)
<1>1. i \in Nat /\ IsFiniteSet(DOMAIN s.part_index)
  BY Fields, FS_CardinalityType DEF IsPartialFn
<1>2. p[key] = i /\ DOMAIN p = DOMAIN s.part_index \cup {key}
  BY DEF Insert
<1>3. Cardinality(DOMAIN p) = i + 1
  BY <1>1, <1>2, FS_AddElement
<1>4. IsDecodeState(t)
  BY AssignType
<1>5. t = [s EXCEPT !.part_index = p]
  BY DEF Assign
<1> HIDE DEF p, t, i
<1>6. /\ t.out = s.out /\ t.open = s.open /\ t.started = s.started
      /\ t.terminated = s.terminated /\ t.part_index = p
  BY <1>5 DEF IsDecodeState
<1> QED  BY <1>1, <1>2, <1>3, <1>4, <1>6 DEF t, p, i

\* A part is given the next index.
LEMMA KnownGrows ==
    \A parts, c, d, key, name :
        LET i == Cardinality(DOMAIN parts)
            q == Insert(parts, key, i)
        IN  /\ Known(parts, c) /\ IsFiniteSet(DOMAIN parts) /\ key \notin DOMAIN parts
            /\ IsPartialFn(parts, Nat \X Nat, Nat)
            /\ d.used = c.used \cup {i} /\ DOMAIN c.blocks \subseteq c.used
            /\ \/ d.blocks = Insert(c.blocks, i, PartName(key[1], key[2]))
               \/ d.blocks = c.blocks
            => Known(q, d)
<1> TAKE parts, c, d, key, name
<1> DEFINE i == Cardinality(DOMAIN parts)
           q == Insert(parts, key, i)
<1> SUFFICES ASSUME /\ Known(parts, c) /\ IsFiniteSet(DOMAIN parts) /\ key \notin DOMAIN parts
                    /\ IsPartialFn(parts, Nat \X Nat, Nat)
                    /\ d.used = c.used \cup {i} /\ DOMAIN c.blocks \subseteq c.used
                    /\ \/ d.blocks = Insert(c.blocks, i, PartName(key[1], key[2]))
                       \/ d.blocks = c.blocks
             PROVE  Known(q, d)
  OBVIOUS
<1>1. i \in Nat
  BY FS_CardinalityType
<1>2. DOMAIN q = DOMAIN parts \cup {key} /\ q[key] = i /\ \A k \in DOMAIN parts : q[k] = parts[k]
  BY DEF Insert
<1>3. Cardinality(DOMAIN q) = i + 1
  BY <1>2, FS_AddElement
<1>4. /\ \A k \in DOMAIN parts : parts[k] < i /\ parts[k] \in Nat
      /\ c.used \subseteq 0..(i - 1)
      /\ \A k \in DOMAIN parts : parts[k] \in DOMAIN c.blocks => c.blocks[parts[k]] = PartName(k[1], k[2])
  BY DEF Known, IsPartialFn
<1> HIDE DEF i, q
<1>5. \A k \in DOMAIN q : q[k] < i + 1
  BY <1>1, <1>2, <1>4
<1>6. d.used \subseteq 0..((i + 1) - 1)
  <2>1. 0..(i - 1) \cup {i} = 0..((i + 1) - 1)
    BY <1>1
  <2> QED  BY <1>4, <2>1
<1>7. i \notin DOMAIN c.blocks
  <2>1. i \notin 0..(i - 1)
    BY <1>1
  <2> QED  BY <1>4, <2>1
<1>8. ASSUME NEW k \in DOMAIN q, q[k] \in DOMAIN d.blocks
      PROVE  d.blocks[q[k]] = PartName(k[1], k[2])
  <2>1. CASE k = key
    BY <1>2, <1>7, <1>8, <2>1 DEF Insert
  <2>2. CASE k # key
    <3>1. k \in DOMAIN parts /\ q[k] = parts[k] /\ q[k] # i
      BY <1>1, <1>2, <1>4, <2>2
    <3>2. q[k] \in DOMAIN c.blocks /\ d.blocks[q[k]] = c.blocks[q[k]]
      BY <1>8, <3>1 DEF Insert
    <3> QED  BY <1>4, <3>1, <3>2
  <2> QED  BY <2>1, <2>2
<1> QED  BY <1>3, <1>5, <1>6, <1>8 DEF Known

\* A part's block is opened.
LEMMA OpeningPart ==
    \A b, s, c, key, k :
        LET i == Cardinality(DOMAIN s.part_index)
            name == PartName(key[1], key[2])
            t == OpenPart(s, key, k, name)
        IN  /\ Says(b, s, c) /\ c.started = TRUE /\ c.verdict = "none" /\ Known(s.part_index, c)
            /\ key \in Nat \X Nat /\ key \notin DOMAIN s.part_index /\ k \in Kinds
            => \E d : /\ Says(b, t, d) /\ Known(t.part_index, d)
                      /\ d.started = TRUE /\ d.verdict = c.verdict /\ d.exit = c.exit
                      /\ t.started = s.started /\ t.terminated = s.terminated
                      /\ t.part_index = Insert(s.part_index, key, i)
<1> TAKE b, s, c, key, k
<1> DEFINE i == Cardinality(DOMAIN s.part_index)
           name == PartName(key[1], key[2])
           u == Assign(s, key)
           t == OpenPart(s, key, k, name)
<1> SUFFICES ASSUME /\ Says(b, s, c) /\ c.started = TRUE /\ c.verdict = "none" /\ Known(s.part_index, c)
                    /\ key \in Nat \X Nat /\ key \notin DOMAIN s.part_index /\ k \in Kinds
             PROVE  \E d : /\ Says(b, t, d) /\ Known(t.part_index, d)
                           /\ d.started = TRUE /\ d.verdict = c.verdict /\ d.exit = c.exit
                           /\ t.started = s.started /\ t.terminated = s.terminated
                           /\ t.part_index = Insert(s.part_index, key, i)
  OBVIOUS
<1>1. IsDecodeState(s) /\ IsClient(c) /\ name \in Pieces
  BY BlockNames DEF Says
<1>2. /\ IsDecodeState(u) /\ u.out = s.out /\ u.open = s.open /\ u.started = s.started
      /\ u.terminated = s.terminated /\ u.part_index = Insert(s.part_index, key, i)
      /\ u.part_index[key] = i /\ i \in Nat
  BY <1>1, AssignFresh
<1>3. t = OpenBlock(u, i, k, name)
  BY <1>2 DEF OpenPart
<1> HIDE DEF u, t
<1>4. Says(b, u, c)
  BY <1>2, Flagging
<1>5. i \notin c.used
  <2>1. i \notin 0..(i - 1)
    BY <1>2
  <2> QED  BY <2>1 DEF Known
<1>6. /\ IsPartialFn(s.part_index, Nat \X Nat, Nat) /\ IsFiniteSet(DOMAIN s.part_index)
      /\ DOMAIN c.blocks \subseteq c.used
  BY <1>1, Fields DEF IsPartialFn, IsClient
<1> HIDE DEF i, name
<1>7. MayOpen(b, u, c, i, k, name)
  BY <1>1, <1>2, <1>4, <1>5 DEF MayOpen
<1>8. PICK d : /\ Says(b, t, d)
               /\ d.blocks = Insert(c.blocks, i, name) /\ d.used = c.used \cup {i}
               /\ d.started = TRUE /\ d.verdict = c.verdict /\ d.exit = c.exit
  BY <1>3, <1>7, Opening
<1>9. SameFlags(u, t)
  BY <1>2, <1>3, OpenBlockFields
<1>10. t.started = s.started /\ t.terminated = s.terminated /\ t.part_index = Insert(s.part_index, key, i)
  BY <1>2, <1>9 DEF SameFlags
<1>11. Known(Insert(s.part_index, key, i), d)
  BY <1>6, <1>8, KnownGrows DEF i, name
<1> QED  BY <1>8, <1>10, <1>11

\* The provider begins an item, a part of it, and ends it.
LEMMA ItemBegins ==
    \A w, v, parts, q, k :
        /\ Itemized(w, parts) /\ w.next \in Nat /\ w.live \subseteq LiveItems
        /\ DOMAIN parts \subseteq Nat \X Nat
        /\ v.next = w.next + 1 /\ v.live = w.live \cup {[index |-> w.next, kind |-> k, parts |-> 0]}
        /\ \/ q = parts
           \/ k \in {"function_call", "reasoning"} /\ DOMAIN q = DOMAIN parts \cup {<<w.next, 0>>}
        => Itemized(v, q)
<1> TAKE w, v, parts, q, k
<1> HAVE /\ Itemized(w, parts) /\ w.next \in Nat /\ w.live \subseteq LiveItems
         /\ DOMAIN parts \subseteq Nat \X Nat
         /\ v.next = w.next + 1 /\ v.live = w.live \cup {[index |-> w.next, kind |-> k, parts |-> 0]}
         /\ \/ q = parts
            \/ k \in {"function_call", "reasoning"} /\ DOMAIN q = DOMAIN parts \cup {<<w.next, 0>>}
<1> DEFINE new == [index |-> w.next, kind |-> k, parts |-> 0]
<1>1. /\ \A p \in DOMAIN parts : p[1] < w.next /\ p[1] \in Nat
      /\ \A x \in w.live : x.index < w.next /\ x.index \in Nat
  BY ProviderAssumption DEF Itemized, LiveItems
<1>2. new.index = w.next /\ new.kind = k
  OBVIOUS
<1>3. DOMAIN q \subseteq DOMAIN parts \cup {<<w.next, 0>>}
  OBVIOUS
<1> HIDE DEF new
<1>4. \A p \in DOMAIN q : p[1] < v.next
  BY <1>1, <1>3
<1>5. \A x \in v.live : x.index < v.next
  BY <1>1, <1>2 DEF new
<1>6. \A x \in v.live : \A y \in v.live : x.index = y.index => x = y
  BY <1>1, <1>2 DEF new, Itemized
<1>7. ASSUME NEW x \in v.live, NEW p \in DOMAIN q, p[1] = x.index PROVE Expected(x, p[2])
  <2>1. CASE x = new
    <3>1. p \notin DOMAIN parts
      BY <1>1, <1>2, <1>7, <2>1
    <3>2. k \in {"function_call", "reasoning"} /\ p = <<w.next, 0>>
      BY <1>3, <3>1
    <3> QED  BY <1>2, <2>1, <3>2 DEF Expected
  <2>2. CASE x # new
    <3>1. x \in w.live
      BY <2>2 DEF new
    <3>2. p \in DOMAIN parts
      BY <1>1, <1>3, <1>7, <3>1
    <3> QED  BY <1>7, <3>1, <3>2 DEF Itemized
  <2> QED  BY <2>1, <2>2
<1> QED  BY <1>4, <1>5, <1>6, <1>7 DEF Itemized

LEMMA PartBegins ==
    \A w, v, parts, q, x :
        /\ Itemized(w, parts) /\ w.live \subseteq LiveItems /\ x \in w.live /\ x.kind = "message"
        /\ v.next = w.next
        /\ v.live = {IF y.index = x.index /\ y.parts = x.parts
                     THEN [y EXCEPT !.parts = x.parts + 1] ELSE y : y \in w.live}
        /\ DOMAIN q \subseteq DOMAIN parts \cup {<<x.index, x.parts>>}
        /\ DOMAIN parts \subseteq Nat \X Nat
        => Itemized(v, q)
<1> TAKE w, v, parts, q, x
<1> HAVE /\ Itemized(w, parts) /\ w.live \subseteq LiveItems /\ x \in w.live /\ x.kind = "message"
         /\ v.next = w.next
         /\ v.live = {IF y.index = x.index /\ y.parts = x.parts
                      THEN [y EXCEPT !.parts = x.parts + 1] ELSE y : y \in w.live}
         /\ DOMAIN q \subseteq DOMAIN parts \cup {<<x.index, x.parts>>}
         /\ DOMAIN parts \subseteq Nat \X Nat
<1> DEFINE Longer(y) == IF y.index = x.index /\ y.parts = x.parts
                        THEN [y EXCEPT !.parts = x.parts + 1] ELSE y
<1>1. \A y \in w.live : y.index \in Nat /\ y.parts \in Nat
  BY ProviderAssumption DEF LiveItems
<1>2. \A y \in w.live : Longer(y).index = y.index /\ Longer(y).kind = y.kind
  BY DEF LiveItems
<1>3. \A y \in w.live : y.index = x.index => y = x
  BY DEF Itemized
<1>4. Longer(x).parts = x.parts + 1
  BY DEF LiveItems
<1>5. \A z \in v.live : \E y \in w.live : z = Longer(y)
  OBVIOUS
<1>6. \A y \in w.live : y # x => Longer(y) = y
  BY <1>3
<1> HIDE DEF Longer
<1>7. \A p \in DOMAIN q : p[1] < v.next
  <2>1. x.index < w.next /\ <<x.index, x.parts>>[1] = x.index
    BY DEF Itemized
  <2> QED  BY <2>1 DEF Itemized
<1>8. \A z \in v.live : z.index < v.next
  BY <1>2, <1>5 DEF Itemized
<1>9. \A y, z \in v.live : y.index = z.index => y = z
  BY <1>2, <1>5 DEF Itemized
<1>10. ASSUME NEW z \in v.live, NEW p \in DOMAIN q, p[1] = z.index PROVE Expected(z, p[2])
  <2>1. PICK y \in w.live : z = Longer(y)
    BY <1>5
  <2>2. CASE y = x
    <3>1. z.kind = "message" /\ z.parts = x.parts + 1 /\ z.index = x.index
      BY <1>2, <1>4, <2>1, <2>2
    <3>2. CASE p \in DOMAIN parts
      <4>1. p[2] < x.parts /\ p[2] \in Nat
        BY <1>10, <3>1, <3>2 DEF Itemized, Expected
      <4> QED  BY <1>1, <3>1, <4>1 DEF Expected
    <3>3. CASE p = <<x.index, x.parts>>
      BY <1>1, <3>1, <3>3 DEF Expected
    <3> QED  BY <3>2, <3>3
  <2>3. CASE y # x
    <3>1. z = y /\ y.index # x.index
      BY <1>3, <1>6, <2>1, <2>3
    <3>2. p # <<x.index, x.parts>>
      BY <1>10, <3>1
    <3> QED  BY <1>10, <3>1, <3>2 DEF Itemized
  <2> QED  BY <2>2, <2>3
<1> QED  BY <1>7, <1>8, <1>9, <1>10 DEF Itemized

LEMMA ItemLeaves ==
    \A w, v, parts, q, x :
        /\ Itemized(w, parts) /\ x \in w.live
        /\ v.next = w.next /\ v.live = {y \in w.live : y.index # x.index}
        /\ DOMAIN q \subseteq DOMAIN parts \cup {<<x.index, 0>>}
        => Itemized(v, q)
<1> TAKE w, v, parts, q, x
<1> HAVE /\ Itemized(w, parts) /\ x \in w.live
         /\ v.next = w.next /\ v.live = {y \in w.live : y.index # x.index}
         /\ DOMAIN q \subseteq DOMAIN parts \cup {<<x.index, 0>>}
<1>1. <<x.index, 0>>[1] = x.index
  OBVIOUS
<1> QED  BY <1>1 DEF Itemized

\* A generated image: its block is opened, filled and stopped at once.
LEMMA ImageSays ==
    \A b, s, c, f :
        /\ Says(b, s, c) /\ c.started = TRUE /\ c.verdict = "none" /\ Known(s.part_index, c)
        /\ PartKey(f) \in Nat \X Nat /\ PartKey(f) \notin DOMAIN s.part_index
        /\ f.block \in Pieces
        => LET t == ImageItem(f, s)
           IN  \E d : /\ Says(b, t, d) /\ Known(t.part_index, d)
                      /\ d.started = TRUE /\ d.verdict = c.verdict /\ d.exit = c.exit
                      /\ t.started = s.started /\ t.terminated = s.terminated
                      /\ DOMAIN t.part_index = DOMAIN s.part_index \cup {PartKey(f)}
<1> TAKE b, s, c, f
<1> HAVE /\ Says(b, s, c) /\ c.started = TRUE /\ c.verdict = "none" /\ Known(s.part_index, c)
         /\ PartKey(f) \in Nat \X Nat /\ PartKey(f) \notin DOMAIN s.part_index
         /\ f.block \in Pieces
<1> DEFINE key == PartKey(f)
           i == Cardinality(DOMAIN s.part_index)
           u == Assign(s, key)
           e1 == ContentStart(i, "Image", f.block)
           e2 == ContentDelta(i, "ImageDelta", f.block)
           e3 == ContentStop(i)
           t == Emit(Emit(Emit(u, e1), e2), e3)
           c1 == Told(c, e1)
           c2 == Told(c1, e2)
           d == Told(c2, e3)
<1>1. IsDecodeState(s) /\ IsClient(c)
  BY DEF Says
<1>2. /\ IsDecodeState(u) /\ u.out = s.out /\ u.open = s.open /\ u.started = s.started
      /\ u.terminated = s.terminated /\ u.part_index = Insert(s.part_index, key, i)
      /\ u.part_index[key] = i /\ i \in Nat
  BY <1>1, AssignFresh
<1>3. ImageItem(f, s) = t
  BY <1>2 DEF ImageItem
<1>4. /\ e1 \in Event /\ e2 \in Event /\ e3 \in Event
  BY <1>2, EventTypes DEF Kinds, Deltas
<1>5. i \notin c.used /\ DOMAIN c.blocks \subseteq c.used
  <2>1. i \notin 0..(i - 1)
    BY <1>2
  <2> QED  BY <1>1, <2>1 DEF Known, IsClient
<1> HIDE DEF i, u
<1>6. Legal(c, e1)
  BY <1>5 DEF Legal, ContentStart
<1>7. /\ c1.blocks = Insert(c.blocks, i, f.block) /\ c1.used = c.used \cup {i}
      /\ c1.verdict = c.verdict /\ c1.exit = c.exit /\ c1.started = (c.started \/ FALSE)
      /\ c1 = [started |-> c1.started, blocks |-> c1.blocks, used |-> c1.used,
               verdict |-> c1.verdict, exit |-> c1.exit]
  BY DEF Told, ContentStart
<1>8. c1.started = TRUE
  BY <1>7
<1> HIDE DEF c1
<1>9. IsClient(c1) /\ i \in DOMAIN c1.blocks /\ c1.blocks[i] = f.block
  <2>1. DOMAIN c1.blocks = DOMAIN c.blocks \cup {i} /\ c1.blocks[i] = f.block
    BY <1>7 DEF Insert
  <2>2. c1.blocks = [x \in DOMAIN c1.blocks |-> c1.blocks[x]]
    BY <1>7 DEF Insert
  <2> QED  BY <1>5, <1>7, <1>8, <2>1, <2>2 DEF IsClient
<1>10. Legal(c1, e2)
  BY <1>9 DEF Legal, ContentDelta
<1>11. c2 = c1
  BY <1>9, ToldNothing DEF ContentDelta
<1> HIDE DEF c2
<1>12. Legal(c2, e3)
  BY <1>9, <1>11 DEF Legal, ContentStop
<1>13. d = [started |-> c1.started, blocks |-> Remove(c1.blocks, i), used |-> c1.used,
            verdict |-> c1.verdict, exit |-> c1.exit]
  <2>1. c1.started \in BOOLEAN
    BY <1>8
  <2>2. Told(c1, ContentStop(i)) =
            [started |-> c1.started, blocks |-> Remove(c1.blocks, i), used |-> c1.used,
             verdict |-> c1.verdict, exit |-> c1.exit]
    BY <2>1, ToldStop
  <2> QED  BY <1>11, <2>2
<1>14. Remove(c1.blocks, i) = c.blocks
  <2>1. i \notin DOMAIN c.blocks
    BY <1>5
  <2>2. c.blocks = [x \in DOMAIN c.blocks |-> c.blocks[x]]
    BY <1>1 DEF IsClient
  <2> DEFINE r == Remove(Insert(c.blocks, i, f.block), i)
  <2>3. r = [x \in DOMAIN c.blocks |-> c.blocks[x]]
    BY <2>1 DEF Remove, Insert
  <2> QED  BY <1>7, <2>2, <2>3
<1>15. /\ d.started = TRUE /\ d.blocks = c.blocks /\ d.used = c.used \cup {i}
       /\ d.verdict = c.verdict /\ d.exit = c.exit /\ IsClient(d)
  BY <1>1, <1>5, <1>7, <1>8, <1>13, <1>14 DEF IsClient
<1> DEFINE u1 == Emit(u, e1)
           u2 == Emit(u1, e2)
<1> HIDE DEF e1, e2, e3, d
<1>16. IsDecodeState(u1) /\ IsDecodeState(u2) /\ IsDecodeState(t)
  <2>1. IsDecodeState(u1)
    BY <1>2, <1>4, EmitType
  <2> HIDE DEF u1
  <2>2. IsDecodeState(u2)
    BY <1>4, <2>1, EmitType
  <2> HIDE DEF u2
  <2>3. IsDecodeState(Emit(u2, e3))
    BY <1>4, <2>2, EmitType
  <2> QED  BY <2>1, <2>2, <2>3 DEF u2, u1
<1>17. t.open = u.open /\ SameFlags(u, t) /\ u1.out = Append(u.out, e1) /\ u2.out = Append(u1.out, e2)
       /\ t.out = Append(u2.out, e3)
  <2>1. u1.open = u.open /\ SameFlags(u, u1) /\ u1.out = Append(u.out, e1)
    BY <1>2, EmitFields
  <2> HIDE DEF u1
  <2>2. u2.open = u1.open /\ SameFlags(u1, u2) /\ u2.out = Append(u1.out, e2)
    BY <1>16, EmitFields
  <2>3. t = Emit(u2, e3)
    BY DEF u1
  <2> HIDE DEF u2, t
  <2>4. t.open = u2.open /\ SameFlags(u2, t) /\ t.out = Append(u2.out, e3)
    BY <1>16, <2>3, EmitFields
  <2> QED  BY <2>1, <2>2, <2>4 DEF SameFlags
<1> HIDE DEF t, u1, u2
<1>18. Path(b, t.out, d)
  <2>1. Path(b, u.out, c) /\ u.out \in Seq(Event) /\ u1.out \in Seq(Event) /\ u2.out \in Seq(Event)
    BY <1>2, <1>16, Fields DEF Says
  <2>2. Path(b, u1.out, c1)
    BY <1>4, <1>6, <1>17, <2>1, OneMore DEF c1
  <2>3. Path(b, u2.out, c2)
    BY <1>4, <1>10, <1>17, <2>1, <2>2, OneMore DEF c2
  <2> QED  BY <1>4, <1>12, <1>17, <2>1, <2>3, OneMore DEF d
<1>19. Says(b, t, d)
  BY <1>2, <1>15, <1>16, <1>17, <1>18 DEF Says
<1>20. t.started = s.started /\ t.terminated = s.terminated /\ t.part_index = Insert(s.part_index, key, i)
  BY <1>2, <1>17 DEF SameFlags
<1>21. Known(t.part_index, d)
  <2>1. IsPartialFn(s.part_index, Nat \X Nat, Nat) /\ IsFiniteSet(DOMAIN s.part_index)
    BY <1>1, Fields DEF IsPartialFn
  <2> QED  BY <1>5, <1>15, <1>20, <2>1, KnownGrows DEF i
<1>22. DOMAIN t.part_index = DOMAIN s.part_index \cup {key}
  BY <1>20 DEF Insert
<1> QED  BY <1>3, <1>15, <1>19, <1>20, <1>21, <1>22

\* The end of an item: its blocks are stopped, and a reasoning item, which has one block at
\* most, may be given its encrypted form before.
LEMMA ItemDoneSays ==
    \A b, s, c, f :
        /\ Says(b, s, c) /\ Known(s.part_index, c) /\ f.block \in Pieces
        /\ f.itype = "reasoning" =>
              /\ f.block = PartName(f.item, 0)
              /\ \A k \in DOMAIN s.part_index : k[1] = f.item => k[2] = 0
        => LET t == ItemDone(f, s)
           IN  /\ Says(b, t, Shut(c, OpenParts(f.item, s)))
               /\ t.part_index = s.part_index /\ t.started = s.started /\ t.terminated = s.terminated
<1> TAKE b, s, c, f
<1> HAVE /\ Says(b, s, c) /\ Known(s.part_index, c) /\ f.block \in Pieces
         /\ f.itype = "reasoning" =>
               /\ f.block = PartName(f.item, 0)
               /\ \A k \in DOMAIN s.part_index : k[1] = f.item => k[2] = 0
<1> DEFINE S == OpenParts(f.item, s)
           sealed == f.itype = "reasoning" /\ f.encrypted
           e1(n) == ContentDelta(Ascending(S)[(n + 1) \div 2], "EncryptedReasoningDelta", f.block)
           e2(n) == ContentStop(Ascending(S)[n \div 2])
           encrypted == [n \in 1..(2 * Cardinality(S)) |-> IF n % 2 = 1 THEN e1(n) ELSE e2(n)]
           rest == [i \in DOMAIN s.open \ S |-> s.open[i]]
           t == ItemDone(f, s)
<1>1. IsDecodeState(s) /\ IsDecodeState(t) /\ IsClient(c)
  BY ItemDoneType DEF Says
<1>2. S \subseteq DOMAIN s.open /\ S \in SUBSET Nat /\ IsFiniteSet(S)
  BY <1>1, OpenPartsType DEF OpenParts
<1>3. /\ t.open = rest /\ t.out = s.out \o (IF sealed THEN encrypted ELSE Stops(S))
      /\ t.part_index = s.part_index /\ t.started = s.started /\ t.terminated = s.terminated
  <2> DEFINE said == s.out \o (IF sealed THEN encrypted ELSE Stops(S))
  <2>1. t = [s EXCEPT !.open = rest, !.out = said]
    BY DEF ItemDone
  <2> HIDE DEF t, said, rest
  <2>2. t.open = rest /\ t.out = said /\ t.part_index = s.part_index /\ t.started = s.started
        /\ t.terminated = s.terminated
    BY <1>1, <2>1 DEF IsDecodeState
  <2> QED  BY <2>2 DEF said
<1>4. CASE ~ sealed
  <2>1. t.out = s.out \o Stops(S)
    BY <1>3, <1>4
  <2> HIDE DEF t, S
  <2>2. Says(b, t, Shut(c, S))
    BY <1>1, <1>2, <1>3, <2>1, StoppingSome
  <2> QED  BY <1>3, <2>2 DEF t, S
<1>5. CASE sealed /\ S = {}
  <2>1. Cardinality(S) = 0
    BY <1>5, FS_EmptySet
  <2>2. encrypted = Stops(S)
    <3>1. 1..(2 * Cardinality(S)) = {} /\ 1..Cardinality(S) = {}
      BY <2>1
    <3> HIDE DEF S, e1, e2
    <3> QED  BY <3>1 DEF Stops
  <2>3. t.out = s.out \o Stops(S)
    BY <1>3, <1>5, <2>2
  <2> HIDE DEF t, S, encrypted
  <2>4. Says(b, t, Shut(c, S))
    BY <1>1, <1>2, <1>3, <2>3, StoppingSome
  <2> QED  BY <1>3, <2>4 DEF t, S
<1>6. CASE sealed /\ S # {}
  <2> DEFINE key == <<f.item, 0>>
             j == s.part_index[key]
             first == ContentDelta(j, "EncryptedReasoningDelta", f.block)
             last == ContentStop(j)
  <2>1. S = {j} /\ key \in DOMAIN s.part_index
    <3>1. \A x \in S : \E k \in DOMAIN s.part_index : k[1] = f.item /\ x = s.part_index[k]
      BY DEF OpenParts
    <3>2. \A k \in DOMAIN s.part_index : k[1] = f.item => k = key
      <4>1. \A k \in DOMAIN s.part_index : k = <<k[1], k[2]>>
        BY <1>1, Fields DEF IsPartialFn
      <4> QED  BY <1>6, <4>1
    <3> HIDE DEF S, key
    <3>3. \A x \in S : x = j /\ key \in DOMAIN s.part_index
      BY <3>1, <3>2
    <3> QED  BY <1>6, <3>3
  <2>2. j \in DOMAIN s.open /\ j \in DOMAIN c.blocks /\ j \in Nat
    BY <1>2, <2>1 DEF Says
  <2>3. c.blocks[j] = f.block
    <3>1. key[1] = f.item /\ key[2] = 0
      OBVIOUS
    <3>2. c.blocks[j] = PartName(key[1], key[2])
      BY <2>1, <2>2 DEF Known
    <3> QED  BY <1>6, <3>1, <3>2
  <2> HIDE DEF j, S
  <2>4. Cardinality(S) = 1 /\ Ascending(S)[1] = j
    <3>1. Cardinality(S) = 1
      BY <2>1, FS_Singleton
    <3>2. Ascending(S) \in [1..1 -> S]
      BY <1>2, <3>1, AscendingType
    <3> QED  BY <2>1, <3>1, <3>2
  <2>5. encrypted = <<first, last>>
    <3>1. 1..(2 * Cardinality(S)) = 1..2 /\ (1 + 1) \div 2 = 1 /\ 2 \div 2 = 1 /\ 1 % 2 = 1 /\ 2 % 2 = 0
      BY <2>4
    <3>2. e1(1) = first /\ e2(2) = last
      BY <2>4, <3>1
    <3> HIDE DEF e1, e2, first, last
    <3>3. encrypted = [n \in 1..2 |-> IF n % 2 = 1 THEN e1(n) ELSE e2(n)]
      BY <3>1
    <3>4. encrypted = [n \in 1..2 |-> IF n = 1 THEN first ELSE last]
      BY <3>1, <3>2, <3>3
    <3> HIDE DEF encrypted
    <3> QED  BY <3>4
  <2>6. t.out = s.out \o <<first, last>>
    BY <1>3, <1>6, <2>5
  <2>7. first \in Event /\ last \in Event /\ first.type = "ContentDelta" /\ first.index = j
        /\ first.block = f.block /\ last.type = "ContentStop" /\ last.index = j
    BY <2>2, EventTypes DEF ContentDelta, ContentStop, Deltas
  <2>8. Told(c, first) = c
    BY <1>1, <2>7, ToldNothing
  <2>9. Told(c, last) = Shut(c, S)
    <3>1. Told(c, last) = [started |-> c.started, blocks |-> Remove(c.blocks, j), used |-> c.used,
                           verdict |-> c.verdict, exit |-> c.exit]
      <4>1. c.started \in BOOLEAN
        BY <1>1 DEF IsClient
      <4> QED  BY <4>1, ToldStop
    <3> QED  BY <2>1, <3>1 DEF Shut, Remove
  <2> HIDE DEF first, last, encrypted
  <2>10. Legal(c, first) /\ Legal(c, last)
    BY <2>2, <2>3, <2>7 DEF Legal
  <2>11. s.out \in Seq(Event) /\ Path(b, s.out, c)
    BY <1>1, Fields DEF Says
  <2>12. Path(b, Append(s.out, first), c)
    <3>1. Path(b, Append(s.out, first), Told(c, first))
      BY <2>7, <2>10, <2>11, OneMore
    <3> QED  BY <2>8, <3>1
  <2>13. Path(b, Append(Append(s.out, first), last), Shut(c, S))
    <3> DEFINE q == Append(s.out, first)
    <3>1. q \in Seq(Event)
      BY <2>7, <2>11
    <3> HIDE DEF q
    <3>2. Path(b, q, c)
      BY <2>12 DEF q
    <3>3. Path(b, Append(q, last), Told(c, last))
      BY <2>7, <2>10, <3>1, <3>2, OneMore
    <3> QED  BY <2>9, <3>3 DEF q
  <2>14. s.out \o <<first, last>> = Append(Append(s.out, first), last)
    BY <2>7, <2>11
  <2>15. Path(b, t.out, Shut(c, S))
    BY <2>6, <2>13, <2>14
  <2>16. IsClient(Shut(c, S)) /\ DOMAIN Shut(c, S).blocks = DOMAIN t.open
    <3>1. DOMAIN t.open = DOMAIN s.open \ S /\ DOMAIN c.blocks = DOMAIN s.open
      BY <1>3 DEF Says
    <3> HIDE DEF t
    <3> QED  BY <1>1, <3>1 DEF Shut, IsClient
  <2> HIDE DEF t
  <2>17. Says(b, t, Shut(c, S))
    BY <1>1, <2>15, <2>16 DEF Says
  <2> QED  BY <1>3, <2>17 DEF t, S
<1> QED  BY <1>4, <1>5, <1>6

\* What may be sent.
LEMMA ItemFrameShape ==
    \A x : \A f \in ItemFrames(x) :
        \/ /\ f.type = "item_done" /\ f.item = x.index /\ f.part = 0 /\ f.itype = x.kind
           /\ f.block = BlockName(f.item)
        \/ f.type = "delta" /\ f.block = PartName(f.item, f.part)
        \/ /\ f.type = "part_added" /\ f.item = x.index /\ f.part = x.parts /\ x.kind = "message"
           /\ f.block = PartName(f.item, f.part)
        \/ f.type = "refusal"
<1> TAKE x
<1> TAKE f \in ItemFrames(x)
<1> DEFINE Finished == [type : {"item_done"}, item : {x.index}, part : {0}, itype : {x.kind},
                        encrypted : BOOLEAN, block : {BlockName(x.index)}]
           Fragments == [type : {"delta"}, item : {x.index}, part : {0}, delta : ItemDeltas(x.kind),
                         block : {BlockName(x.index)}]
           Added == {g \in [type : {"part_added"}, item : {x.index}, part : {x.parts},
                     ptype : {"output_text", "refusal"}, block : {PartName(x.index, x.parts)}] :
                       x.kind = "message" /\ x.parts < 2}
           Texts(p) == [type : {"delta"}, item : {x.index}, part : {p}, delta : {"TextDelta"},
                        block : {PartName(x.index, p)}]
           Refusals == [type : IF x.kind = "message" THEN {"refusal"} ELSE {}]
<1>1. f \in Finished => /\ f.type = "item_done" /\ f.item = x.index /\ f.part = 0 /\ f.itype = x.kind
                        /\ f.block = BlockName(f.item)
  OBVIOUS
<1>2. f \in Fragments => f.type = "delta" /\ f.block = PartName(f.item, f.part)
  BY DEF PartName
<1>3. f \in Added => /\ f.type = "part_added" /\ f.item = x.index /\ f.part = x.parts
                     /\ x.kind = "message" /\ f.block = PartName(f.item, f.part)
  OBVIOUS
<1>4. \A p : f \in Texts(p) => f.type = "delta" /\ f.block = PartName(f.item, f.part)
  OBVIOUS
<1>5. f \in Refusals => f.type = "refusal"
  OBVIOUS
<1> HIDE DEF Finished, Fragments, Added, Texts, Refusals
<1>6. \/ f \in Finished \/ f \in Fragments \/ f \in Added
      \/ (\E p \in 0..(x.parts - 1) : f \in Texts(p)) \/ f \in Refusals
  BY DEF ItemFrames, Finished, Fragments, Added, Texts, Refusals
<1> QED  BY <1>1, <1>2, <1>3, <1>4, <1>5, <1>6

LEMMA ResponseShape ==
    \A w : \A f \in ResponseFrames(w) :
        /\ w.phase \in {"before", "open"}
        /\ f.type \notin {"created", "failed"} => w.phase = "open"
        /\ f.type = "item_added" =>
              f.item = w.next /\ f.part = 0 /\ w.next < MaxBlocks /\ f.block = BlockName(f.item)
        /\ f.type \in {"delta", "part_added"} => f.block = PartName(f.item, f.part)
        /\ f.type = "part_added" =>
              \E x \in w.live : f.item = x.index /\ f.part = x.parts /\ x.kind = "message"
        /\ f.type = "item_done" =>
              /\ f.part = 0 /\ f.block = BlockName(f.item)
              /\ \E x \in w.live : f.item = x.index /\ f.itype = x.kind
<1> TAKE w
<1> TAKE f \in ResponseFrames(w)
<1> DEFINE Created == [type : {"created"}]
           Failure(k) == [type : {"failed"}, kind : {k}]
           Added == {g \in [type : {"item_added"}, item : {w.next}, part : {0}, itype : ItemTypes,
                            block : {NextBlock(w)}] : w.next < MaxBlocks}
           Completed == {g \in [type : {"completed"}, tool : {w.tool}, reason : {"Stop"},
                                usage : BOOLEAN] : w.live = {}}
           Incomplete == [type : {"incomplete"}, reason : {"Length"}, usage : BOOLEAN]
<1>1. f \in Created => f.type = "created"
  OBVIOUS
<1>2. \A k : f \in Failure(k) => f.type = "failed"
  OBVIOUS
<1>3. f \in Added => /\ f.type = "item_added" /\ f.item = w.next /\ f.part = 0 /\ w.next < MaxBlocks
                     /\ f.block = BlockName(f.item)
  BY DEF NextBlock
<1>4. f \in Completed => f.type = "completed"
  OBVIOUS
<1>5. f \in Incomplete => f.type = "incomplete"
  OBVIOUS
<1>6. \/ w.phase = "before" /\ (f \in Created \/ f \in Failure("Provider5xx"))
      \/ /\ w.phase = "open"
         /\ \/ f \in Created \/ f \in Failure("Transport") \/ f \in Added
            \/ (\E x \in w.live : f \in ItemFrames(x)) \/ f \in Completed \/ f \in Incomplete
  BY DEF ResponseFrames
<1> HIDE DEF Created, Failure, Added, Completed, Incomplete
<1>7. CASE \E x \in w.live : f \in ItemFrames(x)
  <2>1. PICK x \in w.live : f \in ItemFrames(x)
    BY <1>7
  <2>2. w.phase \in {"before", "open"} /\ (f.type \notin {"created", "failed"} => w.phase = "open")
    BY <1>1, <1>2, <1>6
  <2> QED  BY <2>1, <2>2, ItemFrameShape
<1> QED  BY <1>1, <1>2, <1>3, <1>4, <1>5, <1>6, <1>7

LEMMA TerminalSays ==
    \A b, s, c, f : \A r \in Reasons :
        Says(b, s, c) /\ c.started = TRUE /\ c.verdict = "none"
        => \E d : Says(b, Terminal(r, f, s), d) /\ d.verdict # "none"
<1> TAKE b, s, c, f
<1> TAKE r \in Reasons
<1> HAVE Says(b, s, c) /\ c.started = TRUE /\ c.verdict = "none"
<1> DEFINE u == IF f.usage THEN Emit(Drain(s), Usage) ELSE Drain(s)
<1>1. u \in {Drain(s), Emit(Drain(s), Usage)}
  OBVIOUS
<1>2. Terminal(r, f, s) = [Emit(u, Finish(r)) EXCEPT !.terminated = TRUE]
  BY DEF Terminal
<1> HIDE DEF u
<1>3. \E d : Says(b, [Emit(u, Finish(r)) EXCEPT !.terminated = TRUE], d) /\ d.verdict # "none"
  BY <1>1, Ending
<1> QED  BY <1>2, <1>3

\* A part's block is opened under the next index, or the item has none.
LEMMA PartOpens ==
    \A b, w, s, c, v, key, k :
        LET t == OpenPart(s, key, k, PartName(key[1], key[2]))
            q == Insert(s.part_index, key, Cardinality(DOMAIN s.part_index))
        IN  /\ Says(b, s, c) /\ PartsRel(w, s, c) /\ w.phase = "open" /\ v.phase = "open"
            /\ key \in Nat \X Nat /\ key \notin DOMAIN s.part_index /\ k \in Kinds
            /\ Itemized(v, q)
            => PartsKept(b, t, v)
<1> TAKE b, w, s, c, v, key, k
<1> DEFINE t == OpenPart(s, key, k, PartName(key[1], key[2]))
           q == Insert(s.part_index, key, Cardinality(DOMAIN s.part_index))
<1> SUFFICES ASSUME /\ Says(b, s, c) /\ PartsRel(w, s, c) /\ w.phase = "open" /\ v.phase = "open"
                    /\ key \in Nat \X Nat /\ key \notin DOMAIN s.part_index /\ k \in Kinds
                    /\ Itemized(v, q)
             PROVE  PartsKept(b, t, v)
  OBVIOUS
<1>1. c.started = TRUE /\ c.verdict = "none" /\ Known(s.part_index, c) /\ s.started = TRUE
  BY DEF PartsRel
<1>2. PICK d : /\ Says(b, t, d) /\ Known(t.part_index, d)
               /\ d.started = TRUE /\ d.verdict = c.verdict /\ d.exit = c.exit
               /\ t.started = s.started /\ t.terminated = s.terminated
               /\ t.part_index = q
  BY <1>1, OpeningPart
<1> HIDE DEF t, q
<1>3. PartsRel(v, t, d)
  BY <1>1, <1>2 DEF PartsRel
<1> QED  BY <1>2, <1>3 DEF PartsKept

LEMMA ItemAddedKeeps ==
    \A b, w, s, c, f : \A v :
        /\ WireOK("responses", w) /\ Says(b, s, c) /\ PartsRel(w, s, c) /\ w.phase = "open"
        /\ f.item = w.next /\ f.part = 0 /\ f.itype \in ItemTypes /\ f.block = BlockName(f.item)
        /\ v.phase = "open" /\ v.next = w.next + 1
        /\ v.live = w.live \cup {[index |-> f.item, kind |-> f.itype, parts |-> 0]}
        => PartsKept(b, ItemAdded(f, s), v)
<1> TAKE b, w, s, c, f
<1> TAKE v
<1> HAVE /\ WireOK("responses", w) /\ Says(b, s, c) /\ PartsRel(w, s, c) /\ w.phase = "open"
         /\ f.item = w.next /\ f.part = 0 /\ f.itype \in ItemTypes /\ f.block = BlockName(f.item)
         /\ v.phase = "open" /\ v.next = w.next + 1
         /\ v.live = w.live \cup {[index |-> f.item, kind |-> f.itype, parts |-> 0]}
<1>0. v.next = w.next + 1 /\ v.live = w.live \cup {[index |-> w.next, kind |-> f.itype, parts |-> 0]}
  OBVIOUS
<1> DEFINE key == <<w.next, 0>>
           q == Insert(s.part_index, key, Cardinality(DOMAIN s.part_index))
<1>1. w.next \in Nat /\ w.live \subseteq LiveItems
  BY ProviderAssumption DEF WireOK
<1>2. IsDecodeState(s) /\ DOMAIN s.part_index \subseteq Nat \X Nat
  BY Fields DEF Says, IsPartialFn
<1>3. /\ c.started = s.started /\ c.verdict = "none" /\ s.started = TRUE
      /\ Known(s.part_index, c) /\ Itemized(w, s.part_index)
  BY DEF PartsRel
<1>4. key \in Nat \X Nat /\ key[1] = w.next /\ key[2] = 0 /\ PartKey(f) = key
  BY <1>1 DEF PartKey
<1>5. key \notin DOMAIN s.part_index
  BY <1>1, <1>3, <1>4 DEF Itemized
<1>6. f.block = PartName(key[1], key[2])
  BY <1>4 DEF PartName
<1>7. CASE f.itype \in {"function_call", "reasoning"}
  <2> DEFINE k == IF f.itype = "function_call" THEN "ToolUse" ELSE "Thinking"
  <2>1. ItemAdded(f, s) = OpenPart(s, key, k, PartName(key[1], key[2])) /\ k \in Kinds
    BY <1>4, <1>6, <1>7 DEF ItemAdded, Kinds
  <2>2. DOMAIN q = DOMAIN s.part_index \cup {key}
    BY DEF Insert
  <2> HIDE DEF k, q
  <2>3. Itemized(v, q)
    <3>1. DOMAIN s.part_index \subseteq Nat \X Nat /\ Itemized(w, s.part_index)
      BY <1>2, <1>3
    <3>2. DOMAIN q = DOMAIN s.part_index \cup {<<w.next, 0>>}
      BY <2>2
    <3> QED  BY <1>0, <1>1, <1>7, <3>1, <3>2, ItemBegins
  <2> HIDE DEF key
  <2>4. PartsKept(b, OpenPart(s, key, k, PartName(key[1], key[2])), v)
    BY <1>4, <1>5, <2>1, <2>3, PartOpens DEF q
  <2> QED  BY <2>1, <2>4
<1>8. CASE f.itype \notin {"function_call", "reasoning"}
  <2>1. ItemAdded(f, s) = s
    BY <1>8 DEF ItemAdded
  <2>2. Itemized(v, s.part_index)
    BY <1>1, <1>2, <1>3, ItemBegins
  <2>3. PartsRel(v, s, c)
    BY <1>3, <2>2 DEF PartsRel
  <2> QED  BY <2>1, <2>3 DEF PartsKept
<1> QED  BY <1>7, <1>8

LEMMA PartAddedKeeps ==
    \A b, w, s, c, f : \A x, v :
        /\ WireOK("responses", w) /\ Says(b, s, c) /\ PartsRel(w, s, c) /\ w.phase = "open"
        /\ x \in w.live /\ x.kind = "message" /\ f.item = x.index /\ f.part = x.parts
        /\ f.block = PartName(f.item, f.part)
        /\ v.phase = "open" /\ v.next = w.next
        /\ v.live = {IF y.index = f.item /\ y.parts = f.part
                     THEN [y EXCEPT !.parts = f.part + 1] ELSE y : y \in w.live}
        => PartsKept(b, PartAdded(f, s), v)
<1> TAKE b, w, s, c, f
<1> TAKE x, v
<1> HAVE /\ WireOK("responses", w) /\ Says(b, s, c) /\ PartsRel(w, s, c) /\ w.phase = "open"
         /\ x \in w.live /\ x.kind = "message" /\ f.item = x.index /\ f.part = x.parts
         /\ f.block = PartName(f.item, f.part)
         /\ v.phase = "open" /\ v.next = w.next
         /\ v.live = {IF y.index = f.item /\ y.parts = f.part
                      THEN [y EXCEPT !.parts = f.part + 1] ELSE y : y \in w.live}
<1> DEFINE key == <<f.item, f.part>>
           q == Insert(s.part_index, key, Cardinality(DOMAIN s.part_index))
<1>1. w.live \subseteq LiveItems /\ x.index \in Nat /\ x.parts \in Nat
  <2>1. w.live \subseteq LiveItems
    BY DEF WireOK
  <2> QED  BY <2>1, ProviderAssumption DEF LiveItems
<1>2. IsDecodeState(s) /\ DOMAIN s.part_index \subseteq Nat \X Nat
  BY Fields DEF Says, IsPartialFn
<1>3. /\ c.started = s.started /\ c.verdict = "none" /\ s.started = TRUE
      /\ Known(s.part_index, c) /\ Itemized(w, s.part_index)
  BY DEF PartsRel
<1>4. key \in Nat \X Nat /\ key[1] = x.index /\ key[2] = x.parts /\ PartKey(f) = key
  BY <1>1 DEF PartKey
<1>5. key \notin DOMAIN s.part_index
  <2>1. ~ Expected(x, x.parts)
    BY <1>1 DEF Expected
  <2> QED  BY <1>3, <1>4, <2>1 DEF Itemized
<1>6. \A p : DOMAIN p \subseteq DOMAIN s.part_index \cup {key} => Itemized(v, p)
  <2>1. key = <<x.index, x.parts>>
    OBVIOUS
  <2>2. v.live = {IF y.index = x.index /\ y.parts = x.parts
                  THEN [y EXCEPT !.parts = x.parts + 1] ELSE y : y \in w.live}
    OBVIOUS
  <2> HIDE DEF key
  <2> QED  BY <1>1, <1>2, <1>3, <2>1, <2>2, PartBegins
<1>7. CASE f.ptype = "output_text"
  <2>1. PartAdded(f, s) = OpenPart(s, key, "Text", PartName(key[1], key[2])) /\ "Text" \in Kinds
    BY <1>4, <1>7 DEF PartAdded, Kinds
  <2>2. DOMAIN q = DOMAIN s.part_index \cup {key}
    BY DEF Insert
  <2> HIDE DEF q, key
  <2>3. Itemized(v, q)
    BY <1>6, <2>2
  <2>4. PartsKept(b, OpenPart(s, key, "Text", PartName(key[1], key[2])), v)
    BY <1>4, <1>5, <2>1, <2>3, PartOpens DEF q
  <2> QED  BY <2>1, <2>4
<1>8. CASE f.ptype # "output_text"
  <2>1. PartAdded(f, s) = s
    BY <1>8 DEF PartAdded
  <2>2. Itemized(v, s.part_index)
    BY <1>6
  <2>3. PartsRel(v, s, c)
    BY <1>3, <2>2 DEF PartsRel
  <2> QED  BY <2>1, <2>3 DEF PartsKept
<1> QED  BY <1>7, <1>8

LEMMA PartDeltaKeeps ==
    \A b, w, s, c, f :
        /\ Says(b, s, c) /\ PartsRel(w, s, c) /\ w.phase = "open"
        /\ f.block = PartName(f.item, f.part) /\ f.delta \in Deltas
        => PartsKept(b, PartDelta(f, s), w)
<1> TAKE b, w, s, c, f
<1> HAVE /\ Says(b, s, c) /\ PartsRel(w, s, c) /\ w.phase = "open"
         /\ f.block = PartName(f.item, f.part) /\ f.delta \in Deltas
<1> DEFINE key == PartKey(f)
           i == s.part_index[key]
           t == Emit(s, ContentDelta(i, f.delta, f.block))
<1>1. CASE key \in DOMAIN s.part_index /\ i \in DOMAIN s.open
  <2>1. PartDelta(f, s) = t
    BY <1>1 DEF PartDelta
  <2>2. key[1] = f.item /\ key[2] = f.part
    BY DEF PartKey
  <2> HIDE DEF key
  <2>3. i \in DOMAIN c.blocks /\ c.blocks[i] = f.block
    BY <1>1, <2>2 DEF Says, PartsRel, Known
  <2>4. f.block \in Pieces
    BY BlockNames
  <2> HIDE DEF i
  <2>5. Says(b, t, c)
    BY <2>3, <2>4, Fragmenting
  <2>6. SameFlags(s, t)
    BY EmitFields DEF Says
  <2> HIDE DEF t
  <2>7. PartsRel(w, t, c)
    BY <2>6 DEF PartsRel, SameFlags
  <2> QED  BY <2>1, <2>5, <2>7 DEF PartsKept
<1>2. CASE ~ (key \in DOMAIN s.part_index /\ i \in DOMAIN s.open)
  <2>1. PartDelta(f, s) = s
    BY <1>2 DEF PartDelta
  <2> QED  BY <2>1 DEF PartsKept
<1> QED  BY <1>1, <1>2

LEMMA OutputItemDoneKeeps ==
    \A b, w, s, c, f : \A x, v :
        /\ WireOK("responses", w) /\ Says(b, s, c) /\ PartsRel(w, s, c) /\ w.phase = "open"
        /\ x \in w.live /\ f.item = x.index /\ f.itype = x.kind /\ f.part = 0
        /\ f.block = BlockName(f.item)
        /\ v.phase = "open" /\ v.next = w.next /\ v.live = {y \in w.live : y.index # f.item}
        => PartsKept(b, OutputItemDone(f, s), v)
<1> TAKE b, w, s, c, f
<1> TAKE x, v
<1> HAVE /\ WireOK("responses", w) /\ Says(b, s, c) /\ PartsRel(w, s, c) /\ w.phase = "open"
         /\ x \in w.live /\ f.item = x.index /\ f.itype = x.kind /\ f.part = 0
         /\ f.block = BlockName(f.item)
         /\ v.phase = "open" /\ v.next = w.next /\ v.live = {y \in w.live : y.index # f.item}
<1> DEFINE key == <<x.index, 0>>
<1>1. x.index \in Nat /\ f.block \in Pieces /\ f.block = PartName(f.item, 0)
  <2>1. w.live \subseteq LiveItems
    BY DEF WireOK
  <2>2. x.index \in Nat
    BY <2>1, ProviderAssumption DEF LiveItems
  <2>3. f.block = PartName(f.item, 0)
    BY DEF PartName
  <2> QED  BY <2>2, <2>3, BlockNames
<1>2. IsDecodeState(s) /\ IsClient(c)
  BY DEF Says
<1>3. /\ c.started = TRUE /\ c.verdict = "none" /\ s.started = TRUE /\ ~ s.terminated
      /\ Known(s.part_index, c) /\ Itemized(w, s.part_index)
  BY DEF PartsRel
<1>4. key \in Nat \X Nat /\ key[1] = x.index /\ key[2] = 0 /\ PartKey(f) = key
  BY <1>1 DEF PartKey
<1>5. \A p : DOMAIN p \subseteq DOMAIN s.part_index \cup {key} => Itemized(v, p)
  BY <1>3, ItemLeaves
<1>6. CASE f.itype = "image"
  <2>1. OutputItemDone(f, s) = ImageItem(f, s)
    BY <1>6 DEF OutputItemDone
  <2>2. key \notin DOMAIN s.part_index
    <3>1. ~ Expected(x, 0)
      BY <1>6 DEF Expected
    <3> QED  BY <1>3, <1>4, <3>1 DEF Itemized
  <2> DEFINE t == ImageItem(f, s)
  <2> HIDE DEF key
  <2>3. PICK d : /\ Says(b, t, d) /\ Known(t.part_index, d)
                 /\ d.started = TRUE /\ d.verdict = c.verdict /\ d.exit = c.exit
                 /\ t.started = s.started /\ t.terminated = s.terminated
                 /\ DOMAIN t.part_index = DOMAIN s.part_index \cup {PartKey(f)}
    BY <1>1, <1>3, <1>4, <2>2, ImageSays
  <2> HIDE DEF t
  <2>4. Itemized(v, t.part_index)
    BY <1>4, <1>5, <2>3
  <2>5. PartsRel(v, t, d)
    BY <1>3, <2>3, <2>4 DEF PartsRel
  <2> QED  BY <2>1, <2>3, <2>5 DEF PartsKept, t
<1>7. CASE f.itype # "image"
  <2> DEFINE t == ItemDone(f, s)
             d == Shut(c, OpenParts(f.item, s))
  <2>1. OutputItemDone(f, s) = t
    BY <1>7 DEF OutputItemDone
  <2>2. f.itype = "reasoning" => \A k \in DOMAIN s.part_index : k[1] = f.item => k[2] = 0
    BY <1>3 DEF Itemized, Expected
  <2>3. /\ Says(b, t, d)
        /\ t.part_index = s.part_index /\ t.started = s.started /\ t.terminated = s.terminated
    BY <1>1, <1>3, <2>2, ItemDoneSays
  <2>4. Known(s.part_index, d) /\ d.started = c.started /\ d.verdict = c.verdict
    BY <1>3 DEF Known, Shut
  <2> HIDE DEF t, d
  <2>5. Itemized(v, s.part_index)
    BY <1>5
  <2>6. PartsRel(v, t, d)
    BY <1>3, <2>3, <2>4, <2>5 DEF PartsRel
  <2> QED  BY <2>1, <2>3, <2>6 DEF PartsKept
<1> QED  BY <1>6, <1>7

LEMMA ResponsesKeeps ==
    \A b, w, s, c : \A f \in ResponseFrames(w) :
        WireOK("responses", w) /\ Says(b, s, c) /\ PartsRel(w, s, c)
        => PartsKept(b, ResponsesDecode(f, s), ResponseAfter(w, f))
<1> TAKE b, w, s, c
<1> TAKE f \in ResponseFrames(w)
<1> HAVE WireOK("responses", w) /\ Says(b, s, c) /\ PartsRel(w, s, c)
<1> DEFINE v == ResponseAfter(w, f)
           t == ResponsesDecode(f, s)
<1>0. f \in ResponsesFrames
  BY ResponseFramesType
<1>s. IsDecodeState(s)
  BY DEF Says
<1>1. CASE f.type = "created"
  <2>1. w.phase \in {"before", "open"}
    BY ResponseShape
  <2>2. t = StartMessage(s) /\ v = [w EXCEPT !.phase = "open"]
    BY <1>1 DEF ResponsesDecode, ResponseAfter
  <2>3. v.phase = "open" /\ v.next = w.next /\ v.live = w.live
    BY <2>2 DEF WireOK
  <2> HIDE DEF t, v
  <2>4. /\ c.started = s.started /\ c.verdict = "none"
        /\ Known(s.part_index, c) /\ Itemized(w, s.part_index)
    BY <2>1 DEF PartsRel
  <2>5. PICK d : /\ Says(b, t, d) /\ d.started = TRUE /\ t.started = TRUE
                 /\ d.blocks = c.blocks /\ d.used = c.used /\ d.verdict = c.verdict
                 /\ t.terminated = s.terminated /\ t.part_index = s.part_index
    BY <2>2, <2>4, Starting
  <2>6. Known(t.part_index, d) /\ Itemized(v, t.part_index)
    BY <2>3, <2>4, <2>5 DEF Known, Itemized
  <2>7. s.terminated => c.verdict # "none"
    BY DEF PartsRel
  <2>8. PartsRel(v, t, d)
    BY <2>3, <2>4, <2>5, <2>6, <2>7 DEF PartsRel
  <2> QED  BY <2>5, <2>8 DEF PartsKept, t, v
<1>2. CASE f.type = "item_added"
  <2>1. /\ w.phase = "open" /\ f.item = w.next /\ f.part = 0 /\ f.block = BlockName(f.item)
    BY <1>2, ResponseShape
  <2>2. f.itype \in ItemTypes
    BY <1>0, <1>2 DEF ResponsesFrames
  <2>3. t = ItemAdded(f, s)
    BY <1>2 DEF ResponsesDecode
  <2>4. /\ v.phase = w.phase /\ v.next = w.next + 1
        /\ v.live = w.live \cup {[index |-> f.item, kind |-> f.itype, parts |-> 0]}
    BY <1>2 DEF ResponseAfter, WireOK
  <2> HIDE DEF t, v
  <2> QED  BY <2>1, <2>2, <2>3, <2>4, ItemAddedKeeps DEF t, v
<1>3. CASE f.type = "part_added"
  <2>1. w.phase = "open" /\ f.block = PartName(f.item, f.part)
    BY <1>3, ResponseShape
  <2>2. PICK x \in w.live : f.item = x.index /\ f.part = x.parts /\ x.kind = "message"
    BY <1>3, ResponseShape
  <2>3. t = PartAdded(f, s)
    BY <1>3 DEF ResponsesDecode
  <2>4. /\ v.phase = w.phase /\ v.next = w.next
        /\ v.live = {IF y.index = f.item /\ y.parts = f.part
                     THEN [y EXCEPT !.parts = f.part + 1] ELSE y : y \in w.live}
    BY <1>3 DEF ResponseAfter, WireOK
  <2> HIDE DEF t, v
  <2>5. PartsKept(b, PartAdded(f, s), v)
    BY <2>1, <2>2, <2>4, PartAddedKeeps
  <2> QED  BY <2>3, <2>5 DEF t, v
<1>4. CASE f.type = "delta"
  <2>1. w.phase = "open" /\ f.block = PartName(f.item, f.part)
    BY <1>4, ResponseShape
  <2>2. f.delta \in Deltas
    BY <1>0, <1>4 DEF ResponsesFrames
  <2>3. t = PartDelta(f, s) /\ v = w
    BY <1>4 DEF ResponsesDecode, ResponseAfter
  <2> HIDE DEF t, v
  <2> QED  BY <2>1, <2>2, <2>3, PartDeltaKeeps DEF t, v
<1>5. CASE f.type = "refusal"
  <2>1. t = [s EXCEPT !.refusal = TRUE] /\ v = w
    BY <1>5 DEF ResponsesDecode, ResponseAfter
  <2> HIDE DEF t, v
  <2>2. /\ IsDecodeState(t) /\ t.out = s.out /\ t.open = s.open /\ t.started = s.started
        /\ t.terminated = s.terminated /\ t.part_index = s.part_index
    BY <1>s, <2>1, FlagFields
  <2>3. Says(b, t, c)
    BY <2>2, Flagging
  <2>4. PartsRel(w, t, c)
    BY <2>2 DEF PartsRel
  <2> QED  BY <2>1, <2>3, <2>4 DEF PartsKept, t, v
<1>6. CASE f.type = "item_done"
  <2>1. w.phase = "open" /\ f.part = 0 /\ f.block = BlockName(f.item)
    BY <1>6, ResponseShape
  <2>2. PICK x \in w.live : f.item = x.index /\ f.itype = x.kind
    BY <1>6, ResponseShape
  <2>3. t = OutputItemDone(f, s)
    BY <1>6 DEF ResponsesDecode
  <2>4. v.phase = w.phase /\ v.next = w.next /\ v.live = {y \in w.live : y.index # f.item}
    BY <1>6 DEF ResponseAfter, WireOK
  <2> HIDE DEF t, v
  <2>5. PartsKept(b, OutputItemDone(f, s), v)
    BY <2>1, <2>2, <2>4, OutputItemDoneKeeps
  <2> QED  BY <2>3, <2>5 DEF t, v
<1>7. CASE f.type \in {"completed", "incomplete"}
  <2> DEFINE r == IF f.type = "completed" THEN CompletedReason(f, s) ELSE f.reason
  <2>1. w.phase = "open"
    BY <1>7, ResponseShape
  <2>2. t = Terminal(r, f, s)
    BY <1>7 DEF ResponsesDecode
  <2>3. r \in Reasons
    <3>1. f.reason \in Reasons
      BY <1>0, <1>7 DEF ResponsesFrames
    <3> QED  BY <3>1 DEF CompletedReason, Reasons
  <2>4. v.phase = "over"
    BY <1>7 DEF ResponseAfter, Over, WireOK
  <2> HIDE DEF t, v, r
  <2>5. c.started = TRUE /\ c.verdict = "none"
    BY <2>1 DEF PartsRel
  <2>6. PICK d : Says(b, t, d) /\ d.verdict # "none"
    BY <2>2, <2>3, <2>5, TerminalSays
  <2>7. PartsRel(v, t, d)
    BY <2>4, <2>6 DEF PartsRel
  <2> QED  BY <2>6, <2>7 DEF PartsKept, t, v
<1>8. CASE f.type = "failed"
  <2>1. t = Emit(s, Error(f.kind)) /\ v = Failed(w)
    BY <1>8 DEF ResponsesDecode, ResponseAfter
  <2>2. f.kind \in ErrorKinds
    BY <1>0, <1>8 DEF ResponsesFrames
  <2>3. v.phase = "failed" /\ v.next = w.next /\ v.live = w.live
    BY <2>1 DEF Failed, WireOK
  <2> HIDE DEF t, v
  <2> QED  BY <2>1, <2>2, <2>3, PartsErring DEF t, v
<1> QED  BY <1>0, <1>1, <1>2, <1>3, <1>4, <1>5, <1>6, <1>7, <1>8 DEF ResponsesFrames

(***************************************************************************)
(* Any dialect.                                                            *)
(***************************************************************************)
\* What the consumer will have been told agrees with the decoder and the provider.
Agrees(d, w, s, c) ==
    /\ d \in {"openai", "google", "ollama"} => LazyRel(w, s, c)
    /\ d \in {"anthropic", "claude"} => NumberedRel(w, s, c)
    /\ d = "responses" => PartsRel(w, s, c)

\* A stream that has ended for the decoder has a verdict or an error.
LEMMA TerminatedIsSettled ==
    \A d \in Dialects : \A w, s, c : Agrees(d, w, s, c) /\ s.terminated => Settled(c)
  BY DEF Agrees, Dialects, LazyRel, NumberedRel, PartsRel, Settled

\* The number of frames sent concerns nobody, nor does the record of a fault.
LEMMA SentIsNothing ==
    \A d, w, s, c : \A v :
        /\ v.phase = w.phase /\ v.next = w.next /\ v.live = w.live
        => (Agrees(d, w, s, c) => Agrees(d, v, s, c))
<1> TAKE d, w, s, c
<1> TAKE v
<1> HAVE v.phase = w.phase /\ v.next = w.next /\ v.live = w.live
<1>1. LazyRel(w, s, c) => LazyRel(v, s, c)
  BY DEF LazyRel
<1>2. NumberedRel(w, s, c) => NumberedRel(v, s, c)
  BY DEF NumberedRel, ByNumber
<1>3. PartsRel(w, s, c) => PartsRel(v, s, c)
  BY DEF PartsRel, Itemized
<1> QED  BY <1>1, <1>2, <1>3 DEF Agrees

LEMMA AnswerKeeps ==
    \A d \in Dialects : \A b, w, s, c : \A f \in Sends(d, w) :
        WireOK(d, w) /\ Says(b, s, c) /\ Agrees(d, w, s, c)
        => \E e : Says(b, DecodeFrame(d, f, s), e) /\ Agrees(d, Answer(d, w, f), DecodeFrame(d, f, s), e)
<1> TAKE d \in Dialects
<1> TAKE b, w, s, c
<1> TAKE f \in Sends(d, w)
<1> HAVE WireOK(d, w) /\ Says(b, s, c) /\ Agrees(d, w, s, c)
<1> DEFINE v == Answer(d, w, f)
           t == DecodeFrame(d, f, s)
<1>1. CASE f.type = "malformed"
  <2>1. t = Emit(s, Error("Transport")) /\ v = [w EXCEPT !.fault = TRUE]
    BY <1>1 DEF DecodeFrame, Answer
  <2>2. v.phase = w.phase /\ v.next = w.next /\ v.live = w.live
    BY <2>1 DEF WireOK
  <2>3. "Transport" \in ErrorKinds
    BY DEF ErrorKinds
  <2> HIDE DEF t, v
  <2>4. CASE d \in {"openai", "google", "ollama"}
    <3>1. LazyKept(b, t, v)
      BY <2>1, <2>2, <2>3, <2>4, LazyErring DEF Agrees
    <3> QED  BY <2>4, <3>1 DEF LazyKept, Agrees, t, v
  <2>5. CASE d \in {"anthropic", "claude"}
    <3>1. NumberedKept(b, t, v)
      BY <2>1, <2>2, <2>3, <2>5, NumberedErring DEF Agrees
    <3> QED  BY <2>5, <3>1 DEF NumberedKept, Agrees, t, v
  <2>6. CASE d = "responses"
    <3>1. PartsKept(b, t, v)
      BY <2>1, <2>2, <2>3, <2>6, PartsErring DEF Agrees
    <3> QED  BY <2>6, <3>1 DEF PartsKept, Agrees, t, v
  <2> QED  BY <2>4, <2>5, <2>6 DEF Dialects
<1>2. CASE f.type # "malformed"
  <2>0. f # Malformed
    BY <1>2 DEF Malformed
  <2>1. CASE d = "openai"
    <3>1. f \in OpenAiFrames(w) /\ t = ChatDecode(f, s) /\ v = OpenAiAfter(w, f)
      BY <1>2, <2>0, <2>1 DEF Sends, DecodeFrame, Answer
    <3> HIDE DEF t, v
    <3>2. LazyKept(b, t, v)
      BY <2>1, <3>1, ChatKeeps DEF Agrees
    <3> QED  BY <2>1, <3>2 DEF LazyKept, Agrees, t, v
  <2>2. CASE d = "google"
    <3>1. f \in GoogleFrames(w) /\ t = GenaiDecode(f, s) /\ v = GoogleAfter(w, f)
      BY <1>2, <2>0, <2>2 DEF Sends, DecodeFrame, Answer
    <3> HIDE DEF t, v
    <3>2. LazyKept(b, t, v)
      BY <2>2, <3>1, GenaiKeeps DEF Agrees
    <3> QED  BY <2>2, <3>2 DEF LazyKept, Agrees, t, v
  <2>3. CASE d = "ollama"
    <3>1. f \in OllamaLines(w) /\ t = OllamaDecode(f, s) /\ v = OllamaAfter(w, f)
      BY <1>2, <2>0, <2>3 DEF Sends, DecodeFrame, Answer
    <3> HIDE DEF t, v
    <3>2. LazyKept(b, t, v)
      BY <2>3, <3>1, OllamaKeeps DEF Agrees
    <3> QED  BY <2>3, <3>2 DEF LazyKept, Agrees, t, v
  <2>4. CASE d = "anthropic"
    <3>1. f \in AnthropicFrames(w) /\ t = MessagesDecode(f, s) /\ v = AnthropicAfter(w, f)
      BY <1>2, <2>0, <2>4 DEF Sends, DecodeFrame, Answer
    <3> HIDE DEF t, v
    <3>2. NumberedKept(b, t, v)
      BY <2>4, <3>1, MessagesKeeps DEF Agrees
    <3> QED  BY <2>4, <3>2 DEF NumberedKept, Agrees, t, v
  <2>5. CASE d = "claude"
    <3>1. f \in ClaudeLines(w) /\ t = ClaudeDecode(f, s) /\ v = ClaudeAfter(w, f)
      BY <1>2, <2>0, <2>5 DEF Sends, DecodeFrame, Answer
    <3> HIDE DEF t, v
    <3>2. NumberedKept(b, t, v)
      BY <2>5, <3>1, ClaudeKeeps DEF Agrees
    <3> QED  BY <2>5, <3>2 DEF NumberedKept, Agrees, t, v
  <2>6. CASE d = "responses"
    <3>1. f \in ResponseFrames(w) /\ t = ResponsesDecode(f, s) /\ v = ResponseAfter(w, f)
      BY <1>2, <2>0, <2>6 DEF Sends, DecodeFrame, Answer
    <3> HIDE DEF t, v
    <3>2. PartsKept(b, t, v)
      BY <2>6, <3>1, ResponsesKeeps DEF Agrees
    <3> QED  BY <2>6, <3>2 DEF PartsKept, Agrees, t, v
  <2> QED  BY <2>1, <2>2, <2>3, <2>4, <2>5, <2>6 DEF Dialects
<1> QED  BY <1>1, <1>2

\* The events that are handed over leave `out`; nothing else looks at it.
LEMMA OutIsNothing ==
    \A d, w, s, t, c :
        SameFlags(s, t) /\ t.open = s.open /\ Agrees(d, w, s, c) => Agrees(d, w, t, c)
<1> TAKE d, w, s, t, c
<1> HAVE SameFlags(s, t) /\ t.open = s.open /\ Agrees(d, w, s, c)
<1>1. LazyRel(w, s, c) => LazyRel(w, t, c)
  BY DEF LazyRel, Lazy, Tools, NextIndex, SameFlags
<1>2. NumberedRel(w, s, c) => NumberedRel(w, t, c)
  BY DEF NumberedRel, SameFlags
<1>3. PartsRel(w, s, c) => PartsRel(w, t, c)
  BY DEF PartsRel, SameFlags
<1> QED  BY <1>1, <1>2, <1>3 DEF Agrees

\* One frame, from the provider's state to its next one.
LEMMA FrameKeeps ==
    \A d \in Dialects : \A b, w, s, c : \A f \in Sends(d, w) :
        WireOK(d, w) /\ Says(b, s, c) /\ Agrees(d, w, s, c)
        => \E e : Says(b, DecodeFrame(d, f, s), e) /\ Agrees(d, After(d, w, f), DecodeFrame(d, f, s), e)
<1> TAKE d \in Dialects
<1> TAKE b, w, s, c
<1> TAKE f \in Sends(d, w)
<1> HAVE WireOK(d, w) /\ Says(b, s, c) /\ Agrees(d, w, s, c)
<1> DEFINE v == Answer(d, w, f)
           a == After(d, w, f)
           t == DecodeFrame(d, f, s)
<1>1. PICK e : Says(b, t, e) /\ Agrees(d, v, t, e)
  BY AnswerKeeps
<1>2. WireOK(d, a)
  BY AfterType
<1>3. a = [v EXCEPT !.sent = v.sent + 1]
  BY DEF After
<1> HIDE DEF v, a, t
<1>4. a.phase = v.phase /\ a.next = v.next /\ a.live = v.live
  BY <1>2, <1>3 DEF WireOK
<1>5. Agrees(d, a, t, e)
  BY <1>1, <1>4, SentIsNothing
<1> QED  BY <1>1, <1>5 DEF a, t

(***************************************************************************)
(* The invariant of the driver.                                            *)
(***************************************************************************)
Client == [started |-> started, blocks |-> blocks, used |-> used, verdict |-> verdict, exit |-> exit]

\* c is what the consumer knows once it has received all that is queued.
Foreseen(c) ==
    /\ Path(Client, pending, c) /\ IsClient(c)
    /\ ~ finished => DOMAIN c.blocks = DOMAIN state.open /\ Agrees(dialect, wire, state, c)
    /\ finished => Settled(c) /\ (state.terminated \/ c.blocks = EmptyFn)

StreamInv == status = "running" => \E c : Foreseen(c)

\* What is decoded is said after what is queued.
LEMMA Decoding ==
    ASSUME TypeOK,
           NEW c, Path(Client, pending, c), NEW t, NEW d, Says(c, t, d), Decoded(t), UNCHANGED client
    PROVE  /\ Path(Client', pending', d)
           /\ IsClient(d)
           /\ DOMAIN d.blocks = DOMAIN state'.open
           /\ state'.open = t.open /\ SameFlags(t, state')
<1>1. IsDecodeState(t) /\ t.out \in Seq(Event) /\ Path(c, t.out, d)
  BY Fields DEF Says
<1>2. state'.open = t.open /\ SameFlags(t, state')
  BY <1>1, Fields DEF Decoded, SameFlags, IsDecodeState
<1>3. Client' = Client
  BY DEF Client, client
<1>4. pending \in Seq(Event) /\ pending' = pending \o t.out
  BY DEF TypeOK, Decoded
<1>5. Path(Client, pending \o t.out, d)
  BY <1>1, <1>4, OneAfterTheOther
<1> QED  BY <1>2, <1>3, <1>4, <1>5 DEF Says

LEMMA InitForeseen == Init => StreamInv
<1> SUFFICES ASSUME Init PROVE Foreseen(Client)
  BY DEF StreamInv
<1>1. /\ started = FALSE /\ blocks = EmptyFn /\ used = {} /\ verdict = "none" /\ exit = 0
      /\ state = Default /\ wire = WireInit /\ pending = <<>> /\ finished = FALSE
  BY DEF Init
<1>2. DOMAIN EmptyFn = {} /\ EmptyFn = [i \in DOMAIN EmptyFn |-> EmptyFn[i]]
  BY DEF EmptyFn
<1>3. /\ state.open = EmptyFn /\ state.tool_index = EmptyFn /\ state.part_index = EmptyFn
      /\ state.started = FALSE /\ state.terminated = FALSE
      /\ wire.phase = "before" /\ wire.next = 0 /\ wire.live = {}
  BY <1>1 DEF Default, WireInit
<1> DEFINE none == EmptyFn
           c == Client
<1>4. /\ c.started = FALSE /\ c.blocks = none /\ c.used = {} /\ c.verdict = "none" /\ c.exit = 0
      /\ c = [started |-> c.started, blocks |-> c.blocks, used |-> c.used,
              verdict |-> c.verdict, exit |-> c.exit]
  BY <1>1 DEF Client
<1>5. DOMAIN none = {} /\ none = [i \in DOMAIN none |-> none[i]] /\ state.open = none
      /\ state.tool_index = none /\ state.part_index = none
  BY <1>2, <1>3
<1>6. Path(c, pending, c)
  BY <1>1, NothingTold
<1>7. Cardinality({}) = 0 /\ 0..(0 - 1) = {}
  BY FS_EmptySet
<1> HIDE DEF none, c
<1>8. IsClient(c)
  BY <1>4, <1>5 DEF IsClient
<1>9. LazyRel(wire, state, c)
  BY <1>3, <1>4, <1>5, <1>7 DEF LazyRel, Lazy, Tools, NextIndex
<1>10. NumberedRel(wire, state, c)
  BY <1>3, <1>4, <1>5 DEF NumberedRel, ByNumber
<1>11. PartsRel(wire, state, c)
  <2>1. Known(state.part_index, c)
    BY <1>4, <1>5 DEF Known
  <2>2. Itemized(wire, state.part_index)
    BY <1>3, <1>5 DEF Itemized
  <2> QED  BY <1>3, <1>4, <2>1, <2>2 DEF PartsRel
<1>12. Agrees(dialect, wire, state, c)
  BY <1>9, <1>10, <1>11 DEF Agrees
<1> QED  BY <1>1, <1>4, <1>5, <1>6, <1>8, <1>12 DEF Foreseen, c

\* While nothing is finished the decoder may say more.
LEMMA Hearing ==
    ASSUME TypeOK, ~ finished, NEW c, Foreseen(c)
    PROVE  Path(Client, pending, c) /\ Says(c, state, c) /\ Agrees(dialect, wire, state, c)
<1>1. IsDecodeState(state) /\ state.out = <<>>
  BY DEF TypeOK
<1>2. Path(c, state.out, c)
  BY <1>1, NothingTold
<1> QED  BY <1>1, <1>2 DEF Foreseen, Says

\* A stream that is cut short is told to have failed, and leaves nothing open.
LEMMA CuttingShort ==
    ASSUME NEW b, NEW s, NEW c, Says(b, s, c), NEW n \in Nat
    PROVE  \E d : /\ Says(b, Emit(Drain(s), ErrorWith("Transport", n)), d)
                  /\ Settled(d) /\ d.blocks = EmptyFn
<1>1. PICK e : Says(b, Drain(s), e) /\ e.blocks = EmptyFn
  BY Draining
<1>2. "Transport" \in ErrorKinds
  BY DEF ErrorKinds
<1>3. PICK d : /\ Says(b, Emit(Drain(s), ErrorWith("Transport", n)), d) /\ d.exit # 0
               /\ d.blocks = e.blocks
  BY <1>1, <1>2, Erring
<1> QED  BY <1>1, <1>3 DEF Settled

\* What was decoded last settles the matter.
LEMMA LastDecoded ==
    ASSUME TypeOK, NEW c, Path(Client, pending, c), NEW t, NEW d, Says(c, t, d), Settled(d),
           t.terminated \/ d.blocks = EmptyFn,
           Decoded(t), UNCHANGED client, finished' = TRUE
    PROVE  StreamInv'
<1>1. Path(Client', pending', d) /\ IsClient(d) /\ state'.terminated = t.terminated
  BY Decoding DEF SameFlags
<1>2. Foreseen(d)'
  BY <1>1 DEF Foreseen
<1> QED  BY <1>2 DEF StreamInv

LEMMA ReadFrameForesees ==
    ASSUME TypeOK, StreamInv, reading => ~ finished, ReadFrame
    PROVE  StreamInv'
<1>1. UNCHANGED client /\ status' = status /\ ~ finished /\ ~ finished' /\ dialect' = dialect
  BY DEF ReadFrame, client
<1>2. PICK f \in Sends(dialect, wire) :
          Decoded(DecodeFrame(dialect, f, state)) /\ wire' = After(dialect, wire, f)
  BY DEF ReadFrame
<1> SUFFICES ASSUME status = "running" PROVE \E d : Foreseen(d)'
  BY <1>1 DEF StreamInv
<1>3. PICK c : Foreseen(c)
  BY DEF StreamInv
<1>4. Path(Client, pending, c) /\ Says(c, state, c) /\ Agrees(dialect, wire, state, c)
  BY <1>1, <1>3, Hearing
<1>5. dialect \in Dialects /\ WireOK(dialect, wire)
  BY SentIsDialect DEF TypeOK
<1> DEFINE t == DecodeFrame(dialect, f, state)
<1>6. PICK d : Says(c, t, d) /\ Agrees(dialect, wire', t, d)
  BY <1>2, <1>4, <1>5, FrameKeeps
<1>7. Decoded(t)
  BY <1>2
<1> HIDE DEF t
<1>8. /\ Path(Client', pending', d) /\ IsClient(d) /\ DOMAIN d.blocks = DOMAIN state'.open
      /\ state'.open = t.open /\ SameFlags(t, state')
  BY <1>1, <1>4, <1>6, <1>7, Decoding
<1>9. Agrees(dialect', wire', state', d)
  BY <1>1, <1>6, <1>8, OutIsNothing
<1>10. Foreseen(d)'
  BY <1>1, <1>8, <1>9 DEF Foreseen
<1> QED  BY <1>10

LEMMA DropForesees ==
    ASSUME TypeOK, StreamInv, Drop
    PROVE  StreamInv'
<1>1. /\ UNCHANGED client /\ status = "running" /\ ~ finished /\ finished' = TRUE
      /\ Decoded(Emit(Drain(state), ErrorWith("Transport", 0)))
  BY DEF Drop, AtBody, Error
<1>2. PICK c : Foreseen(c)
  BY <1>1 DEF StreamInv
<1>3. Path(Client, pending, c) /\ Says(c, state, c)
  BY <1>1, <1>2, Hearing
<1>4. PICK d : /\ Says(c, Emit(Drain(state), ErrorWith("Transport", 0)), d)
               /\ Settled(d) /\ d.blocks = EmptyFn
  BY <1>3, CuttingShort
<1> QED  BY <1>1, <1>3, <1>4, LastDecoded

LEMMA FlushForesees ==
    ASSUME TypeOK, StreamInv, FlushAtEof
    PROVE  StreamInv'
<1>1. UNCHANGED client /\ status = "running" /\ ~ finished /\ finished' = TRUE
  BY DEF FlushAtEof, AtBody
<1>2. PICK c : Foreseen(c)
  BY <1>1 DEF StreamInv
<1>3. Path(Client, pending, c) /\ Says(c, state, c) /\ Agrees(dialect, wire, state, c)
  BY <1>1, <1>2, Hearing
<1>4. dialect \in Dialects /\ WireOK(dialect, wire) /\ head \in Nat
  BY SentIsDialect, StreamAssumption DEF TypeOK
<1>5. ASSUME NEW w, NEW s, NEW e, NEW seen, NEW n \in Nat,
             Says(c, s, e), Agrees(dialect, w, s, e), Decoded(AtEof(s, seen, n))
      PROVE  StreamInv'
  <2>1. CASE s.terminated
    <3>1. Settled(e)
      BY <1>4, <1>5, <2>1, TerminatedIsSettled
    <3>2. Decoded(s)
      BY <1>5, <2>1 DEF AtEof
    <3> QED  BY <1>1, <1>3, <1>5, <2>1, <3>1, <3>2, LastDecoded
  <2>2. CASE ~ s.terminated
    <3> DEFINE m == IF seen THEN 0 ELSE n
    <3>1. Decoded(Emit(Drain(s), ErrorWith("Transport", m))) /\ m \in Nat
      BY <1>5, <2>2 DEF AtEof, PrematureEof
    <3> HIDE DEF m
    <3>2. PICK d : /\ Says(c, Emit(Drain(s), ErrorWith("Transport", m)), d)
                 /\ Settled(d) /\ d.blocks = EmptyFn
      BY <1>5, <3>1, CuttingShort
    <3> QED  BY <1>1, <1>3, <3>1, <3>2, LastDecoded
  <2> QED  BY <2>1, <2>2
<1>6. CASE Decoded(AtEof(state, saw_frame, head))
  BY <1>3, <1>4, <1>5, <1>6
<1>7. CASE \E f \in Sends(dialect, wire) : Decoded(AtEof(DecodeFrame(dialect, f, state), TRUE, 0))
  <2>1. PICK f \in Sends(dialect, wire) : Decoded(AtEof(DecodeFrame(dialect, f, state), TRUE, 0))
    BY <1>7
  <2> DEFINE s == DecodeFrame(dialect, f, state)
             w == After(dialect, wire, f)
  <2>2. PICK e : Says(c, s, e) /\ Agrees(dialect, w, s, e)
    BY <1>3, <1>4, FrameKeeps
  <2>3. Decoded(AtEof(s, TRUE, 0))
    BY <2>1
  <2> HIDE DEF s, w
  <2> QED  BY <1>5, <2>2, <2>3
<1> QED  BY <1>6, <1>7 DEF FlushAtEof

LEMMA YieldForesees ==
    ASSUME TypeOK, StreamInv, Yield
    PROVE  StreamInv'
<1>1. CASE WriteFails
  BY <1>1 DEF WriteFails, StreamInv
<1>2. CASE Pump(Head(pending)) /\ UNCHANGED status
  <2> DEFINE e == Head(pending)
  <2>1. /\ status = "running" /\ pending # <<>> /\ pending \in Seq(Event) /\ pending' = Tail(pending)
        /\ UNCHANGED <<dialect, wire, state, finished>>
    BY DEF Yield, TypeOK
  <2>2. PICK c : Foreseen(c)
    BY <2>1 DEF StreamInv
  <2>3. Path(Told(Client, e), Tail(pending), c)
    BY <2>1, <2>2, TheNext DEF Foreseen
  <2>4. Client' = Told(Client, e)
    BY <1>2 DEF Pump, Observe, Told, Client
  <2>5. Foreseen(c)'
    BY <2>1, <2>2, <2>3, <2>4 DEF Foreseen
  <2> QED  BY <2>5 DEF StreamInv
<1> QED  BY <1>1, <1>2 DEF Yield

\* Each step keeps StreamInv.
LEMMA NextForesees ==
    ASSUME TypeOK, TruncationInv, StreamInv, [Next]_vars
    PROVE  StreamInv'
<1>1. ASSUME UNCHANGED <<dialect, wire, state, pending, finished, client>> PROVE StreamInv'
  <2>1. UNCHANGED <<Client, status>>
    BY <1>1 DEF Client, client
  <2>2. \A c : Foreseen(c) => Foreseen(c)'
    BY <1>1, <2>1 DEF Foreseen
  <2> QED  BY <2>1, <2>2 DEF StreamInv
<1>2. CASE PullChunk
  BY <1>1, <1>2 DEF PullChunk
<1>3. CASE ReadFrame
  BY <1>3, ReadFrameForesees DEF TruncationInv
<1>4. CASE ChunkRead
  BY <1>1, <1>4 DEF ChunkRead
<1>5. CASE Drop
  BY <1>5, DropForesees
<1>6. CASE BodyEnd
  BY <1>1, <1>6 DEF BodyEnd
<1>7. CASE FlushAtEof
  BY <1>7, FlushForesees
<1>8. CASE Yield
  BY <1>8, YieldForesees
<1>9. CASE YieldEnd
  BY <1>9 DEF YieldEnd, WriteFails, StreamInv
<1>10. CASE UNCHANGED vars
  BY <1>1, <1>10 DEF vars, driver
<1> QED  BY <1>2, <1>3, <1>4, <1>5, <1>6, <1>7, <1>8, <1>9, <1>10 DEF Next, Done

LEMMA StreamInvHolds == Spec => []StreamInv
<1>1. TypeOK /\ TruncationInv /\ StreamInv /\ [Next]_vars => StreamInv'
  BY NextForesees
<1> QED  BY <1>1, InitForeseen, TypeCorrect, TruncationInvHolds, PTL DEF Spec

(***************************************************************************)
(* The refinement.                                                         *)
(***************************************************************************)
\* The vocabulary of the abstract specification is that of the driver.
LEMMA SameWords ==
    /\ Abstract!EmptyFn = EmptyFn /\ Abstract!MessageStart = MessageStart
    /\ Abstract!Usage = Usage /\ Abstract!End = End
    /\ Abstract!ExitOf = ExitOf /\ Abstract!WriteExits = WriteExits
  BY DEF Abstract!EmptyFn, EmptyFn, Abstract!MessageStart, MessageStart, Abstract!Usage, Usage,
         Abstract!End, End, Abstract!ExitOf, ExitOf, Abstract!ErrorKinds, ErrorKinds,
         Abstract!WriteExits, WriteExits

\* A failed write ends the run.
LEMMA BreakingIsAbstract ==
    ASSUME status = "running", WriteFails
    PROVE  Abstract!Next
  BY SameWords DEF WriteFails, Abstract!Next, Abstract!Broken

\* An event that may be told is an event that is delivered.
LEMMA YieldIsAbstract ==
    ASSUME TypeOK, StreamInv, Yield
    PROVE  Abstract!Next
<1>1. /\ status = "running" /\ pending # <<>> /\ pending \in Seq(Event)
  BY DEF Yield, TypeOK
<1>2. CASE WriteFails
  BY <1>1, <1>2, BreakingIsAbstract
<1>3. CASE Pump(Head(pending)) /\ UNCHANGED status
  <2> DEFINE e == Head(pending)
  <2>1. PICK c : Foreseen(c)
    BY <1>1 DEF StreamInv
  <2>2. Legal(Client, e) /\ e \in Event
    BY <1>1, <2>1, TheNext DEF Foreseen
  <2>3. /\ event' = e /\ started' = (started \/ e.type = "MessageStart")
        /\ blocks' = CASE e.type = "ContentStart" -> Insert(blocks, e.index, e.block)
                       [] e.type = "ContentStop"  -> Remove(blocks, e.index)
                       [] OTHER                   -> blocks
        /\ used' = (IF e.type = "ContentStart" THEN used \cup {e.index} ELSE used)
        /\ verdict' = (IF e.type = "Finish" THEN e.reason ELSE verdict)
        /\ exit' = (IF e.type = "Error" THEN ExitOf[e.kind] ELSE exit)
        /\ status' = status
    BY <1>3 DEF Pump, Observe
  <2> HIDE DEF e
  <2>4. e.type # "MessageStart" => started' = started
    <3>1. started \in BOOLEAN
      BY DEF TypeOK
    <3> QED  BY <2>3, <3>1, Zenon
  <2>5. Abstract!Deliver(e)
    <3>1. CASE e.type = "MessageStart"
      <4>1. e = MessageStart /\ ~ started /\ started' = TRUE
        <5>1. e = MessageStart
          BY <2>2, <3>1 DEF Event, MessageStart
        <5>2. ~ started
          BY <2>2, <3>1 DEF Legal, Client
        <5>3. started' = TRUE
          BY <2>3, <3>1
        <5> QED  BY <5>1, <5>2, <5>3
      <4>2. Abstract!Start(e)
        BY <2>3, <3>1, <4>1, SameWords DEF Abstract!Start
      <4> QED  BY <2>3, <4>2 DEF Abstract!Deliver
    <3>2. CASE e.type = "ContentStart"
      <4>1. started /\ verdict = "none" /\ e.index \notin used
        BY <2>2, <3>2 DEF Legal, Client
      <4>2. Abstract!Open(e)
        BY <2>3, <2>4, <3>2, <4>1 DEF Abstract!Open, Insert
      <4> QED  BY <2>3, <4>2 DEF Abstract!Deliver
    <3>3. CASE e.type = "ContentDelta"
      <4>1. e.index \in DOMAIN blocks /\ e.block = blocks[e.index]
        BY <2>2, <3>3 DEF Legal, Client
      <4>2. Abstract!Fragment(e)
        BY <2>3, <2>4, <3>3, <4>1 DEF Abstract!Fragment
      <4> QED  BY <2>3, <4>2 DEF Abstract!Deliver
    <3>4. CASE e.type = "ContentStop"
      <4>1. e.index \in DOMAIN blocks
        BY <2>2, <3>4 DEF Legal, Client
      <4>2. Abstract!Stop(e)
        BY <2>3, <2>4, <3>4, <4>1 DEF Abstract!Stop, Remove
      <4> QED  BY <2>3, <4>2 DEF Abstract!Deliver
    <3>5. CASE e.type = "Usage"
      <4>1. e = Usage /\ started
        <5>1. e = Usage
          BY <2>2, <3>5 DEF Event, Usage
        <5> QED  BY <2>2, <3>5, <5>1 DEF Legal, Client
      <4>2. Abstract!Count(e)
        BY <2>3, <2>4, <3>5, <4>1, SameWords DEF Abstract!Count
      <4> QED  BY <2>3, <4>2 DEF Abstract!Deliver
    <3>6. CASE e.type = "Finish"
      <4>1. started /\ verdict = "none" /\ blocks = EmptyFn
        BY <2>2, <3>6 DEF Legal, Client
      <4>2. Abstract!Verdict(e)
        BY <2>3, <2>4, <3>6, <4>1, SameWords DEF Abstract!Verdict
      <4> QED  BY <2>3, <4>2 DEF Abstract!Deliver
    <3>7. CASE e.type = "Error"
      <4>1. Abstract!Fail(e)
        BY <2>3, <2>4, <3>7, SameWords DEF Abstract!Fail
      <4> QED  BY <2>3, <4>1 DEF Abstract!Deliver
    <3>8. e.type \in {"MessageStart", "ContentStart", "ContentDelta", "ContentStop",
                      "Usage", "Finish", "Error"}
      BY <2>2 DEF Legal
    <3> QED  BY <3>1, <3>2, <3>3, <3>4, <3>5, <3>6, <3>7, <3>8
  <2> QED  BY <1>1, <2>3, <2>5 DEF Abstract!Next
<1> QED  BY <1>2, <1>3 DEF Yield

\* The End comes when the matter is settled and nothing is queued.
LEMMA EndIsAbstract ==
    ASSUME TypeOK, StreamInv, YieldEnd
    PROVE  Abstract!Next
<1>1. status = "running" /\ pending = <<>> /\ finished
  BY DEF YieldEnd
<1>2. CASE WriteFails
  BY <1>1, <1>2, BreakingIsAbstract
<1>3. CASE Pump(End) /\ status' = "ended"
  <2>1. PICK c : Foreseen(c)
    BY <1>1 DEF StreamInv
  <2>2. Settled(c) /\ Path(Client, <<>>, c)
    BY <1>1, <2>1 DEF Foreseen
  <2>3. c = Client
    BY <2>2, NothingAhead
  <2>4. verdict # "none" \/ exit # 0
    BY <2>2, <2>3 DEF Settled, Client
  <2>5. /\ event' = End /\ blocks' = blocks /\ used' = used /\ verdict' = verdict /\ exit' = exit
    BY <1>3 DEF Pump, Observe, End
  <2>6. started' = started
    <3>1. started \in BOOLEAN
      BY DEF TypeOK
    <3>2. started' = (started \/ End.type = "MessageStart") /\ End.type # "MessageStart"
      BY <1>3 DEF Pump, Observe, End
    <3> QED  BY <3>1, <3>2, Zenon
  <2>7. Abstract!Finished
    BY <1>3, <2>4, <2>5, <2>6, SameWords DEF Abstract!Finished
  <2> QED  BY <1>1, <2>7 DEF Abstract!Next
<1> QED  BY <1>2, <1>3 DEF YieldEnd

\* What the consumer of brazen's output is given is a canonical stream, for every dialect,
\* whatever the provider sends and wherever its answer ends.
THEOREM ImplementsCanonicalStream == Spec => IsCanonicalStream
<1>1. Init => Abstract!Init
  BY SameWords DEF Init, Abstract!Init
<1>2. TypeOK /\ StreamInv /\ [Next]_vars => [Abstract!Next]_(Abstract!vars)
  <2> SUFFICES ASSUME TypeOK, StreamInv, [Next]_vars PROVE [Abstract!Next]_(Abstract!vars)
    OBVIOUS
  <2>1. UNCHANGED client => UNCHANGED Abstract!vars
    BY DEF client, Abstract!vars
  <2>2. CASE PullChunk \/ ReadFrame \/ ChunkRead \/ Drop \/ BodyEnd \/ FlushAtEof
    BY <2>1, <2>2 DEF PullChunk, ReadFrame, ChunkRead, Drop, BodyEnd, FlushAtEof
  <2>3. CASE Yield
    BY <2>3, YieldIsAbstract
  <2>4. CASE YieldEnd
    BY <2>4, EndIsAbstract
  <2>5. CASE UNCHANGED vars
    BY <2>1, <2>5 DEF vars
  <2> QED  BY <2>2, <2>3, <2>4, <2>5 DEF Next, Done
<1> QED  BY <1>1, <1>2, TypeCorrect, StreamInvHolds, PTL DEF Spec, IsCanonicalStream, Abstract!Spec

(***************************************************************************)
(* What the decoders may say.  An error or a verdict means something, the  *)
(* other events are Plain; S is a set of events that may be said.          *)
(***************************************************************************)
Plain == {e \in Event : e.type \notin {"Error", "Finish"}}

Speaks(s, S) == IsDecodeState(s) /\ s.out \in Seq(S) /\ Plain \subseteq S /\ S \subseteq Event

\* The constructors of plain events.
LEMMA PlainEvents ==
    /\ MessageStart \in Plain /\ Usage \in Plain /\ End \in Plain
    /\ \A i \in Nat, k \in Kinds, b \in Pieces : ContentStart(i, k, b) \in Plain
    /\ \A i \in Nat, d \in Deltas, b \in Pieces : ContentDelta(i, d, b) \in Plain
    /\ \A i \in Nat : ContentStop(i) \in Plain
  BY EventTypes DEF Plain, MessageStart, Usage, End, ContentStart, ContentDelta, ContentStop

\* One event more.
LEMMA SpeaksOnce ==
    ASSUME NEW S, NEW s, Speaks(s, S), NEW e \in S
    PROVE  LET t == Emit(s, e)
           IN  Speaks(t, S) /\ t.terminated = s.terminated /\ t.open = s.open
<1>1. IsDecodeState(Emit(s, e)) /\ Emit(s, e).out = Append(s.out, e) /\ Emit(s, e).open = s.open
      /\ Emit(s, e).terminated = s.terminated
  BY EmitType, EmitFields DEF Speaks, SameFlags
<1>2. Append(s.out, e) \in Seq(S)
  BY DEF Speaks
<1> QED  BY <1>1, <1>2 DEF Speaks

\* Only the flags differ.
LEMMA SpeaksFlag ==
    ASSUME NEW S, NEW s, Speaks(s, S)
    PROVE  /\ LET t == [s EXCEPT !.started = TRUE]
              IN  Speaks(t, S) /\ t.terminated = s.terminated /\ t.open = s.open
           /\ LET t == [s EXCEPT !.terminated = TRUE]
              IN  Speaks(t, S) /\ t.terminated = TRUE /\ t.open = s.open
           /\ \A r \in BOOLEAN : LET t == [s EXCEPT !.refusal = r]
              IN  Speaks(t, S) /\ t.terminated = s.terminated /\ t.open = s.open
           /\ \A r \in BOOLEAN : LET t == [s EXCEPT !.error_tag = r]
              IN  Speaks(t, S) /\ t.terminated = s.terminated /\ t.open = s.open
  BY FlagFields DEF Speaks

\* A block is opened.
LEMMA SpeaksOpening ==
    ASSUME NEW S, NEW s, Speaks(s, S), NEW i \in Nat, NEW k \in Kinds, NEW b \in Pieces
    PROVE  LET t == OpenBlock(s, i, k, b)
           IN  Speaks(t, S) /\ t.terminated = s.terminated /\ t.open = Insert(s.open, i, k)
<1> DEFINE t == OpenBlock(s, i, k, b)
<1>1. ContentStart(i, k, b) \in S
  BY PlainEvents DEF Speaks
<1>2. t.out = Append(s.out, ContentStart(i, k, b)) /\ t.terminated = s.terminated
      /\ t.open = Insert(s.open, i, k)
  BY OpenBlockFields DEF Speaks, SameFlags
<1>3. IsDecodeState(t)
  BY OpenBlockType DEF Speaks
<1> HIDE DEF t
<1>4. t.out \in Seq(S)
  BY <1>1, <1>2 DEF Speaks
<1>5. Speaks(t, S)
  BY <1>3, <1>4 DEF Speaks
<1> QED  BY <1>2, <1>5 DEF t

\* The message is started.
LEMMA SpeaksStart ==
    ASSUME NEW S, NEW s, Speaks(s, S)
    PROVE  LET t == StartMessage(s)
           IN  Speaks(t, S) /\ t.terminated = s.terminated /\ t.open = s.open
<1> DEFINE u == [s EXCEPT !.started = TRUE]
<1>1. Speaks(u, S) /\ u.terminated = s.terminated /\ u.open = s.open
  BY SpeaksFlag
<1>2. MessageStart \in S
  BY PlainEvents DEF Speaks
<1>3. StartMessage(s) = s \/ StartMessage(s) = Emit(u, MessageStart)
  BY DEF StartMessage
<1> HIDE DEF u
<1> QED  BY <1>1, <1>2, <1>3, SpeaksOnce

\* A fragment of a lazy block opens that block at most.
LEMMA SpeaksLazily ==
    ASSUME NEW S, NEW s, Speaks(s, S), NEW k \in Kinds, NEW d \in Deltas
    PROVE  LET t == LazyDelta(s, k, d)
           IN  /\ Speaks(t, S) /\ t.terminated = s.terminated
               /\ t.open = s.open \/ t.open = Insert(s.open, NextIndex(s), k)
<1> DEFINE u == OpenLazy(s, k)
           i == CHOOSE x \in OpenOf(u, k) : TRUE
<1>0. k \in Pieces /\ NextIndex(s) \in Nat /\ IsDecodeState(s)
  BY NextIndexType DEF Pieces, Speaks
<1>1. /\ Speaks(u, S) /\ u.terminated = s.terminated
      /\ u.open = s.open \/ u.open = Insert(s.open, NextIndex(s), k)
  BY <1>0, SpeaksOpening DEF OpenLazy
<1>2. OpenOf(u, k) # {}
  <2>1. CASE OpenOf(s, k) = {}
    <3>1. u = OpenBlock(s, NextIndex(s), k, k)
      BY <2>1 DEF OpenLazy
    <3>2. u.open = Insert(s.open, NextIndex(s), k)
      BY <1>0, <3>1, OpenBlockFields
    <3>3. NextIndex(s) \in OpenOf(u, k)
      BY <3>2 DEF OpenOf, Insert
    <3> QED  BY <3>3
  <2>2. CASE OpenOf(s, k) # {}
    BY <2>2 DEF OpenLazy
  <2> QED  BY <2>1, <2>2
<1>3. i \in Nat
  BY <1>1, <1>2, Fields DEF OpenOf, IsPartialFn, Speaks
<1> HIDE DEF u
<1>4. ContentDelta(i, d, k) \in S
  BY <1>0, <1>3, PlainEvents DEF Speaks
<1>5. LazyDelta(s, k, d) = Emit(u, ContentDelta(i, d, k))
  BY DEF LazyDelta, u
<1> HIDE DEF i
<1> QED  BY <1>1, <1>4, <1>5, SpeaksOnce

\* Every open block is stopped.
LEMMA SpeaksDraining ==
    ASSUME NEW S, NEW s, Speaks(s, S)
    PROVE  LET t == Drain(s)
           IN  Speaks(t, S) /\ t.terminated = s.terminated
<1> DEFINE q == Stops(DOMAIN s.open)
           none == EmptyFn
           t == Drain(s)
<1>1. IsDecodeState(s) /\ DOMAIN s.open \in SUBSET Nat /\ IsFiniteSet(DOMAIN s.open)
  BY Fields DEF Speaks, IsPartialFn
<1>2. q \in [1..Cardinality(DOMAIN s.open) -> S]
  BY <1>1, AscendingType, PlainEvents DEF Stops, Speaks
<1>3. q \in Seq(S)
  BY <1>1, <1>2, AscendingType
<1>4. t = [s EXCEPT !.open = none, !.out = s.out \o q]
  BY DEF Drain
<1>5. IsDecodeState(t)
  BY <1>1, DrainType
<1> HIDE DEF q, none, t
<1>6. t.out = s.out \o q /\ t.terminated = s.terminated
  BY <1>1, <1>4, Fields
<1>7. t.out \in Seq(S)
  BY <1>3, <1>6 DEF Speaks
<1>8. Speaks(t, S)
  BY <1>5, <1>7 DEF Speaks
<1> QED  BY <1>6, <1>8 DEF t

\* Blocks are numbered from 0 as they open, and `tool` is whether one of them is a call.
Calls(s, tool) ==
    /\ \A i \in DOMAIN s.open : i < NextIndex(s)
    /\ tool <=> OpenOf(s, "ToolUse") # {}

\* The next block is a call, or it is none.
LEMMA CallsGrow ==
    ASSUME NEW s, IsDecodeState(s), NEW tool, Calls(s, tool), NEW k \in Kinds,
           NEW t, t.open = Insert(s.open, NextIndex(s), k), NEW more, more <=> tool \/ k = "ToolUse"
    PROVE  Calls(t, more)
<1> DEFINE i == NextIndex(s)
           D == DOMAIN s.open
<1>1. i \in Nat /\ IsFiniteSet(D) /\ D \subseteq Nat /\ i = Cardinality(D)
  BY NextIndexType, Fields DEF IsPartialFn, NextIndex
<1>2. i \notin D
  BY <1>1 DEF Calls
<1>3. DOMAIN t.open = D \cup {i} /\ \A x \in D : t.open[x] = s.open[x]
  BY <1>2 DEF Insert
<1>4. t.open[i] = k
  BY DEF Insert
<1>5. NextIndex(t) = i + 1
  BY <1>1, <1>2, <1>3, FS_AddElement DEF NextIndex
<1>6. \A x \in DOMAIN t.open : x < NextIndex(t)
  BY <1>1, <1>3, <1>5 DEF Calls
<1>7. OpenOf(t, "ToolUse") # {} <=> OpenOf(s, "ToolUse") # {} \/ k = "ToolUse"
  BY <1>3, <1>4 DEF OpenOf
<1> QED  BY <1>6, <1>7 DEF Calls

\* Nothing is opened.
LEMMA CallsStay ==
    ASSUME NEW s, NEW t, t.open = s.open, NEW tool, Calls(s, tool)
    PROVE  Calls(t, tool)
  BY DEF Calls, NextIndex, OpenOf

\* Fragments of the lazy blocks are no calls.
LEMMA SpeaksText ==
    ASSUME NEW S, NEW s, Speaks(s, S)
    PROVE  /\ LET t == LazyDelta(s, "Text", "TextDelta")
              IN  /\ Speaks(t, S) /\ t.terminated = s.terminated
                  /\ \A tool : Calls(s, tool) => Calls(t, tool)
           /\ LET t == LazyDelta(s, "Thinking", "ThinkingDelta")
              IN  /\ Speaks(t, S) /\ t.terminated = s.terminated
                  /\ \A tool : Calls(s, tool) => Calls(t, tool)
<1>1. ASSUME NEW k \in {"Text", "Thinking"}, NEW d \in Deltas
      PROVE  LET t == LazyDelta(s, k, d)
             IN  /\ Speaks(t, S) /\ t.terminated = s.terminated
                 /\ \A tool : Calls(s, tool) => Calls(t, tool)
  <2> DEFINE t == LazyDelta(s, k, d)
  <2>1. k \in Kinds /\ k # "ToolUse"
    BY DEF Kinds
  <2>2. /\ Speaks(t, S) /\ t.terminated = s.terminated
        /\ t.open = s.open \/ t.open = Insert(s.open, NextIndex(s), k)
    BY <2>1, SpeaksLazily
  <2> HIDE DEF t
  <2>3. ASSUME NEW tool, Calls(s, tool) PROVE Calls(t, tool)
    BY <2>1, <2>2, <2>3, CallsGrow, CallsStay DEF Speaks
  <2> QED  BY <2>2, <2>3 DEF t
<1>2. "TextDelta" \in Deltas /\ "ThinkingDelta" \in Deltas
  BY DEF Deltas
<1> QED  BY <1>1, <1>2

\* A whole block and its first fragment.
LEMMA SpeaksWhole ==
    ASSUME NEW S, NEW s, Speaks(s, S), NEW k \in Kinds, NEW d \in Deltas, NEW b \in Pieces
    PROVE  LET t == Emit(OpenBlock(s, NextIndex(s), k, b), ContentDelta(NextIndex(s), d, b))
           IN  /\ Speaks(t, S) /\ t.terminated = s.terminated
               /\ \A tool, more : Calls(s, tool) /\ (more <=> tool \/ k = "ToolUse") => Calls(t, more)
<1> DEFINE i == NextIndex(s)
           u == OpenBlock(s, i, k, b)
           t == Emit(u, ContentDelta(i, d, b))
<1>1. i \in Nat /\ IsDecodeState(s)
  BY NextIndexType DEF Speaks
<1>2. Speaks(u, S) /\ u.terminated = s.terminated /\ u.open = Insert(s.open, i, k)
  BY <1>1, SpeaksOpening
<1>3. ContentDelta(i, d, b) \in S
  BY <1>1, PlainEvents DEF Speaks
<1> HIDE DEF u
<1>4. Speaks(t, S) /\ t.terminated = u.terminated /\ t.open = u.open
  BY <1>2, <1>3, SpeaksOnce
<1> HIDE DEF t
<1>5. ASSUME NEW tool, NEW more, Calls(s, tool), more <=> tool \/ k = "ToolUse" PROVE Calls(t, more)
  BY <1>1, <1>2, <1>4, <1>5, CallsGrow
<1> QED  BY <1>2, <1>4, <1>5 DEF t, u

(***************************************************************************)
(* OpenAI chat completions.                                                *)
(***************************************************************************)
AllVerdicts == {Finish(r) : r \in Reasons}

\* A piece of a call opens the call's block or continues it.
LEMMA ToolCallSpeaks ==
    ASSUME NEW S, NEW s, Speaks(s, S), NEW f, f.tool \in Nat, f.block \in Pieces
    PROVE  Speaks(ToolCall(f, s), S) /\ ToolCall(f, s).terminated = s.terminated
<1> DEFINE i == NextIndex(s)
           u == [s EXCEPT !.tool_index = Insert(s.tool_index, f.tool, i)]
           t == IF f.tool \in DOMAIN s.tool_index THEN s ELSE OpenBlock(u, i, "ToolUse", f.block)
<1>1. IsDecodeState(s) /\ i \in Nat /\ "ToolUse" \in Kinds /\ "JsonDelta" \in Deltas
  BY NextIndexType DEF Speaks, Kinds, Deltas
<1>2. IsPartialFn(Insert(s.tool_index, f.tool, i), Nat, Nat)
  BY <1>1, Fields, InsertType
<1>3. IsDecodeState(u) /\ u.out = s.out /\ u.terminated = s.terminated
  BY <1>1, <1>2 DEF IsDecodeState
<1>4. u.tool_index = Insert(s.tool_index, f.tool, i)
  BY <1>1, Fields
<1> HIDE DEF u
<1>5. Speaks(u, S)
  BY <1>3 DEF Speaks
<1>6. ToolCall(f, s) = IF f.args THEN Emit(t, ContentDelta(t.tool_index[f.tool], "JsonDelta", f.block)) ELSE t
  BY DEF ToolCall, u
<1>7. f.tool \in DOMAIN t.tool_index
  <2>1. CASE f.tool \notin DOMAIN s.tool_index
    <3>1. t = OpenBlock(u, i, "ToolUse", f.block)
      BY <2>1
    <3>2. OpenBlock(u, i, "ToolUse", f.block).tool_index = u.tool_index
      BY <1>3, OpenBlockFields DEF SameFlags
    <3> HIDE DEF t
    <3> QED  BY <1>4, <3>1, <3>2 DEF Insert
  <2> QED  BY <2>1
<1>8. Speaks(t, S) /\ t.terminated = s.terminated
  BY <1>1, <1>3, <1>5, SpeaksOpening
<1> HIDE DEF t
<1>9. t.tool_index[f.tool] \in Nat
  BY <1>7, <1>8, Fields DEF Speaks, IsPartialFn
<1>10. ContentDelta(t.tool_index[f.tool], "JsonDelta", f.block) \in S
  BY <1>1, <1>9, PlainEvents DEF Speaks
<1> QED  BY <1>6, <1>8, <1>10, SpeaksOnce

\* The last word on the answer ends the stream.
LEMMA FinishChatSpeaks ==
    ASSUME NEW S, AllVerdicts \subseteq S, NEW s, Speaks(s, S), NEW r \in Reasons
    PROVE  Speaks(FinishChat(r, s), S) /\ FinishChat(r, s).terminated = TRUE
<1> DEFINE e == Finish(IF s.refusal THEN "Refusal" ELSE r)
           t == Emit(Drain(s), e)
<1>1. e \in S
  BY DEF AllVerdicts, Reasons
<1>2. Speaks(Drain(s), S)
  BY SpeaksDraining
<1> HIDE DEF e
<1>3. Speaks(t, S)
  BY <1>1, <1>2, SpeaksOnce
<1>4. FinishChat(r, s) = [t EXCEPT !.terminated = TRUE]
  BY DEF FinishChat, e
<1> HIDE DEF t
<1>5. Speaks([t EXCEPT !.terminated = TRUE], S) /\ [t EXCEPT !.terminated = TRUE].terminated = TRUE
  BY <1>3, SpeaksFlag
<1> QED  BY <1>4, <1>5

\* A chunk ends the answer when it carries a verdict, the marker in any case.
LEMMA ChatSpeaks ==
    ASSUME NEW S, AllVerdicts \subseteq S, NEW s, Speaks(s, S), NEW f \in ChatFrames,
           f.type = "error" => Error(f.kind) \in S
    PROVE  /\ Speaks(ChatDecode(f, s), S)
           /\ ChatDecode(f, s).terminated
              <=> s.terminated \/ f.type = "done" \/ (f.type = "chunk" /\ f.finish # "none")
<1>1. CASE f.type = "done"
  BY <1>1, SpeaksFlag DEF ChatDecode
<1>2. CASE f.type = "error"
  BY <1>2, SpeaksOnce DEF ChatDecode
<1>3. CASE f.type = "chunk"
  <2>1. /\ f.tool \in Nat \cup {NoTool} /\ f.block \in Pieces /\ f.refusal \in BOOLEAN
        /\ f.finish \in Reasons \cup {"none"}
    BY <1>3 DEF ChatFrames
  <2> DEFINE s1 == StartMessage(s)
             s2 == ChatThinking(f, s1)
             s3 == ChatText(f, s2)
             s4 == ChatRefusal(f, s3)
             s5 == ChatTool(f, s4)
             s6 == ChatFinish(f, s5)
  <2>2. Speaks(s1, S) /\ s1.terminated = s.terminated
    BY SpeaksStart
  <2> HIDE DEF s1
  <2>3. Speaks(s2, S) /\ s2.terminated = s.terminated
    BY <2>2, SpeaksText DEF ChatThinking
  <2> HIDE DEF s2
  <2>4. Speaks(s3, S) /\ s3.terminated = s.terminated
    BY <2>3, SpeaksText DEF ChatText
  <2> HIDE DEF s3
  <2>5. Speaks(s4, S) /\ s4.terminated = s.terminated
    <3> DEFINE r == s3.refusal \/ f.refusal
    <3>1. r \in BOOLEAN
      OBVIOUS
    <3>2. s4 = [s3 EXCEPT !.refusal = r]
      BY DEF ChatRefusal
    <3> HIDE DEF r, s4
    <3>3. /\ Speaks([s3 EXCEPT !.refusal = r], S)
          /\ [s3 EXCEPT !.refusal = r].terminated = s3.terminated
      BY <2>4, <3>1, SpeaksFlag
    <3> QED  BY <2>4, <3>2, <3>3
  <2> HIDE DEF s4
  <2>6. Speaks(s5, S) /\ s5.terminated = s.terminated
    BY <2>1, <2>5, ToolCallSpeaks DEF ChatTool
  <2> HIDE DEF s5
  <2>7. Speaks(s6, S) /\ (s6.terminated <=> s.terminated \/ f.finish # "none")
    <3>1. CASE f.finish = "none"
      BY <2>6, <3>1 DEF ChatFinish
    <3>2. CASE f.finish # "none"
      BY <2>1, <2>6, <3>2, FinishChatSpeaks DEF ChatFinish
    <3> QED  BY <3>1, <3>2
  <2>8. ChatDecode(f, s) = IF f.usage THEN Emit(s6, Usage) ELSE s6
    BY <1>3 DEF ChatDecode, ChatChunk, ChatUsage, s1, s2, s3, s4, s5
  <2> HIDE DEF s6
  <2>9. Usage \in S
    BY PlainEvents DEF Speaks
  <2> QED  BY <1>3, <2>7, <2>8, <2>9, SpeaksOnce
<1> QED  BY <1>1, <1>2, <1>3 DEF ChatFrames

(***************************************************************************)
(* Anthropic messages and the claude subprocess.                           *)
(***************************************************************************)
\* The stream ends with message_stop or an error.
LEMMA MessagesSpeaks ==
    ASSUME NEW S, AllVerdicts \subseteq S, NEW s, Speaks(s, S), NEW f \in MessagesFrames,
           f.type = "error" => Error(f.kind) \in S
    PROVE  /\ Speaks(MessagesDecode(f, s), S)
           /\ MessagesDecode(f, s).terminated <=> s.terminated \/ f.type = "message_stop"
<1>1. Usage \in S /\ MessageStart \in S
  BY PlainEvents DEF Speaks
<1>2. \A u : Speaks(u, S) =>
          Speaks(MessagesUsage(f, u), S) /\ MessagesUsage(f, u).terminated = u.terminated
  BY <1>1, SpeaksOnce DEF MessagesUsage
<1>3. CASE f.type = "message_start"
  <2> DEFINE u == Emit(s, MessageStart)
  <2>1. Speaks(u, S) /\ u.terminated = s.terminated
    BY <1>1, SpeaksOnce
  <2>2. MessagesDecode(f, s) = MessagesUsage(f, u)
    BY <1>3 DEF MessagesDecode, MessageStartEvent
  <2> HIDE DEF u
  <2> QED  BY <1>2, <1>3, <2>1, <2>2
<1>4. CASE f.type = "content_block_start"
  <2>1. f.index \in Nat /\ f.kind \in Kinds \cup {"unknown"} /\ f.block \in Pieces
    BY <1>4 DEF MessagesFrames
  <2>2. MessagesDecode(f, s) = IF f.kind = "unknown" THEN s ELSE OpenBlock(s, f.index, f.kind, f.block)
    BY <1>4 DEF MessagesDecode, ContentBlockStart
  <2> QED  BY <1>4, <2>1, <2>2, SpeaksOpening
<1>5. CASE f.type = "content_block_delta"
  <2>1. f.index \in Nat /\ f.delta \in Deltas \cup {"unknown"} /\ f.block \in Pieces
    BY <1>5 DEF MessagesFrames
  <2>2. f.delta # "unknown" => ContentDelta(f.index, f.delta, f.block) \in S
    BY <2>1, PlainEvents DEF Speaks
  <2> QED  BY <1>5, <2>2, SpeaksOnce DEF MessagesDecode, ContentBlockDelta
<1>6. CASE f.type = "content_block_stop"
  <2> DEFINE rest == Remove(s.open, f.index)
             u == [s EXCEPT !.open = rest]
  <2>1. f.index \in Nat
    BY <1>6 DEF MessagesFrames
  <2>2. ContentStop(f.index) \in S
    BY <2>1, PlainEvents DEF Speaks
  <2>3. IsPartialFn(rest, Nat, Kinds)
    BY Fields, RemoveType DEF Speaks
  <2>4. MessagesDecode(f, s) = s \/ MessagesDecode(f, s) = Emit(u, ContentStop(f.index))
    BY <1>6 DEF MessagesDecode, ContentBlockStop
  <2> HIDE DEF rest
  <2>5. Speaks(u, S) /\ u.terminated = s.terminated
    BY <2>3 DEF Speaks, IsDecodeState
  <2> HIDE DEF u
  <2> QED  BY <1>6, <2>2, <2>4, <2>5, SpeaksOnce
<1>7. CASE f.type = "message_delta"
  <2> DEFINE u == MessagesUsage(f, s)
  <2>1. Speaks(u, S) /\ u.terminated = s.terminated
    BY <1>2
  <2>2. f.reason # "none" => Finish(f.reason) \in S
    BY <1>7 DEF MessagesFrames, AllVerdicts
  <2>3. MessagesDecode(f, s) = IF f.reason = "none" THEN u ELSE Emit(u, Finish(f.reason))
    BY <1>7 DEF MessagesDecode, MessageDelta
  <2> HIDE DEF u
  <2> QED  BY <1>7, <2>1, <2>2, <2>3, SpeaksOnce
<1>8. CASE f.type = "message_stop"
  BY <1>8, SpeaksFlag DEF MessagesDecode
<1>9. CASE f.type = "error"
  BY <1>9, SpeaksOnce DEF MessagesDecode
<1>10. CASE f.type = "ping"
  BY <1>10 DEF MessagesDecode
<1> QED  BY <1>3, <1>4, <1>5, <1>6, <1>7, <1>8, <1>9, <1>10 DEF MessagesFrames

\* A result that reports no failure is an error all the same when the answer did not end.
LEMMA ClaudeSpeaks ==
    ASSUME NEW S, AllVerdicts \subseteq S, NEW s, Speaks(s, S), NEW f \in ClaudeFrames,
           f.type = "stream_event" /\ f.event.type = "error" => Error(f.event.kind) \in S,
           f.type = "result" /\ (f.is_error \/ ~ s.terminated) => \A k \in ErrorKinds : Error(k) \in S
    PROVE  /\ Speaks(ClaudeDecode(f, s), S)
           /\ ClaudeDecode(f, s).terminated
              <=> \/ s.terminated \/ f.type = "result"
                  \/ f.type = "stream_event" /\ f.event.type = "message_stop"
<1>1. CASE f.type = "stream_event"
  <2>1. f.event \in MessagesFrames
    BY <1>1 DEF ClaudeFrames
  <2>2. ClaudeDecode(f, s) = MessagesDecode(f.event, s)
    BY <1>1 DEF ClaudeDecode
  <2> QED  BY <1>1, <2>1, <2>2, MessagesSpeaks
<1>2. CASE f.type = "assistant"
  <2>1. (f.tag = "auth") \in BOOLEAN
    OBVIOUS
  <2> DEFINE r == f.tag = "auth"
  <2>2. ClaudeDecode(f, s) = s \/ ClaudeDecode(f, s) = [s EXCEPT !.error_tag = r]
    BY <1>2 DEF ClaudeDecode
  <2>3. r \in BOOLEAN
    OBVIOUS
  <2> HIDE DEF r
  <2>4. Speaks([s EXCEPT !.error_tag = r], S) /\ [s EXCEPT !.error_tag = r].terminated = s.terminated
    BY <2>3, SpeaksFlag
  <2> QED  BY <1>2, <2>2, <2>4
<1>3. CASE f.type = "result"
  <2> DEFINE t == [s EXCEPT !.terminated = TRUE]
  <2>1. Speaks(t, S) /\ t.terminated = TRUE
    BY SpeaksFlag
  <2>2. f.is_error \in BOOLEAN /\ f.status \in {"none"} \cup DOMAIN StatusKind
    BY <1>3 DEF ClaudeFrames
  <2>3. ResultKind(f, s) \in ErrorKinds /\ "Transport" \in ErrorKinds
    BY <2>2 DEF ResultKind, StatusKind, ErrorKinds
  <2>4. /\ f.is_error => ClaudeDecode(f, s) = Emit(t, Error(ResultKind(f, s)))
        /\ ~ f.is_error /\ s.terminated => ClaudeDecode(f, s) = t
        /\ ~ f.is_error /\ ~ s.terminated => ClaudeDecode(f, s) = Emit(t, Error("Transport"))
    BY <1>3 DEF ClaudeDecode, Result
  <2> HIDE DEF t
  <2> QED  BY <1>3, <2>1, <2>3, <2>4, SpeaksOnce
<1> QED  BY <1>1, <1>2, <1>3 DEF ClaudeFrames

(***************************************************************************)
(* Google and Ollama: the verdict asks for a tool run exactly when a call  *)
(* was streamed, the last frame included.                                  *)
(***************************************************************************)
\* The verdict is read before the blocks are drained.
LEMMA GenaiSpeaks ==
    ASSUME NEW S, NEW s, Speaks(s, S), NEW f \in GenaiFrames, f.type = "chunk",
           NEW tool, Calls(s, tool), NEW more, more <=> tool \/ f.call,
           f.finish # "none" => Finish(IF more THEN "ToolUse" ELSE f.finish) \in S,
           f.finish = "none" /\ f.blocked => Finish("Refusal") \in S
    PROVE  /\ Speaks(GenaiDecode(f, s), S)
           /\ GenaiDecode(f, s).terminated <=> s.terminated \/ f.finish # "none" \/ f.blocked
           /\ f.finish = "none" /\ ~ f.blocked => Calls(GenaiDecode(f, s), more)
<1>0. /\ f.block \in Pieces /\ f.finish \in Reasons \cup {"none"} /\ f.call \in BOOLEAN
      /\ "ToolUse" \in Kinds /\ "Image" \in Kinds
      /\ {"JsonDelta", "SignatureDelta", "ImageDelta"} \subseteq Deltas
  BY DEF GenaiFrames, Kinds, Deltas
<1> DEFINE s1 == StartMessage(s)
           s2 == PartText(f, s1)
           s3 == PartCall(f, s2)
           s4 == PartImage(f, s3)
<1>1. Speaks(s1, S) /\ s1.terminated = s.terminated /\ Calls(s1, tool)
  BY SpeaksStart, CallsStay
<1> HIDE DEF s1
<1>2. Speaks(s2, S) /\ s2.terminated = s.terminated /\ Calls(s2, tool)
  BY <1>1, SpeaksText DEF PartText
<1> HIDE DEF s2
<1>3. Speaks(s3, S) /\ s3.terminated = s.terminated /\ Calls(s3, more)
  <2> DEFINE i == NextIndex(s2)
             t == Emit(OpenBlock(s2, i, "ToolUse", f.block), ContentDelta(i, "JsonDelta", f.block))
             e == ContentDelta(i, "SignatureDelta", f.block)
  <2>1. CASE f.call
    <3>1. Speaks(t, S) /\ t.terminated = s2.terminated /\ Calls(t, more)
      BY <1>0, <1>2, <2>1, SpeaksWhole
    <3>2. e \in S
      BY <1>0, <1>2, NextIndexType, PlainEvents DEF Speaks
    <3>3. s3 = t \/ s3 = Emit(t, e)
      BY <2>1 DEF PartCall
    <3> HIDE DEF t, e, s3
    <3>4. LET u == Emit(t, e) IN Speaks(u, S) /\ u.terminated = t.terminated /\ u.open = t.open
      BY <3>1, <3>2, SpeaksOnce
    <3> QED  BY <1>2, <3>1, <3>3, <3>4, CallsStay
  <2>2. CASE ~ f.call
    <3>1. s3 = s2
      BY <2>2 DEF PartCall
    <3>2. Calls(s2, more)
      BY <1>2, <2>2 DEF Calls
    <3> QED  BY <1>2, <3>1, <3>2
  <2> QED  BY <1>0, <2>1, <2>2
<1> HIDE DEF s3
<1>4. Speaks(s4, S) /\ s4.terminated = s.terminated /\ Calls(s4, more)
  <2>1. s4 = s3 \/ s4 = Emit(OpenBlock(s3, NextIndex(s3), "Image", f.block),
                             ContentDelta(NextIndex(s3), "ImageDelta", f.block))
    BY DEF PartImage
  <2> HIDE DEF s4
  <2> QED  BY <1>0, <1>3, <2>1, SpeaksWhole
<1>5. GenaiDecode(f, s) = GenaiEnd(f, s4)
  BY DEF GenaiDecode, GenaiChunk, s1, s2, s3, s4
<1> HIDE DEF s4
<1>6. \A u : Speaks(u, S) =>
          /\ Speaks(GenaiUsage(f, u), S) /\ GenaiUsage(f, u).terminated = u.terminated
          /\ GenaiUsage(f, u).open = u.open
  <2>1. Usage \in S
    BY PlainEvents DEF Speaks
  <2> QED  BY <2>1, SpeaksOnce DEF GenaiUsage
<1>7. ASSUME NEW r, Finish(r) \in S
      PROVE  Speaks(GenaiTerminate(r, f, s4), S) /\ GenaiTerminate(r, f, s4).terminated = TRUE
  <2> DEFINE u == GenaiUsage(f, Drain(s4))
             t == Emit(u, Finish(r))
  <2>1. Speaks(u, S)
    BY <1>4, <1>6, SpeaksDraining
  <2> HIDE DEF u
  <2>2. Speaks(t, S)
    BY <1>7, <2>1, SpeaksOnce
  <2>3. GenaiTerminate(r, f, s4) = [t EXCEPT !.terminated = TRUE]
    BY DEF GenaiTerminate, u
  <2> HIDE DEF t
  <2>4. Speaks([t EXCEPT !.terminated = TRUE], S) /\ [t EXCEPT !.terminated = TRUE].terminated = TRUE
    BY <2>2, SpeaksFlag
  <2> QED  BY <2>3, <2>4
<1>8. CASE f.finish # "none"
  <2>1. GenaiReason(f.finish, s4) = IF more THEN "ToolUse" ELSE f.finish
    BY <1>4 DEF GenaiReason, Calls
  <2>2. GenaiDecode(f, s) = GenaiTerminate(GenaiReason(f.finish, s4), f, s4)
    BY <1>5, <1>8 DEF GenaiEnd
  <2> QED  BY <1>7, <1>8, <2>1, <2>2
<1>9. CASE f.finish = "none" /\ f.blocked
  <2>1. GenaiDecode(f, s) = GenaiTerminate("Refusal", f, s4)
    BY <1>5, <1>9 DEF GenaiEnd
  <2> QED  BY <1>7, <1>9, <2>1
<1>10. CASE f.finish = "none" /\ ~ f.blocked
  <2>1. GenaiDecode(f, s) = GenaiUsage(f, s4)
    BY <1>5, <1>10 DEF GenaiEnd
  <2> QED  BY <1>4, <1>6, <1>10, <2>1, CallsStay
<1> QED  BY <1>8, <1>9, <1>10

\* So it is here; the last line carries the verdict.
LEMMA OllamaSpeaks ==
    ASSUME NEW S, NEW s, Speaks(s, S), NEW f \in OllamaFrames, f.type = "line",
           NEW tool, Calls(s, tool), NEW more, more <=> tool \/ f.call,
           f.done => Finish(IF more THEN "ToolUse" ELSE f.reason) \in S
    PROVE  /\ Speaks(OllamaDecode(f, s), S)
           /\ OllamaDecode(f, s).terminated <=> s.terminated \/ f.done
           /\ ~ f.done => Calls(OllamaDecode(f, s), more)
<1>0. f.block \in Pieces /\ f.call \in BOOLEAN /\ "ToolUse" \in Kinds /\ "JsonDelta" \in Deltas
  BY DEF OllamaFrames, Kinds, Deltas
<1> DEFINE s1 == StartMessage(s)
           s2 == LineThinking(f, s1)
           s3 == LineText(f, s2)
           s4 == LineCall(f, s3)
<1>1. Speaks(s1, S) /\ s1.terminated = s.terminated /\ Calls(s1, tool)
  BY SpeaksStart, CallsStay
<1> HIDE DEF s1
<1>2. Speaks(s2, S) /\ s2.terminated = s.terminated /\ Calls(s2, tool)
  BY <1>1, SpeaksText DEF LineThinking
<1> HIDE DEF s2
<1>3. Speaks(s3, S) /\ s3.terminated = s.terminated /\ Calls(s3, tool)
  BY <1>2, SpeaksText DEF LineText
<1> HIDE DEF s3
<1>4. Speaks(s4, S) /\ s4.terminated = s.terminated /\ Calls(s4, more)
  <2> DEFINE t == Emit(OpenBlock(s3, NextIndex(s3), "ToolUse", f.block),
                       ContentDelta(NextIndex(s3), "JsonDelta", f.block))
  <2>1. CASE f.call
    <3>1. Speaks(t, S) /\ t.terminated = s3.terminated /\ Calls(t, more)
      BY <1>0, <1>3, <2>1, SpeaksWhole
    <3>2. s4 = t
      BY <2>1 DEF LineCall
    <3> QED  BY <1>3, <3>1, <3>2
  <2>2. CASE ~ f.call
    <3>1. s4 = s3
      BY <2>2 DEF LineCall
    <3>2. Calls(s3, more)
      BY <1>3, <2>2 DEF Calls
    <3> QED  BY <1>3, <3>1, <3>2
  <2> QED  BY <1>0, <2>1, <2>2
<1>5. OllamaDecode(f, s) = IF f.done THEN FinishLine(f, s4) ELSE s4
  BY DEF OllamaDecode, OllamaLine, s1, s2, s3, s4
<1> HIDE DEF s4
<1>6. CASE f.done
  <2> DEFINE e == Finish(OllamaReason(f.reason, s4))
             t == Emit(Emit(Drain(s4), Usage), e)
  <2>1. e \in S
    BY <1>4, <1>6 DEF OllamaReason, Calls
  <2>2. Usage \in S
    BY PlainEvents DEF Speaks
  <2>3. Speaks(Emit(Drain(s4), Usage), S)
    BY <1>4, <2>2, SpeaksDraining, SpeaksOnce
  <2> HIDE DEF e
  <2>4. Speaks(t, S)
    BY <2>1, <2>3, SpeaksOnce
  <2>5. OllamaDecode(f, s) = [t EXCEPT !.terminated = TRUE]
    BY <1>5, <1>6 DEF FinishLine, e
  <2> HIDE DEF t
  <2>6. Speaks([t EXCEPT !.terminated = TRUE], S) /\ [t EXCEPT !.terminated = TRUE].terminated = TRUE
    BY <2>4, SpeaksFlag
  <2> QED  BY <1>6, <2>5, <2>6
<1>7. CASE ~ f.done
  BY <1>4, <1>5, <1>7
<1> QED  BY <1>6, <1>7

(***************************************************************************)
(* OpenAI Responses.                                                       *)
(***************************************************************************)
\* A part is given its index.
LEMMA AssignSpeaks ==
    ASSUME NEW S, NEW s, Speaks(s, S), NEW key \in Nat \X Nat
    PROVE  LET t == Assign(s, key)
           IN  Speaks(t, S) /\ t.terminated = s.terminated /\ t.part_index[key] \in Nat
<1> DEFINE t == Assign(s, key)
           parts == Insert(s.part_index, key, Cardinality(DOMAIN s.part_index))
<1>1. IsDecodeState(t) /\ t.part_index[key] \in Nat
  BY AssignType DEF Speaks
<1>2. t = s \/ t = [s EXCEPT !.part_index = parts]
  BY DEF Assign
<1> HIDE DEF parts, t
<1>3. t.out = s.out /\ t.terminated = s.terminated
  BY <1>2, Fields DEF Speaks
<1> QED  BY <1>1, <1>3 DEF Speaks, t

\* A part is opened.
LEMMA OpenPartSpeaks ==
    ASSUME NEW S, NEW s, Speaks(s, S), NEW key \in Nat \X Nat, NEW k \in Kinds, NEW b \in Pieces
    PROVE  Speaks(OpenPart(s, key, k, b), S) /\ OpenPart(s, key, k, b).terminated = s.terminated
<1> DEFINE t == Assign(s, key)
           i == t.part_index[key]
<1>1. Speaks(t, S) /\ t.terminated = s.terminated /\ i \in Nat
  BY AssignSpeaks
<1>2. OpenPart(s, key, k, b) = OpenBlock(t, i, k, b)
  BY DEF OpenPart
<1> HIDE DEF t, i
<1> QED  BY <1>1, <1>2, SpeaksOpening

\* An item's parts are stopped, the encrypted reasoning first.
LEMMA ItemDoneSpeaks ==
    ASSUME NEW S, NEW s, Speaks(s, S), NEW f, f.block \in Pieces
    PROVE  Speaks(ItemDone(f, s), S) /\ ItemDone(f, s).terminated = s.terminated
<1> DEFINE T == OpenParts(f.item, s)
           c == Cardinality(T)
           encrypted == [n \in 1..(2 * c) |->
                IF n % 2 = 1 THEN ContentDelta(Ascending(T)[(n + 1) \div 2], "EncryptedReasoningDelta", f.block)
                ELSE ContentStop(Ascending(T)[n \div 2])]
           rest == [i \in DOMAIN s.open \ T |-> s.open[i]]
           said == IF f.itype = "reasoning" /\ f.encrypted THEN encrypted ELSE Stops(T)
<1>1. T \in SUBSET Nat /\ IsFiniteSet(T)
  BY OpenPartsType DEF Speaks
<1>2. c \in Nat /\ \A n \in 1..c : Ascending(T)[n] \in Nat
  BY <1>1, AscendingType
<1>3. encrypted \in Seq(S)
  <2>1. "EncryptedReasoningDelta" \in Deltas
    BY DEF Deltas
  <2> HIDE DEF T, c
  <2>2. ASSUME NEW n \in 1..(2 * c) PROVE encrypted[n] \in S
    <3>1. CASE n % 2 = 1
      <4>1. (n + 1) \div 2 \in 1..c
        BY <1>2, <3>1
      <4>2. Ascending(T)[(n + 1) \div 2] \in Nat
        BY <1>2, <4>1
      <4> QED  BY <2>1, <3>1, <4>2, PlainEvents DEF Speaks
    <3>2. CASE n % 2 # 1
      <4>1. n \div 2 \in 1..c
        BY <1>2, <3>2
      <4>2. Ascending(T)[n \div 2] \in Nat
        BY <1>2, <4>1
      <4> QED  BY <3>2, <4>2, PlainEvents DEF Speaks
    <3> QED  BY <3>1, <3>2
  <2>3. encrypted \in [1..(2 * c) -> S]
    BY <2>2
  <2> HIDE DEF encrypted
  <2> QED  BY <1>2, <2>3
<1>4. Stops(T) \in Seq(S)
  <2>1. Stops(T) \in [1..c -> S]
    BY <1>2, PlainEvents DEF Stops, Speaks
  <2> QED  BY <1>2, <2>1
<1>5. said \in Seq(S)
  BY <1>3, <1>4
<1> HIDE DEF said
<1>6. s.out \o said \in Seq(S)
  BY <1>5 DEF Speaks
<1>7. ItemDone(f, s) = [s EXCEPT !.open = rest, !.out = s.out \o said]
  BY DEF ItemDone, said
<1>8. IsDecodeState(ItemDone(f, s)) /\ IsDecodeState(s)
  BY ItemDoneType DEF Speaks
<1> HIDE DEF rest
<1>9. ItemDone(f, s).out = s.out \o said /\ ItemDone(f, s).terminated = s.terminated
  BY <1>7, <1>8, Fields
<1> QED  BY <1>6, <1>8, <1>9 DEF Speaks

\* An image item is a whole block.
LEMMA ImageItemSpeaks ==
    ASSUME NEW S, NEW s, Speaks(s, S), NEW f, PartKey(f) \in Nat \X Nat, f.block \in Pieces
    PROVE  Speaks(ImageItem(f, s), S) /\ ImageItem(f, s).terminated = s.terminated
<1> DEFINE t == Assign(s, PartKey(f))
           i == t.part_index[PartKey(f)]
           e1 == ContentStart(i, "Image", f.block)
           e2 == ContentDelta(i, "ImageDelta", f.block)
           e3 == ContentStop(i)
<1>1. Speaks(t, S) /\ t.terminated = s.terminated /\ i \in Nat
  BY AssignSpeaks
<1>2. "Image" \in Kinds /\ "ImageDelta" \in Deltas
  BY DEF Kinds, Deltas
<1>3. e1 \in S /\ e2 \in S /\ e3 \in S
  BY <1>1, <1>2, PlainEvents DEF Speaks
<1>4. ImageItem(f, s) = Emit(Emit(Emit(t, e1), e2), e3)
  BY DEF ImageItem
<1> HIDE DEF t, i, e1, e2, e3
<1>5. Speaks(Emit(t, e1), S) /\ Emit(t, e1).terminated = t.terminated
  BY <1>1, <1>3, SpeaksOnce
<1>6. Speaks(Emit(Emit(t, e1), e2), S) /\ Emit(Emit(t, e1), e2).terminated = t.terminated
  BY <1>3, <1>5, SpeaksOnce
<1> DEFINE u == Emit(Emit(t, e1), e2)
<1>7. ImageItem(f, s) = Emit(u, e3) /\ Speaks(u, S) /\ u.terminated = s.terminated
  BY <1>1, <1>4, <1>5, <1>6
<1> HIDE DEF u
<1> QED  BY <1>3, <1>7, SpeaksOnce

\* What the last event of the stream says.
LEMMA TerminalSpeaks ==
    ASSUME NEW S, AllVerdicts \subseteq S, NEW s, Speaks(s, S), NEW r \in Reasons, NEW f
    PROVE  Speaks(Terminal(r, f, s), S) /\ Terminal(r, f, s).terminated = TRUE
<1> DEFINE u == IF f.usage THEN Emit(Drain(s), Usage) ELSE Drain(s)
           t == Emit(u, Finish(r))
<1>1. Usage \in S /\ Finish(r) \in S
  BY PlainEvents DEF Speaks, AllVerdicts
<1>2. Speaks(u, S)
  BY <1>1, SpeaksDraining, SpeaksOnce
<1> HIDE DEF u
<1>3. Speaks(t, S)
  BY <1>1, <1>2, SpeaksOnce
<1>4. Terminal(r, f, s) = [t EXCEPT !.terminated = TRUE]
  BY DEF Terminal, u
<1> HIDE DEF t
<1>5. Speaks([t EXCEPT !.terminated = TRUE], S) /\ [t EXCEPT !.terminated = TRUE].terminated = TRUE
  BY <1>3, SpeaksFlag
<1> QED  BY <1>4, <1>5

\* The stream ends with response.completed, incomplete, failed or an error.
LEMMA ResponsesSpeaks ==
    ASSUME NEW S, AllVerdicts \subseteq S, NEW s, Speaks(s, S), NEW f \in ResponsesFrames,
           f.type = "failed" => Error(f.kind) \in S
    PROVE  /\ Speaks(ResponsesDecode(f, s), S)
           /\ ResponsesDecode(f, s).terminated
              <=> s.terminated \/ f.type \in {"completed", "incomplete"}
<1>1. CASE f.type = "created"
  BY <1>1, SpeaksStart DEF ResponsesDecode
<1>2. CASE f.type = "refusal"
  <2>1. ResponsesDecode(f, s) = [s EXCEPT !.refusal = TRUE]
    BY <1>2 DEF ResponsesDecode
  <2>2. Speaks([s EXCEPT !.refusal = TRUE], S) /\ [s EXCEPT !.refusal = TRUE].terminated = s.terminated
    BY SpeaksFlag
  <2> QED  BY <1>2, <2>1, <2>2
<1>3. CASE f.type = "item_added"
  <2>1. PartKey(f) \in Nat \X Nat /\ f.block \in Pieces
    BY <1>3 DEF ResponsesFrames, PartKey
  <2>2. "ToolUse" \in Kinds /\ "Thinking" \in Kinds
    BY DEF Kinds
  <2>3. Speaks(ItemAdded(f, s), S) /\ ItemAdded(f, s).terminated = s.terminated
    BY <2>1, <2>2, OpenPartSpeaks DEF ItemAdded
  <2> QED  BY <1>3, <2>3 DEF ResponsesDecode
<1>4. CASE f.type = "part_added"
  <2>1. PartKey(f) \in Nat \X Nat /\ f.block \in Pieces /\ "Text" \in Kinds
    BY <1>4 DEF ResponsesFrames, PartKey, Kinds
  <2>2. Speaks(PartAdded(f, s), S) /\ PartAdded(f, s).terminated = s.terminated
    BY <2>1, OpenPartSpeaks DEF PartAdded
  <2> QED  BY <1>4, <2>2 DEF ResponsesDecode
<1>5. CASE f.type = "delta"
  <2>1. f.delta \in Deltas /\ f.block \in Pieces
    BY <1>5 DEF ResponsesFrames
  <2>2. PartKey(f) \in DOMAIN s.part_index => ContentDelta(s.part_index[PartKey(f)], f.delta, f.block) \in S
    BY <2>1, Fields, PlainEvents DEF IsPartialFn, Speaks
  <2>3. Speaks(PartDelta(f, s), S) /\ PartDelta(f, s).terminated = s.terminated
    BY <2>2, SpeaksOnce DEF PartDelta
  <2> QED  BY <1>5, <2>3 DEF ResponsesDecode
<1>6. CASE f.type = "item_done"
  <2>1. PartKey(f) \in Nat \X Nat /\ f.block \in Pieces
    BY <1>6 DEF ResponsesFrames, PartKey
  <2>2. Speaks(OutputItemDone(f, s), S) /\ OutputItemDone(f, s).terminated = s.terminated
    BY <2>1, ItemDoneSpeaks, ImageItemSpeaks DEF OutputItemDone
  <2> QED  BY <1>6, <2>2 DEF ResponsesDecode
<1>7. CASE f.type = "completed"
  <2>1. CompletedReason(f, s) \in Reasons
    BY <1>7 DEF ResponsesFrames, CompletedReason, Reasons
  <2> QED  BY <1>7, <2>1, TerminalSpeaks DEF ResponsesDecode
<1>8. CASE f.type = "incomplete"
  <2>1. f.reason \in Reasons
    BY <1>8 DEF ResponsesFrames
  <2> QED  BY <1>8, <2>1, TerminalSpeaks DEF ResponsesDecode
<1>9. CASE f.type = "failed"
  BY <1>9, SpeaksOnce DEF ResponsesDecode
<1> QED  BY <1>1, <1>2, <1>3, <1>4, <1>5, <1>6, <1>7, <1>8, <1>9 DEF ResponsesFrames

(***************************************************************************)
(* What the decoders say, against what the provider said.                  *)
(***************************************************************************)
\* The verdicts an answer may get from Google or Ollama, once it is over.
VerdictsOn(d, w) ==
    {r \in Reasons :
        d \in {"google", "ollama"} =>
            w.phase \notin {"before", "open"} /\ (r = "Refusal" \/ (r = "ToolUse" <=> w.tool))}

\* An error is said only when the provider sent an error frame or a malformed one.
Sayable(d, w) ==
    Plain \cup {Error(k) : k \in {x \in ErrorKinds : w.fault}} \cup {Finish(r) : r \in VerdictsOn(d, w)}

\* The decoder knows the end exactly when the provider said it, over a stream without fault.
Ends(d, w, s) ==
    /\ s.terminated => w.complete \/ w.fault
    /\ w.complete => s.terminated
    /\ d = "openai" /\ w.phase = "verdict" => w.complete
    /\ w.phase = "failed" => w.fault
    /\ w.phase = "told" => w.complete
    /\ d \in {"google", "ollama"} /\ w.phase \in {"before", "open"} => ~ w.complete

Tooled(d, w, s) == d \in {"google", "ollama"} /\ w.phase \in {"before", "open"} => Calls(s, w.tool)

\* The last thing said is an error.
Errs(t) == \E q \in Seq(Event) : \E k \in ErrorKinds : t.out = Append(q, Error(k))

\* What a frame does, whichever the dialect; S holds what may be said.
Relays(d, w, v, t, S) ==
    /\ Speaks(t, S) /\ Ends(d, v, t) /\ Tooled(d, v, t)
    /\ w.fault => v.fault
    /\ v.fault => w.fault \/ Errs(t)
    /\ VerdictsOn(d, w) \subseteq VerdictsOn(d, v)

\* An error frame is the last thing said.
LEMMA ErringErrs ==
    ASSUME NEW s, IsDecodeState(s), NEW k \in ErrorKinds
    PROVE  Errs(Emit(s, Error(k)))
  BY EmitFields, Fields DEF Errs

\* The sayable events are those the decoder lemmas ask for.
LEMMA SayableWords ==
    ASSUME NEW d, NEW w, NEW S, Sayable(d, w) \subseteq S
    PROVE  /\ w.fault => \A k \in ErrorKinds : Error(k) \in S
           /\ \A r \in VerdictsOn(d, w) : Finish(r) \in S
           /\ d \notin {"google", "ollama"} => AllVerdicts \subseteq S
  BY DEF Sayable, VerdictsOn, AllVerdicts

\* A frame that is not JSON.
LEMMA MalformedRelays ==
    ASSUME NEW d \in Dialects, NEW w, WireOK(d, w), NEW s, NEW S, Speaks(s, S),
           Ends(d, w, s), Tooled(d, w, s),
           NEW v, v = [w EXCEPT !.fault = TRUE], Sayable(d, v) \subseteq S
    PROVE  Relays(d, w, v, Emit(s, Error("Transport")), S)
<1> DEFINE t == Emit(s, Error("Transport"))
<1>1. /\ v.phase = w.phase /\ v.tool = w.tool /\ v.complete = w.complete /\ v.fault = TRUE
  BY DEF WireOK
<1>2. "Transport" \in ErrorKinds
  BY DEF ErrorKinds
<1>3. Error("Transport") \in S
  BY <1>1, <1>2, SayableWords
<1>4. Errs(t)
  BY <1>2, ErringErrs DEF Speaks
<1>5. Speaks(t, S) /\ t.terminated = s.terminated /\ t.open = s.open
  BY <1>3, SpeaksOnce
<1> HIDE DEF t
<1>6. Tooled(d, v, t)
  BY <1>1, <1>5, CallsStay DEF Tooled
<1>7. Ends(d, v, t)
  BY <1>1, <1>5 DEF Ends
<1>8. VerdictsOn(d, w) \subseteq VerdictsOn(d, v)
  BY <1>1 DEF VerdictsOn
<1> QED  BY <1>1, <1>4, <1>5, <1>6, <1>7, <1>8 DEF Relays, t

\* What a chunk, an error or the marker of OpenAI does to the provider's own account of the end.
LEMMA ChatRelays ==
    ASSUME NEW w, WireOK("openai", w), NEW f \in OpenAiFrames(w), NEW s, NEW S, Speaks(s, S),
           Ends("openai", w, s), NEW v, v = OpenAiAfter(w, f), Sayable("openai", v) \subseteq S
    PROVE  Relays("openai", w, v, ChatDecode(f, s), S)
<1> DEFINE t == ChatDecode(f, s)
<1>1. f \in ChatFrames /\ AllVerdicts \subseteq S
  <2>1. f \in ChatFrames
    BY OpenAiFramesType
  <2>2. "openai" \notin {"google", "ollama"}
    OBVIOUS
  <2> QED  BY <2>1, <2>2, SayableWords
<1>2. f.type = "done" => w.phase \in {"verdict", "failed"}
  <2>1. \A g \in OpenAiChunks(w) : g.type # "done"
    BY ChunkShape
  <2>2. \A g \in RefusalChunks \cup ErrorFrames : g.type # "done"
    BY DEF RefusalChunks, ErrorFrames
  <2> QED  BY <2>1, <2>2 DEF OpenAiFrames
<1>3. f.type = "chunk" => w.phase # "failed"
  <2>1. \A g \in [type : {"done"}] : g.type # "chunk"
    OBVIOUS
  <2> QED  BY <2>1 DEF OpenAiFrames
<1>4. VerdictsOn("openai", w) = VerdictsOn("openai", v)
  BY DEF VerdictsOn
<1>5. Tooled("openai", v, t)
  BY DEF Tooled
<1>6. CASE f.type = "error"
  <2>1. v.fault = TRUE /\ v.phase = "failed" /\ v.complete = w.complete
    BY <1>6 DEF OpenAiAfter, Failed, WireOK
  <2>2. f.kind \in ErrorKinds
    BY <1>1, <1>6 DEF ChatFrames
  <2>3. Speaks(t, S) /\ (t.terminated <=> s.terminated)
    BY <1>1, <1>6, <2>1, <2>2, ChatSpeaks, SayableWords
  <2>4. Errs(t)
    BY <1>6, <2>2, ErringErrs DEF ChatDecode, Speaks
  <2> HIDE DEF t
  <2>5. Ends("openai", v, t)
    BY <2>1, <2>3 DEF Ends
  <2> QED  BY <1>4, <1>5, <2>1, <2>3, <2>4, <2>5 DEF Relays, t
<1>7. CASE f.type = "done"
  <2>1. v.fault = w.fault /\ v.phase = "over" /\ v.complete = w.complete
    BY <1>7 DEF OpenAiAfter, WireOK
  <2>2. Speaks(t, S) /\ t.terminated
    BY <1>1, <1>7, ChatSpeaks
  <2> HIDE DEF t
  <2>3. Ends("openai", v, t)
    BY <1>2, <1>7, <2>1, <2>2 DEF Ends
  <2> QED  BY <1>4, <1>5, <2>1, <2>2, <2>3 DEF Relays, t
<1>8. CASE f.type = "chunk"
  <2>1. /\ v.fault = w.fault
        /\ v.phase = IF w.phase = "verdict" \/ f.finish # "none" THEN "verdict" ELSE "open"
        /\ v.complete <=> w.complete \/ f.finish # "none"
    BY <1>8 DEF OpenAiAfter, WireOK
  <2>2. Speaks(t, S) /\ (t.terminated <=> s.terminated \/ f.finish # "none")
    BY <1>1, <1>8, ChatSpeaks
  <2> HIDE DEF t
  <2>3. Ends("openai", v, t)
    BY <1>3, <1>8, <2>1, <2>2 DEF Ends
  <2> QED  BY <1>4, <1>5, <2>1, <2>2, <2>3 DEF Relays, t
<1> QED  BY <1>1, <1>6, <1>7, <1>8 DEF ChatFrames

\* What an Anthropic frame does to the provider's own account of the end.
LEMMA AnthropicWords ==
    ASSUME NEW d \in {"anthropic", "claude"}, NEW w, WireOK(d, w), NEW f \in AnthropicFrames(w)
    PROVE  LET u == AnthropicAfter(w, f)
           IN  /\ u.fault <=> w.fault \/ f.type = "error"
               /\ u.complete <=> w.complete \/ f.type = "message_stop"
               /\ u.phase = "failed" => u.fault
               /\ u.phase = "over" => u.complete
               /\ u.phase # "told" /\ f \in MessagesFrames
               /\ u = [u EXCEPT !.phase = u.phase]
<1>1. w.phase \in {"before", "open", "verdict"}
  BY DEF AnthropicFrames
<1>2. f \in MessagesFrames
  BY ProviderAssumption, AnthropicFramesType DEF WireOK
<1>3. CASE f.type = "error"
  BY <1>1, <1>2, <1>3 DEF AnthropicAfter, Failed, WireOK
<1>4. CASE f.type = "message_stop"
  BY <1>1, <1>2, <1>4 DEF AnthropicAfter, Over, WireOK
<1>5. CASE f.type \notin {"error", "message_stop"}
  <2> DEFINE u == AnthropicAfter(w, f)
  <2>1. \E n, live, p : /\ u = [w EXCEPT !.phase = p, !.next = n, !.live = live]
                        /\ p \in {w.phase, "open", "verdict"}
    <3>1. w = [w EXCEPT !.phase = w.phase, !.next = w.next, !.live = w.live]
      BY DEF WireOK
    <3>2. CASE f.type = "message_start"
      <4>1. u = [w EXCEPT !.phase = "open", !.next = w.next, !.live = w.live]
        BY <3>2 DEF AnthropicAfter, WireOK
      <4> QED  BY <4>1
    <3>3. CASE f.type = "content_block_start"
      <4>1. u = [w EXCEPT !.phase = w.phase, !.next = w.next + 1,
                          !.live = w.live \cup {[index |-> f.index, kind |-> f.kind]}]
        BY <3>3 DEF AnthropicAfter, WireOK
      <4> QED  BY <4>1
    <3>4. CASE f.type = "content_block_stop"
      <4>1. u = [w EXCEPT !.phase = w.phase, !.next = w.next, !.live = {b \in w.live : b.index # f.index}]
        BY <3>4 DEF AnthropicAfter, WireOK
      <4> QED  BY <4>1
    <3>5. CASE f.type = "message_delta"
      <4>1. u = [w EXCEPT !.phase = "verdict", !.next = w.next, !.live = w.live]
        BY <3>5 DEF AnthropicAfter, WireOK
      <4> QED  BY <4>1
    <3>6. CASE f.type \notin {"message_start", "content_block_start", "content_block_stop", "message_delta"}
      <4>1. u = w
        BY <1>5, <3>6 DEF AnthropicAfter
      <4> QED  BY <3>1, <4>1
    <3> QED  BY <3>2, <3>3, <3>4, <3>5, <3>6
  <2>2. PICK n, live, p : /\ u = [w EXCEPT !.phase = p, !.next = n, !.live = live]
                          /\ p \in {w.phase, "open", "verdict"}
    BY <2>1
  <2> HIDE DEF u
  <2>3. u.fault = w.fault /\ u.complete = w.complete /\ u.phase = p /\ u = [u EXCEPT !.phase = u.phase]
    BY <2>2 DEF WireOK
  <2> QED  BY <1>1, <1>2, <1>5, <2>2, <2>3 DEF u
<1> QED  BY <1>3, <1>4, <1>5

\* The events of Anthropic.
LEMMA MessagesRelays ==
    ASSUME NEW d \in {"anthropic", "claude"}, NEW w, WireOK(d, w), NEW f \in AnthropicFrames(w),
           NEW s, NEW S, Speaks(s, S), Ends(d, w, s),
           NEW v, v.fault = AnthropicAfter(w, f).fault, v.complete = AnthropicAfter(w, f).complete,
           v.phase = "failed" => v.fault, v.phase = "told" => v.complete, Sayable(d, v) \subseteq S
    PROVE  Relays(d, w, v, MessagesDecode(f, s), S)
<1> DEFINE t == MessagesDecode(f, s)
<1>1. /\ v.fault <=> w.fault \/ f.type = "error"
      /\ v.complete <=> w.complete \/ f.type = "message_stop"
      /\ f \in MessagesFrames
  BY AnthropicWords
<1>2. AllVerdicts \subseteq S
  BY SayableWords
<1>3. f.type = "error" => f.kind \in ErrorKinds /\ Error(f.kind) \in S
  <2>1. f.type = "error" => f.kind \in ErrorKinds
    BY <1>1 DEF MessagesFrames
  <2> QED  BY <1>1, <2>1, SayableWords
<1>4. Speaks(t, S) /\ (t.terminated <=> s.terminated \/ f.type = "message_stop")
  BY <1>1, <1>2, <1>3, MessagesSpeaks
<1>5. f.type = "error" => Errs(t)
  BY <1>3, ErringErrs DEF MessagesDecode, Speaks
<1>6. VerdictsOn(d, w) \subseteq VerdictsOn(d, v) /\ Tooled(d, v, t)
  BY DEF VerdictsOn, Tooled
<1> HIDE DEF t
<1>7. Ends(d, v, t)
  BY <1>1, <1>4 DEF Ends
<1> QED  BY <1>1, <1>4, <1>5, <1>6, <1>7 DEF Relays, t

\* The lines of the claude subprocess: a result after an error frame is one more.
LEMMA ClaudeRelays ==
    ASSUME NEW w, WireOK("claude", w), NEW f \in ClaudeLines(w), NEW s, NEW S, Speaks(s, S),
           Ends("claude", w, s), NEW v, v = ClaudeAfter(w, f), Sayable("claude", v) \subseteq S
    PROVE  Relays("claude", w, v, ClaudeDecode(f, s), S)
<1> DEFINE t == ClaudeDecode(f, s)
<1>1. CASE f.type = "stream_event"
  <2> DEFINE u == AnthropicAfter(w, f.event)
  <2>1. f.event \in AnthropicFrames(w)
    BY <1>1 DEF ClaudeLines
  <2>2. /\ u.phase = "failed" => u.fault
        /\ u.phase = "over" => u.complete
        /\ u.phase # "told" /\ u = [u EXCEPT !.phase = u.phase]
    BY <2>1, AnthropicWords
  <2>3. v = [u EXCEPT !.phase = IF u.phase = "over" THEN "told" ELSE u.phase]
    BY <1>1 DEF ClaudeAfter
  <2>4. WireOK("claude", u)
    BY <2>1, AnthropicAfterType
  <2>5. t = MessagesDecode(f.event, s)
    BY <1>1 DEF ClaudeDecode
  <2> HIDE DEF u, t
  <2>6. /\ v.fault = u.fault /\ v.complete = u.complete
        /\ v.phase = (IF u.phase = "over" THEN "told" ELSE u.phase)
    BY <2>3, <2>4 DEF WireOK
  <2>7. (v.phase = "failed" => v.fault) /\ (v.phase = "told" => v.complete)
    BY <2>2, <2>6
  <2>8. Relays("claude", w, v, MessagesDecode(f.event, s), S)
    BY <2>1, <2>6, <2>7, MessagesRelays DEF u
  <2> QED  BY <2>5, <2>8 DEF t
<1>2. CASE f.type # "stream_event"
  <2> DEFINE Assistants == [type : {"assistant"}, tag : {"none", "auth", "other"}]
             Results == {g \in [type : {"result"}, is_error : BOOLEAN, status : {"none", "401", "5xx"}] :
                           /\ w.live = {} \/ (ResultMidBlock /\ g.is_error)
                           /\ w.phase \in {"told", "failed"} \/ g.is_error}
  <2>0. f \in ClaudeFrames /\ AllVerdicts \subseteq S
    <3>1. f \in ClaudeFrames
      BY ClaudeLinesType, ProviderAssumption DEF WireOK
    <3>2. "claude" \notin {"google", "ollama"}
      OBVIOUS
    <3> QED  BY <3>1, <3>2, SayableWords
  <2>1. f \in Assistants \/ f \in Results
    BY <1>2 DEF ClaudeLines
  <2>2. /\ \A x, y : VerdictsOn("claude", x) \subseteq VerdictsOn("claude", y)
        /\ Tooled("claude", v, t)
    BY DEF VerdictsOn, Tooled
  <2>3. CASE f \in Assistants
    <3>1. v = w /\ f.type = "assistant"
      BY <2>3 DEF ClaudeAfter
    <3>2. Speaks(t, S) /\ (t.terminated <=> s.terminated)
      BY <2>0, <3>1, ClaudeSpeaks
    <3> HIDE DEF t
    <3>3. Ends("claude", v, t)
      BY <3>1, <3>2 DEF Ends
    <3> QED  BY <2>2, <3>1, <3>2, <3>3 DEF Relays, t
  <2>4. CASE f \in Results
    <3>1. /\ f.type = "result" /\ f.is_error \in BOOLEAN
          /\ w.phase \in {"told", "failed"} \/ f.is_error
      BY <2>4
    <3>2. (v.fault <=> w.fault \/ f.is_error) /\ v.complete = w.complete /\ v.phase = "over"
      BY <3>1 DEF ClaudeAfter, WireOK
    <3>3. ~ f.is_error /\ ~ s.terminated => w.fault
      BY <3>1 DEF Ends
    <3>4. Speaks(t, S) /\ t.terminated
      BY <2>0, <3>1, <3>2, <3>3, ClaudeSpeaks, SayableWords
    <3>5. f.is_error => Errs(t)
      <4> DEFINE u == [s EXCEPT !.terminated = TRUE]
      <4>1. IsDecodeState(u)
        BY SpeaksFlag DEF Speaks
      <4>2. f.is_error => t = Emit(u, Error(ResultKind(f, s)))
        BY <3>1 DEF ClaudeDecode, Result
      <4>3. ResultKind(f, s) \in ErrorKinds
        BY <2>4 DEF ResultKind, StatusKind, ErrorKinds
      <4> HIDE DEF u
      <4> QED  BY <4>1, <4>2, <4>3, ErringErrs
    <3> HIDE DEF t
    <3>6. Ends("claude", v, t)
      BY <3>1, <3>2, <3>4 DEF Ends
    <3> QED  BY <2>2, <3>2, <3>4, <3>5, <3>6 DEF Relays, t
  <2> QED  BY <2>1, <2>3, <2>4
<1> QED  BY <1>1, <1>2

\* What a Responses event does to the provider's own account of the end.
LEMMA ResponseWords ==
    ASSUME NEW w, WireOK("responses", w), NEW f \in ResponseFrames(w)
    PROVE  LET v == ResponseAfter(w, f)
           IN  /\ v.fault <=> w.fault \/ f.type = "failed"
               /\ v.complete <=> w.complete \/ f.type \in {"completed", "incomplete"}
               /\ v.phase = "failed" => v.fault
               /\ v.phase # "told"
<1> DEFINE v == ResponseAfter(w, f)
<1>1. w.phase \in {"before", "open"}
  BY DEF ResponseFrames
<1>2. CASE f.type = "failed"
  BY <1>1, <1>2 DEF ResponseAfter, Failed, WireOK
<1>3. CASE f.type \in {"completed", "incomplete"}
  BY <1>1, <1>3 DEF ResponseAfter, Over, WireOK
<1>4. CASE f.type = "created"
  BY <1>1, <1>4 DEF ResponseAfter, WireOK
<1>5. CASE f.type = "item_added"
  BY <1>1, <1>5 DEF ResponseAfter, WireOK
<1>6. CASE f.type = "part_added"
  <2> DEFINE live == {IF b.index = f.item /\ b.parts = f.part
                      THEN [b EXCEPT !.parts = f.part + 1] ELSE b : b \in w.live}
  <2>1. v = [w EXCEPT !.live = live]
    BY <1>6 DEF ResponseAfter
  <2> HIDE DEF live, v
  <2>2. v.fault = w.fault /\ v.complete = w.complete /\ v.phase = w.phase
    BY <2>1 DEF WireOK
  <2> QED  BY <1>1, <1>6, <2>2 DEF v
<1>7. CASE f.type = "item_done"
  BY <1>1, <1>7 DEF ResponseAfter, WireOK
<1>8. CASE f.type \notin {"failed", "completed", "incomplete", "created", "item_added", "part_added", "item_done"}
  BY <1>1, <1>8 DEF ResponseAfter
<1> QED  BY <1>2, <1>3, <1>4, <1>5, <1>6, <1>7, <1>8

\* The events of the Responses API.
LEMMA ResponseRelays ==
    ASSUME NEW w, WireOK("responses", w), NEW f \in ResponseFrames(w), NEW s, NEW S, Speaks(s, S),
           Ends("responses", w, s), NEW v, v = ResponseAfter(w, f), Sayable("responses", v) \subseteq S
    PROVE  Relays("responses", w, v, ResponsesDecode(f, s), S)
<1> DEFINE t == ResponsesDecode(f, s)
<1>1. /\ v.fault <=> w.fault \/ f.type = "failed"
      /\ v.complete <=> w.complete \/ f.type \in {"completed", "incomplete"}
      /\ v.phase = "failed" => v.fault
      /\ v.phase # "told"
  BY ResponseWords
<1>2. f \in ResponsesFrames /\ AllVerdicts \subseteq S
  <2>1. f \in ResponsesFrames
    BY ResponseFramesType
  <2>2. "responses" \notin {"google", "ollama"}
    OBVIOUS
  <2> QED  BY <2>1, <2>2, SayableWords
<1>3. f.type = "failed" => f.kind \in ErrorKinds /\ Error(f.kind) \in S
  <2>1. f.type = "failed" => f.kind \in ErrorKinds
    BY <1>2 DEF ResponsesFrames
  <2> QED  BY <1>1, <2>1, SayableWords
<1>4. Speaks(t, S) /\ (t.terminated <=> s.terminated \/ f.type \in {"completed", "incomplete"})
  BY <1>2, <1>3, ResponsesSpeaks
<1>5. f.type = "failed" => Errs(t)
  BY <1>3, ErringErrs DEF ResponsesDecode, Speaks
<1>6. VerdictsOn("responses", w) \subseteq VerdictsOn("responses", v) /\ Tooled("responses", v, t)
  BY DEF VerdictsOn, Tooled
<1> HIDE DEF t
<1>7. Ends("responses", v, t)
  BY <1>1, <1>4 DEF Ends
<1> QED  BY <1>1, <1>4, <1>5, <1>6, <1>7 DEF Relays, t

\* The error frames of Google and Ollama.
LEMMA FailingRelays ==
    ASSUME NEW d \in {"google", "ollama"}, NEW w, WireOK(d, w), NEW s, NEW S, Speaks(s, S),
           Ends(d, w, s), w.phase \in {"before", "open"}, NEW k \in ErrorKinds,
           Sayable(d, Failed(w)) \subseteq S
    PROVE  Relays(d, w, Failed(w), Emit(s, Error(k)), S)
<1> DEFINE v == Failed(w)
           t == Emit(s, Error(k))
<1>1. v.fault = TRUE /\ v.phase = "failed" /\ v.complete = w.complete
  BY DEF Failed, WireOK
<1>2. Error(k) \in S
  BY <1>1, SayableWords
<1>3. Speaks(t, S) /\ t.terminated = s.terminated
  BY <1>2, SpeaksOnce
<1>4. Errs(t)
  BY ErringErrs DEF Speaks
<1>5. VerdictsOn(d, w) = {}
  BY DEF VerdictsOn
<1> HIDE DEF t, v
<1>6. Ends(d, v, t) /\ Tooled(d, v, t)
  BY <1>1, <1>3 DEF Ends, Tooled
<1> QED  BY <1>1, <1>3, <1>4, <1>5, <1>6 DEF Relays, t, v

\* The frames of Google.
LEMMA GoogleRelays ==
    ASSUME NEW w, WireOK("google", w), NEW f \in GoogleFrames(w), NEW s, NEW S, Speaks(s, S),
           Ends("google", w, s), Tooled("google", w, s),
           NEW v, v = GoogleAfter(w, f), Sayable("google", v) \subseteq S
    PROVE  Relays("google", w, v, GenaiDecode(f, s), S)
<1> DEFINE t == GenaiDecode(f, s)
           over == f.finish # "none" \/ f.blocked
<1>1. w.phase \in {"before", "open"} /\ f \in GenaiFrames
  BY GoogleFramesType DEF GoogleFrames
<1>2. CASE f.type = "error"
  <2>1. f.kind \in ErrorKinds
    BY <1>1, <1>2 DEF GenaiFrames
  <2>2. v = Failed(w) /\ t = Emit(s, Error(f.kind))
    BY <1>2 DEF GoogleAfter, GenaiDecode
  <2>3. "google" \in {"google", "ollama"}
    OBVIOUS
  <2> HIDE DEF t
  <2> QED  BY <1>1, <2>1, <2>2, <2>3, FailingRelays DEF t
<1>3. CASE f.type # "error"
  <2>1. /\ f.type = "chunk" /\ f.finish \in {"none", "Stop", "Length"}
        /\ f.call \in BOOLEAN /\ f.blocked \in BOOLEAN
    BY <1>3 DEF GoogleFrames, ErrorFrames
  <2>2. /\ v.phase = (IF over THEN "over" ELSE "open") /\ (v.complete <=> over)
        /\ (v.tool <=> w.tool \/ f.call) /\ v.fault = w.fault
    BY <1>3 DEF GoogleAfter, WireOK
  <2>3. Calls(s, w.tool)
    BY <1>1 DEF Tooled
  <2> DEFINE r == IF v.tool THEN "ToolUse" ELSE f.finish
  <2>4. f.finish # "none" => Finish(r) \in S
    <3>1. f.finish # "none" => r \in VerdictsOn("google", v)
      BY <2>1, <2>2 DEF VerdictsOn, Reasons
    <3> QED  BY <3>1, SayableWords
  <2>5. f.finish = "none" /\ f.blocked => Finish("Refusal") \in S
    <3>1. f.blocked => "Refusal" \in VerdictsOn("google", v)
      BY <2>2 DEF VerdictsOn, Reasons
    <3> QED  BY <3>1, SayableWords
  <2>6. /\ Speaks(t, S)
        /\ t.terminated <=> s.terminated \/ f.finish # "none" \/ f.blocked
        /\ f.finish = "none" /\ ~ f.blocked => Calls(t, v.tool)
    BY <1>1, <2>1, <2>2, <2>3, <2>4, <2>5, GenaiSpeaks
  <2>7. VerdictsOn("google", w) = {}
    BY <1>1 DEF VerdictsOn
  <2> HIDE DEF t
  <2>8. Ends("google", v, t)
    BY <1>1, <2>2, <2>6 DEF Ends
  <2>9. Tooled("google", v, t)
    BY <2>2, <2>6 DEF Tooled
  <2> QED  BY <2>2, <2>6, <2>7, <2>8, <2>9 DEF Relays, t
<1> QED  BY <1>2, <1>3

\* The lines of Ollama.
LEMMA OllamaRelays ==
    ASSUME NEW w, WireOK("ollama", w), NEW f \in OllamaLines(w), NEW s, NEW S, Speaks(s, S),
           Ends("ollama", w, s), Tooled("ollama", w, s),
           NEW v, v = OllamaAfter(w, f), Sayable("ollama", v) \subseteq S
    PROVE  Relays("ollama", w, v, OllamaDecode(f, s), S)
<1> DEFINE t == OllamaDecode(f, s)
<1>1. w.phase \in {"before", "open"} /\ f \in OllamaFrames
  BY OllamaFramesType DEF OllamaLines
<1>2. CASE f.type = "error"
  <2>1. "Transport" \in ErrorKinds
    BY DEF ErrorKinds
  <2>2. v = Failed(w) /\ t = Emit(s, Error("Transport"))
    BY <1>2 DEF OllamaAfter, OllamaDecode
  <2>3. "ollama" \in {"google", "ollama"}
    OBVIOUS
  <2> HIDE DEF t
  <2> QED  BY <1>1, <2>1, <2>2, <2>3, FailingRelays DEF t
<1>3. CASE f.type # "error"
  <2>1. f.type = "line" /\ f.reason \in {"Stop", "Length"} /\ f.call \in BOOLEAN /\ f.done \in BOOLEAN
    BY <1>3 DEF OllamaLines, ErrorFrames
  <2>2. /\ v.phase = (IF f.done THEN "over" ELSE "open") /\ v.complete = f.done
        /\ (v.tool <=> w.tool \/ f.call) /\ v.fault = w.fault
    BY <1>3 DEF OllamaAfter, WireOK
  <2>3. Calls(s, w.tool)
    BY <1>1 DEF Tooled
  <2> DEFINE r == IF v.tool THEN "ToolUse" ELSE f.reason
  <2>4. f.done => Finish(r) \in S
    <3>1. f.done => r \in VerdictsOn("ollama", v)
      BY <2>1, <2>2 DEF VerdictsOn, Reasons
    <3> QED  BY <3>1, SayableWords
  <2>5. /\ Speaks(t, S)
        /\ t.terminated <=> s.terminated \/ f.done
        /\ ~ f.done => Calls(t, v.tool)
    BY <1>1, <2>1, <2>2, <2>3, <2>4, OllamaSpeaks
  <2>6. VerdictsOn("ollama", w) = {}
    BY <1>1 DEF VerdictsOn
  <2> HIDE DEF t
  <2>7. Ends("ollama", v, t)
    BY <1>1, <2>1, <2>2, <2>5 DEF Ends
  <2>8. Tooled("ollama", v, t)
    BY <2>2, <2>5 DEF Tooled
  <2> QED  BY <2>2, <2>5, <2>6, <2>7, <2>8 DEF Relays, t
<1> QED  BY <1>2, <1>3

\* One frame, from the provider's state to its next one.
LEMMA FrameRelays ==
    ASSUME NEW d \in Dialects, NEW w, WireOK(d, w), NEW f \in Sends(d, w), NEW s, NEW S, Speaks(s, S),
           Ends(d, w, s), Tooled(d, w, s), Sayable(d, After(d, w, f)) \subseteq S
    PROVE  Relays(d, w, After(d, w, f), DecodeFrame(d, f, s), S)
<1> DEFINE v == Answer(d, w, f)
           a == After(d, w, f)
           t == DecodeFrame(d, f, s)
<1>1. WireOK(d, a)
  BY AfterType
<1>2. a = [v EXCEPT !.sent = v.sent + 1]
  BY DEF After
<1>3. a.phase = v.phase /\ a.tool = v.tool /\ a.complete = v.complete /\ a.fault = v.fault
  <2> HIDE DEF a, v
  <2> QED  BY <1>1, <1>2 DEF WireOK
<1>4. VerdictsOn(d, a) = VerdictsOn(d, v)
  BY <1>3 DEF VerdictsOn
<1>5. Sayable(d, v) \subseteq S
  BY <1>3, <1>4 DEF Sayable
<1>6. Relays(d, w, v, t, S)
  <2>1. CASE f.type = "malformed"
    <3>1. v = [w EXCEPT !.fault = TRUE] /\ t = Emit(s, Error("Transport"))
      BY <2>1 DEF Answer, DecodeFrame
    <3> HIDE DEF v, t, a
    <3> QED  BY <1>5, <3>1, MalformedRelays
  <2>2. CASE f.type # "malformed"
    <3>0. f # Malformed
      BY <2>2 DEF Malformed
    <3>1. CASE d = "openai"
      <4>1. f \in OpenAiFrames(w) /\ t = ChatDecode(f, s) /\ v = OpenAiAfter(w, f)
        BY <2>2, <3>0, <3>1 DEF Sends, DecodeFrame, Answer
      <4> HIDE DEF v, t, a
      <4> QED  BY <1>5, <3>1, <4>1, ChatRelays
    <3>2. CASE d = "google"
      <4>1. f \in GoogleFrames(w) /\ t = GenaiDecode(f, s) /\ v = GoogleAfter(w, f)
        BY <2>2, <3>0, <3>2 DEF Sends, DecodeFrame, Answer
      <4> HIDE DEF v, t, a
      <4> QED  BY <1>5, <3>2, <4>1, GoogleRelays
    <3>3. CASE d = "ollama"
      <4>1. f \in OllamaLines(w) /\ t = OllamaDecode(f, s) /\ v = OllamaAfter(w, f)
        BY <2>2, <3>0, <3>3 DEF Sends, DecodeFrame, Answer
      <4> HIDE DEF v, t, a
      <4> QED  BY <1>5, <3>3, <4>1, OllamaRelays
    <3>4. CASE d = "anthropic"
      <4>1. f \in AnthropicFrames(w) /\ t = MessagesDecode(f, s) /\ v = AnthropicAfter(w, f)
        BY <2>2, <3>0, <3>4 DEF Sends, DecodeFrame, Answer
      <4>2. (v.phase = "failed" => v.fault) /\ v.phase # "told"
        BY <3>4, <4>1, AnthropicWords
      <4> HIDE DEF v, t, a
      <4> QED  BY <1>5, <3>4, <4>1, <4>2, MessagesRelays
    <3>5. CASE d = "claude"
      <4>1. f \in ClaudeLines(w) /\ t = ClaudeDecode(f, s) /\ v = ClaudeAfter(w, f)
        BY <2>2, <3>0, <3>5 DEF Sends, DecodeFrame, Answer
      <4> HIDE DEF v, t, a
      <4> QED  BY <1>5, <3>5, <4>1, ClaudeRelays
    <3>6. CASE d = "responses"
      <4>1. f \in ResponseFrames(w) /\ t = ResponsesDecode(f, s) /\ v = ResponseAfter(w, f)
        BY <2>2, <3>0, <3>6 DEF Sends, DecodeFrame, Answer
      <4> HIDE DEF v, t, a
      <4> QED  BY <1>5, <3>6, <4>1, ResponseRelays
    <3> QED  BY <3>1, <3>2, <3>3, <3>4, <3>5, <3>6 DEF Dialects
  <2> QED  BY <2>1, <2>2
<1> HIDE DEF v, t, a
<1>7. Ends(d, a, t) /\ Tooled(d, a, t)
  BY <1>3, <1>6 DEF Relays, Ends, Tooled
<1> QED  BY <1>3, <1>4, <1>6, <1>7 DEF Relays, a, t

(***************************************************************************)
(* The driver and the pump: what is queued or was delivered, against what  *)
(* happened to the stream.                                                 *)
(***************************************************************************)
\* The terminal marker had not come when nothing more could be decoded.
Cut == finished /\ ~ state.terminated

\* What may be queued: an error that has its reason, and a verdict of this provider.  The
\* transport was lost, or the end was cut off, or neither.
MayQueue(d, w, lost, cut) ==
    {e \in Event :
        /\ e.type = "Error" =>
              \/ e.detail = 0 /\ (w.fault \/ lost)
              \/ e.detail <= HeadCap /\ cut /\ (e.detail > 0 => w.sent = 0)
        /\ e.type = "Finish" => e.reason \in VerdictsOn(d, w)}

Queueable == MayQueue(dialect, wire, dropped, Cut)

EndInv ==
    /\ Ends(dialect, wire, state)
    /\ ~ finished => Tooled(dialect, wire, state)
    /\ pending \in Seq(Queueable)
    /\ event \in Queueable \cup {[type |-> "None"]}
    /\ exit # 0 /\ status # "broken" => wire.fault \/ dropped \/ Cut
    /\ verdict # "none" => verdict \in VerdictsOn(dialect, wire)
    /\ wire.fault \/ dropped => Doomed
    /\ saw_frame <=> wire.sent > 0

\* What a decoder may say may be queued.
LEMMA SayableIsQueueable ==
    ASSUME NEW d, NEW w, NEW lost, NEW cut
    PROVE  Sayable(d, w) \subseteq MayQueue(d, w, lost, cut)
<1> DEFINE Q == MayQueue(d, w, lost, cut)
<1> SUFFICES ASSUME NEW e \in Sayable(d, w) PROVE e \in Q
  OBVIOUS
<1>1. CASE e \in Plain
  BY <1>1 DEF Plain, MayQueue
<1>2. ASSUME NEW k \in ErrorKinds, w.fault, e = Error(k) PROVE e \in Q
  <2>1. e.type = "Error" /\ e.detail = 0 /\ e \in Event
    BY <1>2, EventTypes DEF Error, ErrorWith
  <2> QED  BY <1>2, <2>1 DEF MayQueue
<1>3. ASSUME NEW r \in VerdictsOn(d, w), e = Finish(r) PROVE e \in Q
  <2>1. e.type = "Finish" /\ e.reason = r /\ e \in Event
    BY <1>3, EventTypes DEF Finish, VerdictsOn
  <2> QED  BY <2>1 DEF MayQueue
<1> QED  BY <1>1, <1>2, <1>3 DEF Sayable

\* A reason to fail does not go away, and a verdict stays a verdict.
LEMMA QueueableStays ==
    ASSUME wire.fault => wire'.fault, dropped => dropped',
           VerdictsOn(dialect, wire) \subseteq VerdictsOn(dialect', wire'),
           Cut => Cut' /\ wire' = wire
    PROVE  Queueable \subseteq Queueable'
  BY DEF Queueable, MayQueue

\* More is decoded.
LEMMA QueueGrows ==
    ASSUME TypeOK, pending \in Seq(Queueable), Queueable \subseteq Queueable',
           NEW t, t.out \in Seq(Queueable'), Decoded(t)
    PROVE  pending' \in Seq(Queueable')
<1> DEFINE P == Queueable'
<1>1. pending \in Seq(P) /\ t.out \in Seq(P)
  BY DEF TypeOK
<1> HIDE DEF P
<1>2. pending \o t.out \in Seq(P)
  BY <1>1
<1> QED  BY <1>2 DEF Decoded, P

\* An error in the queue stays there while the queue grows.
LEMMA DoomStays ==
    ASSUME TypeOK, NEW t, t.out \in Seq(Event), Decoded(t), exit' = exit
    PROVE  Doomed => Doomed'
<1>1. pending \in Seq(Event) /\ pending' = pending \o t.out
  BY DEF TypeOK, Decoded
<1>2. \A n \in 1..Len(pending) : n \in 1..Len(pending') /\ pending'[n] = pending[n]
  BY <1>1
<1> QED  BY <1>2 DEF Doomed

\* An error frame puts an error in the queue.
LEMMA ErrsDoom ==
    ASSUME TypeOK, NEW t, Errs(t), Decoded(t)
    PROVE  Doomed'
<1>1. PICK q \in Seq(Event), k \in ErrorKinds : t.out = Append(q, Error(k))
  BY DEF Errs
<1>2. pending \in Seq(Event) /\ pending' = pending \o Append(q, Error(k))
  BY <1>1 DEF TypeOK, Decoded
<1> DEFINE n == Len(pending) + Len(q) + 1
           e == Error(k)
<1>3. e.type = "Error"
  BY DEF Error, ErrorWith
<1> HIDE DEF e
<1>4. n \in 1..Len(pending \o Append(q, e)) /\ (pending \o Append(q, e))[n] = e
  BY <1>2
<1> QED  BY <1>2, <1>3, <1>4 DEF Doomed, e

\* What is decoded after the end was found to be missing: the blocks are stopped and the
\* error is queued.
LEMMA CutSpeaks ==
    ASSUME NEW S, NEW s, Speaks(s, S), NEW n \in Nat, ErrorWith("Transport", n) \in S
    PROVE  LET t == Emit(Drain(s), ErrorWith("Transport", n))
           IN  Speaks(t, S) /\ t.terminated = s.terminated
<1>1. Speaks(Drain(s), S) /\ Drain(s).terminated = s.terminated
  BY SpeaksDraining
<1> QED  BY <1>1, SpeaksOnce

\* Between two frames the decoder's own queue is empty.
LEMMA StateSpeaks ==
    ASSUME TypeOK, NEW S, Plain \subseteq S, S \subseteq Event
    PROVE  Speaks(state, S)
<1>1. IsDecodeState(state) /\ state.out = <<>>
  BY DEF TypeOK
<1>2. <<>> \in Seq(S)
  OBVIOUS
<1> QED  BY <1>1, <1>2 DEF Speaks

\* Plain events may always be queued.
LEMMA PlainIsQueueable ==
    \A d, w, lost, cut : Plain \subseteq MayQueue(d, w, lost, cut) /\ MayQueue(d, w, lost, cut) \subseteq Event
  BY DEF Plain, MayQueue

\* At the beginning nothing has failed.
LEMMA InitEnds == Init => EndInv
<1> SUFFICES ASSUME Init PROVE EndInv
  OBVIOUS
<1>1. /\ state = Default /\ wire = WireInit /\ pending = <<>> /\ ~ finished /\ ~ dropped /\ ~ saw_frame
      /\ event = [type |-> "None"] /\ exit = 0 /\ verdict = "none"
  BY DEF Init
<1>2. DOMAIN EmptyFn = {}
  BY DEF EmptyFn
<1>3. /\ state.open = EmptyFn /\ state.terminated = FALSE
      /\ wire.phase = "before" /\ wire.tool = FALSE /\ wire.complete = FALSE
      /\ wire.fault = FALSE /\ wire.sent = 0
  BY <1>1 DEF Default, WireInit
<1>4. Ends(dialect, wire, state)
  BY <1>3 DEF Ends
<1>5. Calls(state, wire.tool)
  BY <1>2, <1>3 DEF Calls, OpenOf
<1>6. <<>> \in Seq(Queueable)
  OBVIOUS
<1> QED  BY <1>1, <1>3, <1>4, <1>5, <1>6 DEF EndInv, Tooled

\* One frame of a chunk.
LEMMA ReadFrameEnds ==
    ASSUME TypeOK, TruncationInv, EndInv, ReadFrame
    PROVE  EndInv'
<1>1. PICK f \in Sends(dialect, wire) :
          Decoded(DecodeFrame(dialect, f, state)) /\ wire' = After(dialect, wire, f)
  BY DEF ReadFrame
<1>2. /\ ~ finished /\ ~ finished' /\ dialect' = dialect /\ dropped' = dropped /\ saw_frame' = TRUE
      /\ event' = event /\ exit' = exit /\ verdict' = verdict /\ status' = status
  BY DEF ReadFrame, TruncationInv, client
<1>3. dialect \in Dialects /\ WireOK(dialect, wire)
  BY SentIsDialect DEF TypeOK
<1> DEFINE S == Queueable'
           t == DecodeFrame(dialect, f, state)
<1>4. Plain \subseteq S /\ S \subseteq Event
  BY PlainIsQueueable DEF Queueable
<1>5. Sayable(dialect, wire') \subseteq S
  <2>1. Sayable(dialect', wire') \subseteq S
    BY SayableIsQueueable DEF Queueable
  <2> QED  BY <1>2, <2>1
<1>6. Decoded(t)
  BY <1>1
<1> HIDE DEF S, t
<1>7. Speaks(state, S)
  BY <1>4, StateSpeaks
<1>8. Relays(dialect, wire, wire', t, S)
  <2>1. Ends(dialect, wire, state) /\ Tooled(dialect, wire, state)
    BY <1>2 DEF EndInv
  <2> QED  BY <1>1, <1>3, <1>5, <1>7, <2>1, FrameRelays DEF t
<1>9. state'.terminated = t.terminated /\ state'.open = t.open
  BY <1>6, <1>8, Fields DEF Decoded, Relays, Speaks
<1>10. Queueable \subseteq S
  BY <1>2, <1>8, QueueableStays DEF S, Relays, Cut
<1>11. pending' \in Seq(S)
  <2>1. t.out \in Seq(S)
    BY <1>8 DEF Relays, Speaks
  <2> QED  BY <1>6, <1>10, <2>1, QueueGrows DEF S, EndInv
<1>12. wire'.fault \/ dropped' => Doomed'
  <2>1. Doomed => Doomed'
    BY <1>2, <1>6, <1>8, DoomStays, Fields DEF Relays, Speaks
  <2>2. Errs(t) => Doomed'
    BY <1>6, ErrsDoom
  <2> QED  BY <1>2, <1>8, <2>1, <2>2 DEF EndInv, Relays
<1>13. wire'.sent > 0
  <2>1. wire'.sent = wire.sent + 1 /\ wire.sent \in Nat
    BY <1>1, <1>3, AfterType, ProviderAssumption DEF WireOK
  <2> QED  BY <2>1
<1>14. Ends(dialect', wire', state') /\ Tooled(dialect', wire', state')
  <2>1. Ends(dialect, wire', state')
    BY <1>8, <1>9 DEF Relays, Ends
  <2>2. Tooled(dialect, wire', state')
    BY <1>8, <1>9, CallsStay DEF Relays, Tooled
  <2> QED  BY <1>2, <2>1, <2>2
<1>15. event' \in S \cup {[type |-> "None"]}
  BY <1>2, <1>10 DEF EndInv
<1>16. verdict' # "none" => verdict' \in VerdictsOn(dialect', wire')
  BY <1>2, <1>8 DEF EndInv, Relays
<1>17. exit' # 0 /\ status' # "broken" => wire'.fault \/ dropped' \/ Cut'
  BY <1>2, <1>8 DEF EndInv, Relays, Cut
<1> QED  BY <1>2, <1>11, <1>12, <1>13, <1>14, <1>15, <1>16, <1>17 DEF EndInv, S

\* Nothing of this is touched.
LEMMA RestEnds ==
    ASSUME EndInv, UNCHANGED <<dialect, wire, state, pending, finished, dropped, saw_frame, client>>
    PROVE  EndInv'
<1>1. UNCHANGED <<event, exit, verdict, status>>
  BY DEF client
<1>2. Queueable' = Queueable /\ (Doomed' <=> Doomed) /\ (Cut' <=> Cut)
  BY <1>1 DEF Queueable, Doomed, Cut
<1> QED  BY <1>1, <1>2 DEF EndInv

\* The transport is lost: the reason of the error is `dropped`.
LEMMA DropEnds ==
    ASSUME TypeOK, TruncationInv, EndInv, Drop
    PROVE  EndInv'
<1> DEFINE S == Queueable'
           t == Emit(Drain(state), ErrorWith("Transport", 0))
<1>1. /\ ~ finished /\ finished' = TRUE /\ dropped' = TRUE /\ UNCHANGED <<dialect, wire, saw_frame>>
      /\ event' = event /\ exit' = exit /\ verdict' = verdict /\ status' = status
      /\ Decoded(t)
  BY DEF Drop, AtBody, client, Error
<1>2. Plain \subseteq S /\ S \subseteq Event
  BY PlainIsQueueable DEF Queueable
<1>3. ErrorWith("Transport", 0) \in S
  <2> DEFINE e == ErrorWith("Transport", 0)
  <2>1. e \in Event /\ e.type = "Error" /\ e.detail = 0
    BY EventTypes DEF ErrorKinds, ErrorWith
  <2> HIDE DEF e
  <2> QED  BY <1>1, <2>1 DEF Queueable, MayQueue, e
<1>4. Queueable \subseteq S
  BY <1>1, QueueableStays DEF Cut
<1> HIDE DEF S
<1>5. Speaks(t, S) /\ t.terminated = state.terminated
  BY <1>2, <1>3, StateSpeaks, CutSpeaks
<1>6. Doomed'
  BY <1>1, CutShortQueues DEF TypeOK
<1> HIDE DEF t
<1>7. state'.terminated = state.terminated
  BY <1>1, <1>5, Fields DEF Decoded, Speaks
<1>8. pending' \in Seq(S)
  BY <1>1, <1>4, <1>5, QueueGrows DEF S, EndInv, Speaks
<1>9. Ends(dialect, wire, state')
  BY <1>7 DEF EndInv, Ends
<1>10. event' \in S \cup {[type |-> "None"]}
  BY <1>1, <1>4 DEF EndInv
<1> QED  BY <1>1, <1>6, <1>8, <1>9, <1>10 DEF EndInv, S

\* The end of the body, once its last frame s is decoded.
LEMMA AtEofEnds ==
    ASSUME TypeOK, EndInv, ~ finished, finished' = TRUE, UNCHANGED <<dialect, dropped, client>>,
           NEW s, Speaks(s, Queueable'), Ends(dialect, wire', s),
           wire.fault => wire'.fault, wire'.fault => wire.fault \/ Errs(s),
           VerdictsOn(dialect, wire) \subseteq VerdictsOn(dialect, wire'),
           NEW seen, NEW n \in 0..HeadCap, ~ seen /\ n > 0 => wire'.sent = 0,
           Decoded(AtEof(s, seen, n)), saw_frame' <=> wire'.sent > 0
    PROVE  EndInv'
<1> DEFINE S == Queueable'
           m == IF seen THEN 0 ELSE n
           e == ErrorWith("Transport", m)
           r == Emit(Drain(s), e)
           t == AtEof(s, seen, n)
<1>0. event' = event /\ exit' = exit /\ verdict' = verdict /\ status' = status
  BY DEF client
<1>1. m \in Nat /\ m <= HeadCap /\ (m > 0 => wire'.sent = 0)
  BY StreamAssumption
<1>2. Queueable \subseteq S
  BY QueueableStays DEF Cut
<1>3. e \in Event /\ e.type = "Error" /\ e.detail = m
  BY <1>1, EventTypes DEF ErrorKinds, ErrorWith
<1>4. t = IF s.terminated THEN s ELSE r
  BY DEF AtEof, PrematureEof
<1>5. Decoded(t)
  OBVIOUS
<1>6. \A E \in SUBSET Event : Speaks(s, E) /\ e \in E =>
          Speaks(r, E) /\ r.terminated = s.terminated
  BY <1>1, CutSpeaks
<1>7. Speaks(s, Event) /\ s.terminated \in BOOLEAN
  <2>1. \A q \in Seq(S) : q \in Seq(Event)
    BY DEF Speaks
  <2> QED  BY <2>1, Fields DEF Speaks
<1>8. r.terminated = s.terminated /\ IsDecodeState(r)
  <2>1. Event \in SUBSET Event
    OBVIOUS
  <2> QED  BY <1>3, <1>6, <1>7, <2>1 DEF Speaks
<1> HIDE DEF t, r, e, m
<1>9. state'.terminated = s.terminated
  BY <1>4, <1>5, <1>7, <1>8, Fields DEF Decoded, Speaks
<1>10. ~ s.terminated => e \in S
  BY <1>1, <1>3, <1>9 DEF Queueable, MayQueue, Cut
<1>11. Speaks(t, S)
  <2>1. S \subseteq Event
    BY DEF Speaks
  <2> HIDE DEF S
  <2> QED  BY <1>4, <1>6, <1>10, <2>1 DEF S
<1>12. pending' \in Seq(S)
  BY <1>2, <1>5, <1>11, QueueGrows DEF EndInv, Speaks
<1>13. wire'.fault \/ dropped' => Doomed'
  <2>1. Doomed => Doomed'
    BY <1>0, <1>5, <1>11, DoomStays, Fields DEF Speaks
  <2>2. s.terminated /\ Errs(s) => Doomed'
    BY <1>4, <1>5, ErrsDoom
  <2>3. ~ s.terminated => Doomed'
    <3>1. ~ s.terminated => Decoded(Emit(Drain(s), ErrorWith("Transport", m)))
      BY <1>4, <1>5 DEF r, e
    <3> QED  BY <1>1, <1>7, <3>1, CutShortQueues DEF TypeOK, Speaks
  <2> QED  BY <2>1, <2>2, <2>3 DEF EndInv
<1>14. Ends(dialect', wire', state')
  BY <1>9 DEF Ends
<1>15. event' \in S \cup {[type |-> "None"]}
  BY <1>0, <1>2 DEF EndInv
<1>16. exit' # 0 /\ status' # "broken" => wire'.fault \/ dropped' \/ Cut'
  BY <1>0 DEF EndInv, Cut
<1>17. verdict' # "none" => verdict' \in VerdictsOn(dialect', wire')
  BY <1>0 DEF EndInv
<1> QED  BY <1>12, <1>13, <1>14, <1>15, <1>16, <1>17 DEF EndInv, S

\* The end of the body, with or without a last unterminated frame.
LEMMA FlushEnds ==
    ASSUME TypeOK, EndInv, FlushAtEof
    PROVE  EndInv'
<1>1. ~ finished /\ finished' = TRUE /\ UNCHANGED <<dialect, dropped, client>>
  BY DEF FlushAtEof, AtBody
<1>2. dialect \in Dialects /\ WireOK(dialect, wire) /\ HeadCap \in Nat /\ wire.sent \in Nat
  BY SentIsDialect, StreamAssumption, ProviderAssumption DEF TypeOK, WireOK
<1> DEFINE S == Queueable'
<1>3. Plain \subseteq S /\ S \subseteq Event
  BY PlainIsQueueable DEF Queueable
<1>4. Sayable(dialect, wire') \subseteq S
  <2>1. Sayable(dialect', wire') \subseteq S
    BY SayableIsQueueable DEF Queueable
  <2> QED  BY <1>1, <2>1
<1> HIDE DEF S
<1>5. Speaks(state, S)
  BY <1>3, StateSpeaks
<1>6. CASE Decoded(AtEof(state, saw_frame, head)) /\ UNCHANGED <<wire, saw_frame, head>>
  <2>1. /\ head \in 0..HeadCap /\ (~ saw_frame /\ head > 0 => wire'.sent = 0)
        /\ saw_frame' <=> wire'.sent > 0
    BY <1>2, <1>6 DEF TypeOK, EndInv
  <2>2. Ends(dialect, wire', state)
    BY <1>6 DEF EndInv
  <2> QED  BY <1>1, <1>5, <1>6, <2>1, <2>2, AtEofEnds DEF S
<1>7. CASE \E f \in Sends(dialect, wire) :
             /\ Decoded(AtEof(DecodeFrame(dialect, f, state), TRUE, 0))
             /\ wire' = After(dialect, wire, f)
             /\ saw_frame' = TRUE /\ head' = 0
  <2>1. PICK f \in Sends(dialect, wire) :
             /\ Decoded(AtEof(DecodeFrame(dialect, f, state), TRUE, 0))
             /\ wire' = After(dialect, wire, f)
             /\ saw_frame' = TRUE
    BY <1>7
  <2> DEFINE s == DecodeFrame(dialect, f, state)
  <2>2. Relays(dialect, wire, wire', s, S)
    <3>1. Ends(dialect, wire, state) /\ Tooled(dialect, wire, state)
      BY <1>1 DEF EndInv
    <3> QED  BY <1>2, <1>4, <1>5, <2>1, <3>1, FrameRelays
  <2>3. wire'.sent > 0
    BY <1>2, <2>1, AfterType
  <2>4. Decoded(AtEof(s, TRUE, 0))
    BY <2>1
  <2>5. saw_frame' = TRUE /\ TRUE \in BOOLEAN
    BY <2>1
  <2>6. 0 \in 0..HeadCap
    BY <1>2
  <2> HIDE DEF s
  <2> QED  BY <1>1, <2>2, <2>3, <2>4, <2>5, <2>6, AtEofEnds DEF Relays, S
<1> QED  BY <1>6, <1>7 DEF FlushAtEof

\* One event is delivered.
LEMMA YieldEnds ==
    ASSUME TypeOK, TruncationInv, EndInv, Yield
    PROVE  EndInv'
<1>1. /\ pending # <<>> /\ pending \in Seq(Queueable) /\ pending' = Tail(pending) /\ status = "running"
      /\ UNCHANGED <<dialect, wire, state, finished, dropped, saw_frame>>
  BY DEF Yield, EndInv
<1>2. Queueable' = Queueable /\ (Cut' <=> Cut)
  BY <1>1 DEF Queueable, Cut
<1>3. pending' \in Seq(Queueable')
  BY <1>1, <1>2
<1>4. /\ Ends(dialect', wire', state')
      /\ ~ finished' => Tooled(dialect', wire', state')
      /\ saw_frame' <=> wire'.sent > 0
  BY <1>1 DEF EndInv
<1>5. CASE WriteFails
  <2>1. status' = "broken" /\ exit' # 0 /\ UNCHANGED <<event, verdict>>
    BY <1>5, ErrorsAreNotZero DEF WriteFails
  <2> QED  BY <1>1, <1>2, <1>3, <1>4, <2>1 DEF EndInv, Doomed
<1>6. CASE Pump(Head(pending)) /\ UNCHANGED status
  <2> DEFINE e == Head(pending)
  <2>1. e \in Queueable /\ e \in Event
    BY <1>1, PlainIsQueueable DEF Queueable
  <2>2. /\ event' = e
        /\ exit' = IF e.type = "Error" THEN ExitOf[e.kind] ELSE exit
        /\ verdict' = IF e.type = "Finish" THEN e.reason ELSE verdict
    BY <1>6 DEF Pump, Observe
  <2>3. e.type = "Error" => wire.fault \/ dropped \/ Cut
    BY <2>1 DEF Queueable, MayQueue
  <2>4. e.type = "Finish" => e.reason \in VerdictsOn(dialect, wire)
    BY <2>1 DEF Queueable, MayQueue
  <2>5. e.type = "Error" => exit' # 0
    BY <2>1, <2>2, ErrorsAreNotZero DEF Event
  <2>6. Doomed => Doomed'
    <3>1. ASSUME NEW n \in 1..Len(pending), pending[n].type = "Error", e.type # "Error"
          PROVE  \E m \in 1..Len(Tail(pending)) : Tail(pending)[m].type = "Error"
      <4>1. n # 1
        BY <1>1, <3>1
      <4>2. n - 1 \in 1..Len(Tail(pending)) /\ Tail(pending)[n - 1] = pending[n]
        BY <1>1, <4>1
      <4> QED  BY <3>1, <4>2
    <3> QED  BY <1>1, <2>2, <2>5, <3>1 DEF Doomed
  <2> HIDE DEF e
  <2> QED  BY <1>1, <1>2, <1>3, <1>4, <2>1, <2>2, <2>3, <2>4, <2>6, <1>6 DEF EndInv
<1> QED  BY <1>5, <1>6 DEF Yield

\* The End says nothing new.
LEMMA YieldEndEnds ==
    ASSUME TypeOK, EndInv, YieldEnd
    PROVE  EndInv'
<1>1. /\ UNCHANGED <<dialect, wire, state, pending, finished, dropped, saw_frame>> /\ status = "running"
  BY DEF YieldEnd, driver
<1>2. Queueable' = Queueable /\ (Cut' <=> Cut)
  BY <1>1 DEF Queueable, Cut
<1>3. CASE WriteFails
  <2>1. status' = "broken" /\ exit' # 0 /\ UNCHANGED <<event, verdict>>
    BY <1>3, ErrorsAreNotZero DEF WriteFails
  <2> QED  BY <1>1, <1>2, <2>1 DEF EndInv, Doomed
<1>4. CASE Pump(End) /\ status' = "ended"
  <2>1. event' = End /\ exit' = exit /\ verdict' = verdict
    BY <1>4 DEF Pump, Observe, End
  <2>2. End \in Queueable
    BY PlainEvents, PlainIsQueueable DEF Queueable
  <2>3. Doomed => Doomed'
    BY <1>1, <2>1 DEF Doomed
  <2> QED  BY <1>1, <1>2, <1>4, <2>1, <2>2, <2>3 DEF EndInv
<1> QED  BY <1>3, <1>4 DEF YieldEnd

\* Each step keeps EndInv.
LEMMA NextEnds ==
    ASSUME TypeOK, TruncationInv, EndInv, [Next]_vars
    PROVE  EndInv'
<1>1. CASE PullChunk
  BY <1>1, RestEnds DEF PullChunk
<1>2. CASE ReadFrame
  BY <1>2, ReadFrameEnds
<1>3. CASE ChunkRead
  BY <1>3, RestEnds DEF ChunkRead
<1>4. CASE Drop
  BY <1>4, DropEnds
<1>5. CASE BodyEnd
  BY <1>5, RestEnds DEF BodyEnd
<1>6. CASE FlushAtEof
  BY <1>6, FlushEnds
<1>7. CASE Yield
  BY <1>7, YieldEnds
<1>8. CASE YieldEnd
  BY <1>8, YieldEndEnds
<1>9. CASE UNCHANGED vars
  BY <1>9, RestEnds DEF vars, driver
<1> QED  BY <1>1, <1>2, <1>3, <1>4, <1>5, <1>6, <1>7, <1>8, <1>9 DEF Next, Done

\* EndInv holds throughout.
LEMMA EndInvHolds == Spec => []EndInv
<1>1. TypeOK /\ TruncationInv /\ EndInv /\ [Next]_vars => EndInv'
  BY NextEnds
<1> QED  BY <1>1, InitEnds, TypeCorrect, TruncationInvHolds, PTL DEF Spec

(***************************************************************************)
(* What is left open.                                                      *)
(***************************************************************************)
OpenInv ==
    /\ verdict # "none" => blocks = EmptyFn
    /\ status = "ended" => verdict # "none" \/ exit # 0
    /\ status = "ended" => state.terminated \/ blocks = EmptyFn

\* A delivery keeps to the abstract stream, in which a verdict closes the content.
LEMMA DeliveredClosed ==
    ASSUME OpenInv, StreamInv, Abstract!Next
    PROVE  /\ verdict' # "none" => blocks' = EmptyFn
           /\ status' = "ended" => verdict' # "none" \/ exit' # 0
<1>1. status = "running"
  BY DEF Abstract!Next
<1>2. verdict # "none" => blocks = EmptyFn
  BY DEF OpenInv
<1>3. CASE Abstract!Deliver(event')
  <2>1. status' = status
    BY <1>3 DEF Abstract!Deliver
  <2>2. verdict' # "none" => blocks' = EmptyFn
    <3>1. DOMAIN EmptyFn = {}
      BY DEF EmptyFn
    <3> QED  BY <1>2, <1>3, <3>1, SameWords
             DEF Abstract!Deliver, Abstract!Start, Abstract!Open, Abstract!Fragment, Abstract!Stop,
                 Abstract!Count, Abstract!Verdict, Abstract!Fail
  <2> QED  BY <1>1, <2>1, <2>2
<1>4. CASE Abstract!Finished
  BY <1>2, <1>4 DEF Abstract!Finished
<1>5. CASE Abstract!Broken
  BY <1>2, <1>5 DEF Abstract!Broken
<1> QED  BY <1>3, <1>4, <1>5 DEF Abstract!Next

\* Each step keeps OpenInv.
LEMMA NextOpens ==
    ASSUME TypeOK, TruncationInv, StreamInv, OpenInv, [Next]_vars
    PROVE  OpenInv'
<1>1. CASE UNCHANGED client /\ (status = "ended" => state' = state)
  BY <1>1 DEF OpenInv, client
<1>2. CASE PullChunk \/ Drop \/ BodyEnd \/ FlushAtEof
  BY <1>1, <1>2 DEF PullChunk, Drop, BodyEnd, FlushAtEof, AtBody
<1>3. CASE ReadFrame \/ ChunkRead
  BY <1>1, <1>3 DEF ReadFrame, ChunkRead, TruncationInv
<1>4. CASE Yield
  <2>1. Abstract!Next
    BY <1>4, YieldIsAbstract
  <2>2. status' # "ended"
    BY <1>4 DEF Yield, WriteFails
  <2> QED  BY <2>1, <2>2, DeliveredClosed DEF OpenInv
<1>5. CASE YieldEnd
  <2>1. Abstract!Next
    BY <1>5, EndIsAbstract
  <2>2. status' = "ended" => state'.terminated \/ blocks' = EmptyFn
    <3> SUFFICES ASSUME status' = "ended" PROVE state.terminated \/ blocks = EmptyFn
      BY <1>5 DEF YieldEnd, driver, Pump, Observe, End, WriteFails
    <3>1. status = "running" /\ pending = <<>> /\ finished
      BY <1>5 DEF YieldEnd
    <3>2. PICK c : Foreseen(c)
      BY <3>1 DEF StreamInv
    <3>3. c = Client
      BY <3>1, <3>2, NothingAhead DEF Foreseen
    <3> QED  BY <3>1, <3>2, <3>3 DEF Foreseen, Client
  <2> QED  BY <2>1, <2>2, DeliveredClosed DEF OpenInv
<1>6. CASE UNCHANGED vars
  BY <1>1, <1>6 DEF vars, driver
<1> QED  BY <1>2, <1>3, <1>4, <1>5, <1>6 DEF Next, Done

\* OpenInv holds throughout.
LEMMA OpenInvHolds == Spec => []OpenInv
<1>1. Init => OpenInv
  BY DEF Init, OpenInv
<1>2. TypeOK /\ TruncationInv /\ StreamInv /\ OpenInv /\ [Next]_vars => OpenInv'
  BY NextOpens
<1> QED  BY <1>1, <1>2, TypeCorrect, TruncationInvHolds, StreamInvHolds, PTL DEF Spec

\* How a run ends tells how it went: the exit code is 0 exactly when the terminal frame
\* came and nothing failed, blocks stay open only behind an error frame, a verdict asks
\* for a tool run exactly when a call was streamed, and an error quotes the body only
\* while nothing of it was understood.
THEOREM EndIsTruthful == Spec => []EndTellsTheTruth
<1>1. TruncationInv /\ EndInv => ExitTellsTheTruth
  <2> SUFFICES ASSUME TruncationInv, EndInv, status = "ended"
               PROVE  exit = 0 <=> wire.complete /\ ~ wire.fault /\ ~ dropped
    BY DEF ExitTellsTheTruth
  <2>1. finished /\ pending = <<>> /\ (~ state.terminated => Doomed)
    BY DEF TruncationInv
  <2>2. Doomed <=> exit # 0
    BY <2>1 DEF Doomed
  <2>3. (state.terminated => wire.complete \/ wire.fault) /\ (wire.complete => state.terminated)
    BY DEF EndInv, Ends
  <2>4. wire.fault \/ dropped => exit # 0
    BY <2>2 DEF EndInv
  <2>5. exit # 0 => wire.fault \/ dropped \/ ~ state.terminated
    BY DEF EndInv, Cut
  <2> QED  BY <2>1, <2>2, <2>3, <2>4, <2>5
<1>2. OpenInv => LeftOpenOnlyByMarkedFailure
  <2>1. DOMAIN EmptyFn = {}
    BY DEF EmptyFn
  <2> QED  BY <2>1 DEF OpenInv, LeftOpenOnlyByMarkedFailure
<1>3. EndInv => CallsAskForTools
  BY DEF EndInv, VerdictsOn, CallsAskForTools
<1>4. EndInv => SampleOnlyWhenUnframed
  BY DEF EndInv, Queueable, MayQueue, SampleOnlyWhenUnframed
<1>5. TruncationInv /\ EndInv /\ OpenInv => EndTellsTheTruth
  BY <1>1, <1>2, <1>3, <1>4 DEF EndTellsTheTruth
<1> QED  BY <1>5, TruncationInvHolds, EndInvHolds, OpenInvHolds, PTL

(***************************************************************************)
(* How a failure is judged.                                                *)
(***************************************************************************)
\* What an HTTP status means for the exit code.
LEMMA StatusExits ==
    ASSUME NEW s \in 100..599
    PROVE  /\ ExitFromStatus(s) = IF s \in 200..299 THEN 0
                                  ELSE IF s \in {401, 403} THEN 77
                                  ELSE IF s >= 500 THEN 70 ELSE 69
           /\ ClassOf(FromHttpStatus(s)) \in {"Auth", "Provider4xx", "Provider5xx"}
<1> DEFINE c == ClassOf(FromHttpStatus(s))
<1>1. c = IF s \in {401, 403} THEN "Auth" ELSE IF s >= 500 THEN "Provider5xx" ELSE "Provider4xx"
  BY DEF ClassOf, FromHttpStatus, Provider, Kind
<1>2. ExitOf["Auth"] = 77 /\ ExitOf["Provider4xx"] = 69 /\ ExitOf["Provider5xx"] = 70
  BY DEF ExitOf, ErrorKinds
<1> HIDE DEF c
<1>3. ExitFromStatus(s) = IF s \in 200..299 THEN 0 ELSE ExitOf[c]
  BY DEF ExitFromStatus, Is2xx, c
<1> QED  BY <1>1, <1>2, <1>3 DEF c, Is2xx

\* Whatever a provider reports in mid-stream, the dialect finds a kind for it.
LEMMA InBandJudged ==
    ASSUME NEW d \in Dialects, NEW f \in Failures
    PROVE  /\ f \in {429, 500, 504, 529} => Retryable(InBandKind(d, f))
           /\ d \in {"anthropic", "claude", "google"} => InBandKind(d, f) = FromHttpStatus(f)
           /\ ClassOf(InBandKind(d, f)) \in ErrorKinds
<1>0. Failures = {400, 401, 403, 404, 413, 429, 500, 504, 529}
  BY DEF Failures, MessagesTag
<1>1. MessagesErrorKind(MessagesTag[f]) = FromHttpStatus(f)
  <2>1. MessagesTag[f] = CASE f = 400 -> "invalid_request_error" [] f = 401 -> "authentication_error"
                           [] f = 403 -> "permission_error" [] f = 404 -> "not_found_error"
                           [] f = 413 -> "request_too_large" [] f = 429 -> "rate_limit_error"
                           [] f = 500 -> "api_error" [] f = 504 -> "timeout_error"
                           [] f = 529 -> "overloaded_error"
    BY <1>0 DEF MessagesTag
  <2>2. CASE f \in {401, 403}
    BY <2>1, <2>2 DEF MessagesErrorKind, FromHttpStatus
  <2>3. CASE f \notin {401, 403}
    <3>1. FromHttpStatus(f) = Provider(f)
      BY <2>3 DEF FromHttpStatus
    <3> QED  BY <1>0, <2>1, <2>3, <3>1 DEF MessagesErrorKind
  <2> QED  BY <2>2, <2>3
<1>2. f \in {429, 500, 504, 529} => Retryable(FromHttpStatus(f))
  BY <1>0 DEF Retryable, FromHttpStatus, Provider, Kind
<1>3. ClassOf(FromHttpStatus(f)) \in ErrorKinds
  BY <1>0 DEF ClassOf, FromHttpStatus, Provider, Kind, ErrorKinds
<1>4. /\ f \in {429, 500, 504, 529} => Retryable(ChatErrorKind(0, ChatTag(f)))
      /\ ClassOf(ChatErrorKind(0, ChatTag(f))) \in ErrorKinds
  BY <1>0 DEF ChatErrorKind, ChatTag, Retryable, ClassOf, Provider, Kind, ErrorKinds
<1>5. /\ f \in {429, 500, 504, 529} => Retryable(ResponsesErrorKind(ChatTag(f)))
      /\ ClassOf(ResponsesErrorKind(ChatTag(f))) \in ErrorKinds
  BY <1>0 DEF ResponsesErrorKind, ChatTag, Retryable, ClassOf, Provider, Kind, ErrorKinds
<1>6. Retryable(OllamaErrorKind) /\ ClassOf(OllamaErrorKind) \in ErrorKinds
  BY DEF OllamaErrorKind, Retryable, ClassOf, Kind, ErrorKinds
<1>7. InBandKind(d, f) = CASE d \in {"anthropic", "claude", "google"} -> FromHttpStatus(f)
                           [] d = "openai"    -> ChatErrorKind(0, ChatTag(f))
                           [] d = "ollama"    -> OllamaErrorKind
                           [] d = "responses" -> ResponsesErrorKind(ChatTag(f))
  BY <1>1 DEF InBandKind, GenaiErrorKind, Dialects
<1>8. CASE d \in {"anthropic", "claude", "google"}
  BY <1>2, <1>3, <1>7, <1>8
<1>9. CASE d \in {"openai", "ollama", "responses"}
  BY <1>4, <1>5, <1>6, <1>7, <1>9
<1> QED  BY <1>8, <1>9 DEF Dialects

\* What a reply may be.
LEMMA ReplyShapes ==
    ASSUME NEW d, NEW r \in Replies(d)
    PROVE  /\ r.form \in {"stream", "inband", "whole", "failed", "raw", "fatal"}
           /\ r.form = "inband" => r.failure \in Failures
           /\ r.form = "whole" => r.body \in Bodies(d)
           /\ r.form = "failed" => r.status \in 100..599 /\ ~ Is2xx(r.status) /\ r.body \in ErrorBodies
           /\ r.form = "raw" => r.status \in 100..599
           /\ r.form = "fatal" => r.kind \in ErrorKinds
<1>1. ~ Is2xx(429) /\ 429 \in 100..599
  BY DEF Is2xx
<1>2. "json" \in ErrorBodies
  BY DEF ErrorBodies
<1>3. Statuses \subseteq 100..599
  BY ResponseAssumption
<1>4. CASE r.form = "stream"
  BY <1>4
<1>5. CASE r.form = "inband"
  BY <1>5 DEF Replies
<1>6. CASE r.form = "whole"
  BY <1>6 DEF Replies
<1>7. CASE r.form = "failed"
  <2>1. \/ r \in [form : {"failed"}, status : {s \in Statuses : ~ Is2xx(s)}, body : ErrorBodies,
                  header : {[type |-> "none"]}]
        \/ r \in [form : {"failed"}, status : {429}, body : {"json"}, header : Headers]
    BY <1>7 DEF Replies
  <2>2. r.status \in 100..599 /\ ~ Is2xx(r.status) /\ r.body \in ErrorBodies
    <3>1. CASE r \in [form : {"failed"}, status : {s \in Statuses : ~ Is2xx(s)}, body : ErrorBodies,
                      header : {[type |-> "none"]}]
      BY <1>3, <3>1
    <3>2. CASE r \in [form : {"failed"}, status : {429}, body : {"json"}, header : Headers]
      BY <1>1, <1>2, <3>2
    <3> QED  BY <2>1, <3>1, <3>2
  <2> QED  BY <1>7, <2>2
<1>8. CASE r.form = "raw"
  <2>1. r \in [form : {"raw"}, status : Statuses]
    BY <1>8 DEF Replies
  <2> QED  BY <1>3, <1>8, <2>1
<1>9. CASE r.form = "fatal"
  BY <1>9 DEF Replies
<1>10. r.form \in {"stream", "inband", "whole", "failed", "raw", "fatal"}
  BY DEF Replies
<1> QED  BY <1>4, <1>5, <1>6, <1>7, <1>8, <1>9, <1>10

\* What was sent is what was sent.
ReplyInv ==
    /\ dialect \in Streaming
    /\ reply \in Replies(dialect)
    /\ folded = Fold(dialect, reply)

LEMMA ReplyStays ==
    ASSUME [RNext]_rvars
    PROVE  UNCHANGED <<dialect, reply, folded>>
<1>1. CASE Next /\ UNCHANGED <<reply, folded>>
  BY <1>1 DEF Next, PullChunk, ReadFrame, ChunkRead, Drop, BodyEnd, FlushAtEof, Yield, YieldEnd, Done, vars
<1>2. CASE FoldBody
  BY <1>2 DEF FoldBody
<1>3. CASE RawChunk \/ RawDrop \/ RawEnd
  BY <1>3 DEF RawChunk, RawDrop, RawEnd, RawOver
<1>4. CASE UNCHANGED rvars
  BY <1>4 DEF rvars, vars
<1> QED  BY <1>1, <1>2, <1>3, <1>4
         DEF RNext, RChunkRead, RDrop, RBodyEnd, RFlush, RYield, RYieldEnd, Quiet, Next

LEMMA ReplyInvHolds == RSafe => []ReplyInv
<1>1. RInit => ReplyInv
  BY DEF RInit, ReplyInv
<1>2. ReplyInv /\ [RNext]_rvars => ReplyInv'
  <2> SUFFICES ASSUME ReplyInv, [RNext]_rvars PROVE ReplyInv'
    OBVIOUS
  <2> QED  BY ReplyStays DEF ReplyInv
<1> QED  BY <1>1, <1>2, PTL DEF RSafe

\* The error that stands for a failed response: the status has the last word, unless the
\* transport dropped while the body was read.
Reason == IF dropped THEN "Transport" ELSE ClassOf(FromHttpStatus(reply.status))

\* A failed response is one error, queued when the body was read and then delivered; the
\* exit of a raw one is settled from the start, unless the transport drops.
JudgeInv ==
    /\ reply.form = "failed" =>
          /\ ~ reading
          /\ ~ finished => pending = <<>> /\ exit = 0 /\ status # "ended" /\ ~ dropped
          /\ finished => \/ \E e : pending = <<e>> /\ e.type = "Error" /\ e.kind = Reason /\ status # "ended"
                         \/ pending = <<>> /\ (status # "broken" => exit = ExitOf[Reason])
    /\ reply.form = "raw" /\ status # "broken" =>
          /\ exit = IF dropped THEN ExitOf["Transport"] ELSE ExitFromStatus(reply.status)
          /\ status = "running" => ~ dropped

\* Each step keeps JudgeInv.
LEMMA NextJudges ==
    ASSUME ReplyInv, JudgeInv, [RNext]_rvars
    PROVE  JudgeInv'
<1>0. UNCHANGED <<dialect, reply, folded>>
  BY ReplyStays
<1>1. CASE Streams /\ UNCHANGED reply
  BY <1>1 DEF Streams, JudgeInv
<1>2. CASE FoldBody
  <2>1. CASE reply.form = "failed"
    <3>1. /\ AtBody /\ finished' = TRUE /\ UNCHANGED <<reading, exit, status>> /\ ~ reading
          /\ status = "running"
      BY <1>2 DEF FoldBody, AtBody, client
    <3>2. ~ dropped
      BY <1>2, <2>1 DEF FoldBody, AtBody, JudgeInv
    <3>3. CASE pending' = folded /\ UNCHANGED dropped
      <4>1. folded = <<HttpError(reply.status, reply.body)>>
        BY <2>1 DEF ReplyInv, Fold
      <4> DEFINE e == HttpError(reply.status, reply.body)
      <4>2. e.type = "Error" /\ e.kind = ClassOf(FromHttpStatus(reply.status))
        BY DEF HttpError, ErrorWith
      <4> QED  BY <1>0, <2>1, <3>1, <3>2, <3>3, <4>1, <4>2 DEF JudgeInv, Reason
    <3>4. CASE pending' = Transport /\ dropped' = TRUE
      BY <1>0, <2>1, <3>1, <3>4 DEF JudgeInv, Reason, Transport, Error, ErrorWith
    <3> QED  BY <1>2, <3>3, <3>4 DEF FoldBody
  <2>2. CASE reply.form = "whole"
    BY <1>0, <2>2 DEF JudgeInv
  <2> QED  BY <1>2, <2>1, <2>2 DEF FoldBody
<1>3. CASE RawChunk \/ RawDrop \/ RawEnd
  <2>1. reply.form = "raw" /\ status = "running"
    BY <1>3 DEF RawChunk, RawDrop, RawEnd, Raw
  <2>2. CASE RawChunk
    BY <1>0, <2>1, <2>2 DEF RawChunk, JudgeInv, WriteFails, client
  <2>3. CASE RawDrop
    BY <1>0, <2>1, <2>3 DEF RawDrop, JudgeInv
  <2>4. CASE RawEnd
    BY <1>0, <2>1, <2>4 DEF RawEnd, JudgeInv
  <2> QED  BY <1>3, <2>2, <2>3, <2>4
<1>4. CASE RYield
  <2>1. /\ ~ Raw /\ status = "running" /\ ~ reading /\ pending # <<>> /\ pending' = Tail(pending)
        /\ UNCHANGED <<reading, finished, dropped>>
    BY <1>4 DEF RYield, Yield
  <2>2. reply.form # "raw"
    BY <2>1 DEF Raw
  <2>3. CASE reply.form = "failed"
    <3>1. PICK e : pending = <<e>> /\ e.type = "Error" /\ e.kind = Reason
      BY <2>1, <2>3 DEF JudgeInv
    <3>2. finished /\ pending' = <<>> /\ Head(pending) = e
      BY <2>1, <2>3, <3>1 DEF JudgeInv
    <3>3. status' # "broken" => exit' = ExitOf[Reason]
      BY <1>4, <3>1, <3>2 DEF RYield, Yield, Pump, WriteFails
    <3> QED  BY <1>0, <2>1, <2>3, <3>2, <3>3 DEF JudgeInv, Reason
  <2> QED  BY <1>0, <2>2, <2>3 DEF JudgeInv
<1>5. CASE RYieldEnd
  <2>1. ~ Raw /\ status = "running" /\ UNCHANGED <<pending, reading, finished, dropped>> /\ finished /\ pending = <<>>
    BY <1>5 DEF RYieldEnd, YieldEnd, driver
  <2>2. status' # "broken" => exit' = exit
    BY <1>5 DEF RYieldEnd, YieldEnd, Pump, End, WriteFails
  <2> QED  BY <1>0, <2>1, <2>2 DEF JudgeInv, Reason, Raw
<1>6. CASE UNCHANGED vars
  BY <1>0, <1>6 DEF vars, driver, client, JudgeInv, Reason
<1> QED  BY <1>0, <1>1, <1>2, <1>3, <1>4, <1>5, <1>6
         DEF RNext, RChunkRead, RDrop, RBodyEnd, RFlush, Done, rvars

LEMMA JudgeInvHolds == RSafe => []JudgeInv
<1>1. RInit => JudgeInv
  BY DEF RInit, JudgeInv
<1>2. ReplyInv /\ JudgeInv /\ [RNext]_rvars => JudgeInv'
  BY NextJudges
<1> QED  BY <1>1, <1>2, ReplyInvHolds, PTL DEF RSafe

\* A failure is judged by what it is, however it was told: by the status of the response,
\* decoded or raw, or in mid-stream by the dialect's own name for it.
THEOREM FailuresAreJudgedAlike == RSafe => []FailureIsJudgedAlike
<1>1. ReplyInv /\ JudgeInv => ExitFollowsStatus
  <2> SUFFICES ASSUME ReplyInv, JudgeInv, status = "ended", reply.form \in {"failed", "raw"}
               PROVE  exit = CASE dropped -> 69
                                [] ~ dropped /\ reply.status \in 200..299 -> 0
                                [] ~ dropped /\ reply.status \in {401, 403} -> 77
                                [] ~ dropped /\ reply.status >= 500 -> 70
                                [] OTHER -> 69
    BY DEF ExitFollowsStatus
  <2>1. reply.status \in 100..599 /\ (reply.form = "failed" => ~ Is2xx(reply.status))
    BY ReplyShapes DEF ReplyInv
  <2>2. ExitOf["Transport"] = 69
    BY DEF ExitOf, ErrorKinds
  <2> DEFINE x == reply.status
  <2>3. x \in 100..599 /\ (reply.form = "failed" => ~ Is2xx(x))
    BY <2>1
  <2>4. exit = IF dropped THEN 69 ELSE ExitFromStatus(x)
    <3>1. CASE reply.form = "raw"
      BY <2>2, <3>1 DEF JudgeInv
    <3>2. CASE reply.form = "failed"
      <4>1. exit = ExitOf[Reason]
        BY <3>2 DEF JudgeInv
      <4>2. ExitFromStatus(x) = ExitOf[ClassOf(FromHttpStatus(x))]
        BY <2>3, <3>2 DEF ExitFromStatus
      <4> QED  BY <2>2, <4>1, <4>2 DEF Reason
    <3> QED  BY <3>1, <3>2
  <2> HIDE DEF x
  <2>5. ExitFromStatus(x) = IF x \in 200..299 THEN 0 ELSE IF x \in {401, 403} THEN 77
                            ELSE IF x >= 500 THEN 70 ELSE 69
    BY <2>3, StatusExits
  <2>6. exit = CASE dropped -> 69
                 [] ~ dropped /\ x \in 200..299 -> 0
                 [] ~ dropped /\ x \in {401, 403} -> 77
                 [] ~ dropped /\ x >= 500 -> 70
                 [] OTHER -> 69
    BY <2>3, <2>4, <2>5
  <2> QED  BY <2>6 DEF x
<1>2. ReplyInv => ThrottlingIsRetryable
  BY ReplyShapes, InBandJudged, StreamAssumption DEF ReplyInv, ThrottlingIsRetryable
<1>3. ReplyInv /\ JudgeInv => FailureIsJudgedAlike
  BY <1>1, <1>2 DEF FailureIsJudgedAlike
<1> QED  BY <1>3, ReplyInvHolds, JudgeInvHolds, PTL

(***************************************************************************)
(* The calendar.                                                           *)
(***************************************************************************)
\* The leap years up to year k, by the rule.
Leaps(k) == k \div 4 - k \div 100 + k \div 400

LEMMA NextLeap ==
    ASSUME NEW k \in Nat
    PROVE  Leaps(k + 1) = Leaps(k) + (IF LeapYear(k + 1) THEN 1 ELSE 0)
  BY DEF Leaps, LeapYear

\* The leap years from 1970 on are as many as the rule has it: a least year for which they
\* are not would come right after one for which they are.
LEMMA LeapsCounted ==
    \A n \in Nat : /\ IsFiniteSet({y \in 1970..(1969 + n) : LeapYear(y)})
                   /\ Cardinality({y \in 1970..(1969 + n) : LeapYear(y)}) = Leaps(1969 + n) - 477
<1> DEFINE Among(n) == {y \in 1970..(1969 + n) : LeapYear(y)}
           Right(n) == IsFiniteSet(Among(n)) /\ Cardinality(Among(n)) = Leaps(1969 + n) - 477
           Bad == {n \in Nat : ~ Right(n)}
<1>1. Right(0)
  <2>1. Among(0) = {}
    OBVIOUS
  <2>2. Leaps(1969) = 477
    BY DEF Leaps
  <2> HIDE DEF Among
  <2> QED  BY <2>1, <2>2, FS_EmptySet
<1>2. ASSUME NEW n \in Nat, Right(n) PROVE Right(n + 1)
  <2>1. Leaps(1969 + n + 1) = Leaps(1969 + n) + (IF LeapYear(1969 + n + 1) THEN 1 ELSE 0)
    BY NextLeap
  <2>2. CASE LeapYear(1970 + n)
    <3>1. Among(n + 1) = Among(n) \cup {1970 + n} /\ 1970 + n \notin Among(n)
      BY <2>2
    <3>2. 1969 + n + 1 = 1970 + n /\ 1969 + (n + 1) = 1970 + n
      OBVIOUS
    <3> HIDE DEF Among
    <3>3. IsFiniteSet(Among(n + 1)) /\ Cardinality(Among(n + 1)) = Cardinality(Among(n)) + 1
      BY <1>2, <3>1, FS_AddElement
    <3>4. Leaps(1970 + n) = Leaps(1969 + n) + 1 /\ Leaps(1969 + n) \in Int
      BY <2>1, <2>2, <3>2 DEF Leaps
    <3> QED  BY <1>2, <3>2, <3>3, <3>4
  <2>3. CASE ~ LeapYear(1970 + n)
    <3>1. Among(n + 1) = Among(n)
      BY <2>3
    <3>2. 1969 + n + 1 = 1970 + n /\ 1969 + (n + 1) = 1970 + n
      OBVIOUS
    <3> HIDE DEF Among
    <3>3. Leaps(1970 + n) = Leaps(1969 + n)
      BY <2>1, <2>3, <3>2 DEF Leaps
    <3> QED  BY <1>2, <3>1, <3>2, <3>3
  <2> QED  BY <2>2, <2>3
<1> HIDE DEF Right
<1>3. Bad = {}
  <2> SUFFICES ASSUME Bad # {} PROVE FALSE
    OBVIOUS
  <2>1. PICK n \in Bad : \A k \in Bad : n <= k
    BY LeastElement
  <2>2. n # 0 /\ n \in Nat /\ ~ Right(n)
    BY <1>1
  <2>3. n - 1 \in Nat /\ n - 1 \notin Bad
    BY <2>1, <2>2
  <2>4. Right(n - 1)
    BY <2>3
  <2>5. Right((n - 1) + 1) /\ (n - 1) + 1 = n
    BY <1>2, <2>2, <2>3, <2>4
  <2> QED  BY <2>2, <2>5
<1>4. \A n \in Nat : Right(n)
  BY <1>3
<1> QED  BY <1>4 DEF Right

\* The days of a year that are over when each month begins.
Table == <<0, 31, 59, 90, 120, 151, 181, 212, 243, 273, 304, 334>>

Extra(y, m) == IF m > 2 /\ LeapYear(y) THEN 1 ELSE 0

LEMMA MonthsAdd ==
    ASSUME NEW y, NEW m \in 2..12
    PROVE  Table[m] + Extra(y, m) = Table[m - 1] + Extra(y, m - 1) + MonthLength(y, m - 1)
<1>1. MonthLength(y, m - 1) = IF m - 1 \in {4, 6, 9, 11} THEN 30
                              ELSE IF m - 1 = 2 THEN IF LeapYear(y) THEN 29 ELSE 28 ELSE 31
  BY DEF MonthLength
<1> HIDE DEF LeapYear
<1>2. m \in {2, 3, 4, 5, 6, 7, 8, 9, 10, 11, 12}
  OBVIOUS
<1> QED  BY <1>1, <1>2 DEF Table, Extra

LEMMA MonthStarts ==
    ASSUME NEW y, NEW m \in 1..12
    PROVE  MonthStart(y)[m] = Table[m] + Extra(y, m)
<1> DEFINE R(f) == [n \in 1..12 |-> IF n = 1 THEN 0 ELSE f[n - 1] + MonthLength(y, n - 1)]
           g == [n \in 1..12 |-> Table[n] + Extra(y, n)]
           s == MonthStart(y)
           Right(n) == s[n] = Table[n] + Extra(y, n)
<1>1. g = R(g)
  <2>1. ASSUME NEW n \in 1..12 PROVE g[n] = R(g)[n]
    <3>1. CASE n = 1
      BY <3>1 DEF Table, Extra
    <3>2. CASE n \in 2..12
      BY <3>2, MonthsAdd
    <3> QED  BY <3>1, <3>2
  <2> QED  BY <2>1
<1>2. s = CHOOSE f : f = R(f)
  BY DEF MonthStart
<1>3. s = R(s)
  <2> HIDE DEF g, s, R
  <2> QED  BY <1>1, <1>2, Zenon
<1>4. Right(1)
  BY <1>3 DEF Table, Extra
<1>5. ASSUME NEW n \in 2..12, Right(n - 1) PROVE Right(n)
  <2>1. s[n] = s[n - 1] + MonthLength(y, n - 1)
    <3>1. R(s)[n] = s[n - 1] + MonthLength(y, n - 1)
      OBVIOUS
    <3> HIDE DEF s, R
    <3> QED  BY <1>3, <3>1
  <2> HIDE DEF s
  <2> QED  BY <1>5, <2>1, MonthsAdd
<1> HIDE DEF Right
<1>6. Right(2) /\ Right(3) /\ Right(4)
  <2>1. Right(2)
    BY <1>4, <1>5
  <2>2. Right(3)
    BY <1>5, <2>1
  <2> QED  BY <1>5, <2>1, <2>2
<1>7. Right(5) /\ Right(6) /\ Right(7) /\ Right(8)
  <2>1. Right(5)
    BY <1>5, <1>6
  <2>2. Right(6)
    BY <1>5, <2>1
  <2>3. Right(7)
    BY <1>5, <2>2
  <2> QED  BY <1>5, <2>1, <2>2, <2>3
<1>8. Right(9) /\ Right(10) /\ Right(11) /\ Right(12)
  <2>1. Right(9)
    BY <1>5, <1>7
  <2>2. Right(10)
    BY <1>5, <2>1
  <2>3. Right(11)
    BY <1>5, <2>2
  <2> QED  BY <1>5, <2>1, <2>2, <2>3
<1>9. m \in {1, 2, 3, 4, 5, 6, 7, 8, 9, 10, 11, 12}
  OBVIOUS
<1> QED  BY <1>4, <1>6, <1>7, <1>8, <1>9 DEF Right

\* The days before the year y, which the code counts by eras of 400 years.
EraDays(y) ==
    LET era == y \div 400
        yoe == y - era * 400
    IN  era * 146097 + (yoe * 365 + yoe \div 4 - yoe \div 100)

LEMMA Eras ==
    ASSUME NEW y \in Nat
    PROVE  EraDays(y) = 365 * y + Leaps(y)
<1> DEFINE e == y \div 400
           r == y - e * 400
<1>1. e \in Nat /\ r \in 0..399 /\ y = 400 * e + r
  OBVIOUS
<1> HIDE DEF e, r
<1>2. y \div 4 = 100 * e + r \div 4 /\ y \div 100 = 4 * e + r \div 100 /\ y \div 400 = e
  BY <1>1 DEF e
<1> QED  BY <1>1, <1>2 DEF Leaps, EraDays, e, r

\* The day of the year that begins in March, of the first of month m.
LEMMA FromMarch ==
    ASSUME NEW m \in 1..12
    PROVE  (153 * (IF m > 2 THEN m - 3 ELSE m + 9) + 2) \div 5
               = IF m > 2 THEN Table[m] - 59 ELSE Table[m] + 306
<1>1. m \in {1, 2, 3, 4, 5, 6, 7, 8, 9, 10, 11, 12}
  OBVIOUS
<1> QED  BY <1>1 DEF Table

\* days_from_civil counts the days of the calendar.
LEMMA CivilDays ==
    ASSUME NEW h, h.year \in Nat, h.year >= 1970, h.month \in 1..12, h.day \in Nat
    PROVE  /\ DaysFromCivil(h.year, h.month, h.day) = DaysCounted(h)
           /\ DaysCounted(h) \in Int /\ (h.day >= 1 => DaysCounted(h) >= 0)
<1> DEFINE y == h.year
           m == h.month
           d == h.day
           z == IF m <= 2 THEN y - 1 ELSE y
<1>1. y \in Nat /\ y >= 1970 /\ m \in 1..12 /\ d \in Nat
  OBVIOUS
<1>2. /\ DaysCounted(h) = 365 * (y - 1970) + (Leaps(y - 1) - 477) + (Table[m] + Extra(y, m)) + d - 1
      /\ Leaps(y - 1) - 477 \in Nat
  <2>1. y - 1970 \in Nat /\ 1969 + (y - 1970) = y - 1
    OBVIOUS
  <2>2. /\ Cardinality({x \in 1970..(y - 1) : LeapYear(x)}) = Leaps(y - 1) - 477
        /\ Cardinality({x \in 1970..(y - 1) : LeapYear(x)}) \in Nat
    BY <2>1, LeapsCounted, FS_CardinalityType
  <2>3. MonthStart(y)[m] = Table[m] + Extra(y, m)
    BY MonthStarts
  <2> QED  BY <2>2, <2>3 DEF DaysCounted
<1>3. DaysFromCivil(y, m, d) = 365 * z + Leaps(z)
                                 + (IF m > 2 THEN Table[m] - 59 ELSE Table[m] + 306) + d - 1 - 719468
  <2>1. z \in Nat
    BY <1>1
  <2> HIDE DEF y, m, d, z
  <2> DEFINE doy == (153 * (IF m > 2 THEN m - 3 ELSE m + 9) + 2) \div 5
             era == z \div 400
             yoe == z - era * 400
             a == era * 146097
             b == yoe * 365 + yoe \div 4 - yoe \div 100
  <2>2. DaysFromCivil(y, m, d) = a + (b + (doy + d - 1)) - 719468
    BY DEF DaysFromCivil, z
  <2>3. EraDays(z) = a + b
    BY DEF EraDays
  <2>4. EraDays(z) = 365 * z + Leaps(z)
    BY <2>1, Eras
  <2>5. doy = IF m > 2 THEN Table[m] - 59 ELSE Table[m] + 306
    BY <1>1, FromMarch
  <2>6. a \in Int /\ b \in Int /\ d \in Int /\ doy \in Int
    BY <1>1, <2>1
  <2> HIDE DEF a, b, doy
  <2> QED  BY <2>2, <2>3, <2>4, <2>5, <2>6
<1>4. /\ Table[m] \in Nat /\ Extra(y, m) \in {0, 1}
      /\ Extra(y, m) = IF m > 2 /\ LeapYear(y) THEN 1 ELSE 0
      /\ Leaps(y) \in Int /\ Leaps(y - 1) \in Int
  <2>1. m \in {1, 2, 3, 4, 5, 6, 7, 8, 9, 10, 11, 12}
    OBVIOUS
  <2>2. Table[m] \in Nat
    BY <2>1 DEF Table
  <2> QED  BY <1>1, <2>2 DEF Extra, Leaps
<1>5. Leaps(y) = Leaps(y - 1) + (IF LeapYear(y) THEN 1 ELSE 0)
  <2>1. y - 1 \in Nat /\ (y - 1) + 1 = y
    BY <1>1
  <2> QED  BY <2>1, NextLeap
<1> DEFINE before == Leaps(y - 1)
           count == DaysCounted(h)
           civil == DaysFromCivil(y, m, d)
           first == Table[m]
<1>6. before \in Int /\ first \in Nat
  BY <1>4
<1>7. Leaps(y) = before + (IF LeapYear(y) THEN 1 ELSE 0)
  BY <1>5
<1>8. count = 365 * (y - 1970) + (before - 477) + (first + Extra(y, m)) + d - 1 /\ before - 477 \in Nat
  BY <1>2
<1> HIDE DEF y, m, d, first, count
<1>9. m > 2 => civil = count
  <2> SUFFICES ASSUME m > 2 PROVE civil = count
    OBVIOUS
  <2>1. civil = 365 * y + Leaps(y) + (first - 59) + d - 1 - 719468
    BY <1>1, <1>3 DEF first
  <2>2. Extra(y, m) = IF LeapYear(y) THEN 1 ELSE 0
    BY <1>4
  <2> HIDE DEF before, civil
  <2> QED  BY <1>1, <1>6, <1>7, <1>8, <2>1, <2>2, SMT
<1>10. ~ m > 2 => civil = count
  <2> SUFFICES ASSUME ~ m > 2 PROVE civil = count
    OBVIOUS
  <2>1. civil = 365 * (y - 1) + before + (first + 306) + d - 1 - 719468
    BY <1>1, <1>3 DEF first
  <2>2. Extra(y, m) = 0
    BY <1>4
  <2> HIDE DEF before, civil
  <2> QED  BY <1>1, <1>6, <1>8, <2>1, <2>2, SMT
<1>11. civil = count
  BY <1>9, <1>10
<1>12. count \in Int /\ (d >= 1 => count >= 0)
  <2>1. Extra(y, m) \in Nat
    BY <1>4
  <2> HIDE DEF before
  <2> QED  BY <1>1, <1>6, <1>8, <2>1, SMT
<1> QED  BY <1>11, <1>12 DEF y, m, d, count

LEMMA Pairs ==
    ASSUME NEW S, NEW T, NEW p \in S \X T
    PROVE  p[1] \in S /\ p[2] \in T /\ p = <<p[1], p[2]>>
OBVIOUS

\* A sum of two times of day, with what it carries over.
LEMMA Carry ==
    ASSUME NEW s \in Nat, s < 172800
    PROVE  /\ s < 86400 => s \div 86400 = 0 /\ s % 86400 = s
           /\ s >= 86400 => s \div 86400 = 1 /\ s % 86400 = s - 86400
  BY SMT

LEMMA Laters ==
    ASSUME NEW a \in Int, NEW b \in Int, NEW s \in Nat, NEW t \in Nat, s + t < 172800
    PROVE  Later(<<a, s>>, <<b, t>>) = IF s + t < 86400 THEN <<a + b, s + t>> ELSE <<a + b + 1, s + t - 86400>>
<1> DEFINE u == s + t
<1>1. u \in Nat /\ u < 172800
  BY SMT
<1>2. Later(<<a, s>>, <<b, t>>) = <<a + b + u \div 86400, u % 86400>>
  BY SMT DEF Later, DayLength
<1> HIDE DEF u
<1>3. CASE u < 86400
  <2>1. u \div 86400 = 0 /\ u % 86400 = u
    BY <1>1, <1>3, Carry, SMT
  <2>2. a + b + 0 = a + b
    BY SMT
  <2> QED  BY <1>2, <1>3, <2>1, <2>2, SMT DEF u
<1>4. CASE ~ u < 86400
  <2>1. u \div 86400 = 1 /\ u % 86400 = u - 86400
    BY <1>1, <1>4, Carry, SMT
  <2> QED  BY <1>2, <1>4, <2>1, SMT DEF u
<1> QED  BY <1>3, <1>4, SMT

\* The distance to a moment, whose second may be the leap second of its day.
LEMMA Distances ==
    ASSUME NEW d \in Nat, NEW s \in Nat, s <= 86400, NEW n \in Nat, NEW t \in Nat, t < 86400
    PROVE  LET target == Later(<<d, 0>>, <<0, s>>)
               now == <<n, t>>
               delta == Distance(<<d, s>>, now)
           IN  /\ Before(target, now) => delta = <<0, 0>>
               /\ ~ Before(target, now) /\ Before(Later(now, MaxDelay), target) => delta = MaxDelay
               /\ ~ Before(target, now) /\ ~ Before(Later(now, MaxDelay), target) => Later(now, delta) = target
<1> DEFINE now == <<n, t>>
           target == Later(<<d, 0>>, <<0, s>>)
           far == Later(now, MaxDelay)
           w == IF s < t THEN <<d - n - 1, s - t + 86400>> ELSE <<d - n, s - t>>
<1>1. target = IF s < 86400 THEN <<d, s>> ELSE <<d + 1, 0>>
  <2>1. d \in Int /\ 0 \in Int /\ 0 \in Nat /\ 0 + s < 172800
    BY SMT
  <2>2. Later(<<d, 0>>, <<0, s>>) = IF 0 + s < 86400 THEN <<d + 0, 0 + s>> ELSE <<d + 0 + 1, 0 + s - 86400>>
    BY <2>1, Laters, SMT
  <2>3. 0 + s = s /\ d + 0 = d /\ (~ s < 86400 => s - 86400 = 0)
    BY SMT
  <2> QED  BY <2>2, <2>3, SMT
<1>2. far = IF t + 23295 < 86400 THEN <<n + 49710, t + 23295>> ELSE <<n + 49711, t + 23295 - 86400>>
  <2>1. 49710 \in Int /\ 23295 \in Nat /\ t + 23295 < 172800
    BY SMT
  <2>2. Later(<<n, t>>, <<49710, 23295>>)
            = IF t + 23295 < 86400 THEN <<n + 49710, t + 23295>> ELSE <<n + 49710 + 1, t + 23295 - 86400>>
    BY <2>1, Laters, SMT
  <2>3. n + 49710 + 1 = n + 49711
    BY SMT
  <2> QED  BY <2>2, <2>3, SMT DEF MaxDelay
<1>3. Distance(<<d, s>>, now) = IF Before(<<d, s>>, now) THEN <<0, 0>>
                                ELSE IF Before(MaxDelay, w) THEN MaxDelay ELSE w
  <2>1. Distance(<<d, s>>, now)
            = IF Before(<<d, s>>, now) THEN <<0, 0>>
              ELSE LET x == IF s - t < 0 THEN <<d - n - 1, s - t + 86400>> ELSE <<d - n, s - t>>
                   IN  IF Before(MaxDelay, x) THEN MaxDelay ELSE x
    BY SMT DEF Distance, DayLength
  <2>2. s - t < 0 <=> s < t
    BY SMT
  <2> QED  BY <2>1, <2>2, SMT
<1>4. CASE Before(<<d, s>>, now)
  <2>1. Distance(<<d, s>>, now) = <<0, 0>>
    BY <1>3, <1>4, SMT
  <2>2. Later(now, <<0, 0>>) = now
    <3>1. Later(<<n, t>>, <<0, 0>>) = <<n + 0 + (t + 0) \div 86400, (t + 0) % 86400>>
      BY SMT DEF Later, DayLength
    <3>2. t + 0 = t /\ t < 172800
      BY SMT
    <3>3. t \div 86400 = 0 /\ t % 86400 = t
      BY <3>2, Carry, SMT
    <3>4. n + 0 + 0 = n
      BY SMT
    <3> QED  BY <3>1, <3>2, <3>3, <3>4, SMT
  <2>3. d < n \/ (d = n /\ s < t)
    BY <1>4, SMT DEF Before
  <2>4. Before(target, now) \/ target = now
    BY <1>1, <2>3, SMT DEF Before
  <2>5. ~ Before(far, now)
    BY <1>2, SMT DEF Before
  <2> HIDE DEF target, far
  <2>6. target = now => ~ Before(target, now) /\ ~ Before(far, target)
    BY <2>5, SMT DEF Before
  <2> QED  BY <2>1, <2>2, <2>4, <2>6, SMT DEF target, far
<1>5. CASE ~ Before(<<d, s>>, now)
  <2>0. n < d \/ (d = n /\ t <= s)
    BY <1>5, SMT DEF Before
  <2>1. ~ Before(target, now)
    BY <1>1, <2>0, SMT DEF Before
  <2>2. Before(MaxDelay, w) <=> Before(far, target)
    <3>1. CASE s < t
      <4>1. Before(MaxDelay, w) <=> 49710 < d - n - 1 \/ (49710 = d - n - 1 /\ 23295 < s - t + 86400)
        BY <3>1, SMT DEF Before, MaxDelay
      <4> QED  BY <1>1, <1>2, <2>0, <3>1, <4>1, SMT DEF Before
    <3>2. CASE ~ s < t
      <4>1. Before(MaxDelay, w) <=> 49710 < d - n \/ (49710 = d - n /\ 23295 < s - t)
        BY <3>2, SMT DEF Before, MaxDelay
      <4> QED  BY <1>1, <1>2, <2>0, <3>2, <4>1, SMT DEF Before
    <3> QED  BY <3>1, <3>2, SMT
  <2>3. Later(now, w) = target
    <3>1. CASE s < t
      <4>1. Later(<<n, t>>, <<d - n - 1, s - t + 86400>>) = <<n + (d - n - 1) + 1, t + (s - t + 86400) - 86400>>
        <5>1. d - n - 1 \in Int /\ s - t + 86400 \in Nat /\ t + (s - t + 86400) < 172800
          BY <3>1, SMT
        <5>2. ~ t + (s - t + 86400) < 86400
          BY SMT
        <5>3. n \in Int
          BY SMT
        <5>4. Later(<<n, t>>, <<d - n - 1, s - t + 86400>>)
                  = IF t + (s - t + 86400) < 86400 THEN <<n + (d - n - 1), t + (s - t + 86400)>>
                    ELSE <<n + (d - n - 1) + 1, t + (s - t + 86400) - 86400>>
          BY <5>1, <5>3, Laters, SMT
        <5> QED  BY <5>2, <5>4, SMT
      <4>2. n + (d - n - 1) + 1 = d /\ t + (s - t + 86400) - 86400 = s /\ s < 86400
        BY <3>1, SMT
      <4> QED  BY <1>1, <3>1, <4>1, <4>2, SMT
    <3>2. CASE ~ s < t
      <4>1. Later(<<n, t>>, <<d - n, s - t>>)
                = IF t + (s - t) < 86400 THEN <<n + (d - n), t + (s - t)>>
                  ELSE <<n + (d - n) + 1, t + (s - t) - 86400>>
        BY <3>2, Laters, SMT
      <4>2. n + (d - n) = d /\ t + (s - t) = s
        BY <3>2, SMT
      <4>3. s < 86400 \/ s - 86400 = 0
        BY SMT
      <4> QED  BY <1>1, <3>2, <4>1, <4>2, <4>3, SMT
    <3> QED  BY <3>1, <3>2, SMT
  <2> HIDE DEF target, far, w
  <2> QED  BY <1>3, <1>5, <2>1, <2>2, <2>3, SMT DEF target, far
<1> QED  BY <1>4, <1>5, SMT

\* The delay is what the header says, once the failed response has been read.
DelayInv == reply.form = "failed" /\ finished => delay = ParseRetryAfter(reply.header, Now)

LEMMA DelayInvHolds == RSafe => []DelayInv
<1>1. RInit => DelayInv
  BY DEF RInit, DelayInv
<1>2. ReplyInv /\ DelayInv /\ [RNext]_rvars => DelayInv'
  <2> SUFFICES ASSUME ReplyInv, DelayInv, [RNext]_rvars PROVE DelayInv'
    OBVIOUS
  <2>0. UNCHANGED <<dialect, reply, folded>>
    BY ReplyStays
  <2>1. CASE Streams
    BY <2>0, <2>1 DEF Streams, DelayInv
  <2>2. CASE FoldBody
    BY <2>0, <2>2 DEF FoldBody, DelayInv
  <2>3. CASE RawChunk \/ RawDrop \/ RawEnd
    BY <2>0, <2>3 DEF RawChunk, RawDrop, RawEnd, Raw, DelayInv
  <2>4. CASE RYield \/ RYieldEnd
    BY <2>0, <2>4 DEF RYield, RYieldEnd, Yield, YieldEnd, driver, DelayInv
  <2>5. CASE UNCHANGED vars /\ UNCHANGED delay
    BY <2>0, <2>5 DEF vars, driver, DelayInv
  <2> QED  BY <2>1, <2>2, <2>3, <2>4, <2>5
           DEF RNext, RChunkRead, RDrop, RBodyEnd, RFlush, Done, rvars, Quiet
<1> QED  BY <1>1, <1>2, ReplyInvHolds, PTL DEF RSafe

\* A Retry-After that names a day of the calendar, whichever, is answered with the distance
\* to it (parse_retry_after, days_from_civil).
THEOREM RetriesAreOnTime == RSafe => []RetryAfterIsTheDistance
<1>1. ReplyInv /\ DelayInv => RetryAfterIsTheDistance
  <2> DEFINE h == reply.header
             secs == h.hour * 3600 + h.min * 60 + h.sec
             target == Later(<<DaysCounted(h), 0>>, <<0, secs>>)
  <2> SUFFICES ASSUME ReplyInv, DelayInv, reply.form = "failed", finished, h.type = "date", OnCalendar(h)
               PROVE  IF Before(target, Now) THEN delay = <<0, 0>>
                      ELSE IF Before(Later(Now, MaxDelay), target) THEN delay = MaxDelay
                      ELSE Later(Now, delay) = target
    BY DEF RetryAfterIsTheDistance
  <2>1. IsHeader(h) /\ Now \in Nat \X (0..(DayLength - 1))
    <3>1. h \in Headers \/ h = [type |-> "none"]
      BY DEF ReplyInv, Replies
    <3>2. h # [type |-> "none"]
      OBVIOUS
    <3> QED  BY <3>1, <3>2, ResponseAssumption
  <2>2. h.year \in Int /\ h.month \in Nat /\ h.day \in Nat /\ h.hour \in Nat /\ h.min \in Nat /\ h.sec \in Nat
    BY <2>1 DEF IsHeader
  <2>3. /\ h.year \in Nat /\ h.year >= 1970 /\ h.month \in 1..12 /\ h.day \in 1..31
        /\ h.hour <= 23 /\ h.min <= 59 /\ h.sec <= 60
    <3>1. \A m \in 1..12 : MonthLength(h.year, m) \in {28, 29, 30, 31}
      BY DEF MonthLength
    <3> QED  BY <2>2, <3>1 DEF OnCalendar
  <2>4. DaysFromCivil(h.year, h.month, h.day) = DaysCounted(h) /\ DaysCounted(h) \in Nat
    BY <2>3, CivilDays
  <2>5. secs \in Nat /\ secs <= 86400
    BY <2>2, <2>3, SMT
  <2>6. ImfFixdate(h) = <<DaysCounted(h), secs>>
    BY <2>3, <2>4 DEF ImfFixdate
  <2>7. delay = Distance(<<DaysCounted(h), secs>>, Now)
    <3>1. <<DaysCounted(h), secs>> # NoDelay
      BY DEF NoDelay
    <3> QED  BY <2>6, <3>1 DEF DelayInv, ParseRetryAfter
  <2> DEFINE days == DaysCounted(h)
             n == Now[1]
             t == Now[2]
  <2>8. n \in Nat /\ t \in Nat /\ t < 86400 /\ Now = <<n, t>> /\ secs \in Nat /\ secs <= 86400 /\ days \in Nat
    <3>1. n \in Nat /\ t \in 0..(DayLength - 1) /\ Now = <<n, t>>
      <4> DEFINE S == 0..(DayLength - 1)
      <4>1. Now \in Nat \X S
        BY <2>1
      <4> HIDE DEF S
      <4>2. Now[1] \in Nat /\ Now[2] \in S /\ Now = <<Now[1], Now[2]>>
        BY <4>1, Pairs
      <4> QED  BY <4>2 DEF S
    <3>2. t \in Nat /\ t < DayLength
      <4>1. DayLength \in Nat
        BY SMT DEF DayLength
      <4> QED  BY <3>1, <4>1, SMT
    <3>3. t < 86400
      BY <3>2, SMT DEF DayLength
    <3> HIDE DEF secs, n, t
    <3> QED  BY <2>4, <2>5, <3>1, <3>2, <3>3, SMT
  <2> HIDE DEF secs, days, n, t
  <2>9. /\ Before(target, Now) => delay = <<0, 0>>
        /\ ~ Before(target, Now) /\ Before(Later(Now, MaxDelay), target) => delay = MaxDelay
        /\ ~ Before(target, Now) /\ ~ Before(Later(Now, MaxDelay), target) => Later(Now, delay) = target
    BY <2>7, <2>8, Distances, SMT DEF days
  <2> QED  BY <2>9
<1> QED  BY <1>1, ReplyInvHolds, DelayInvHolds, PTL
===============================================================================
