---------------------------- MODULE OpenAiResponses ----------------------------
(***************************************************************************)
(* protocol/openai_responses/decode: typed `response.*` events.  The wire  *)
(* names a block by the pair (output item, content part); part_index maps  *)
(* the pairs, in order of first sight, to canonical indices.               *)
(***************************************************************************)
EXTENDS DecodeState

\* An image item is an image_generation_call.
ItemTypes == {"function_call", "reasoning", "message", "image"}

\* `item` and `part` are the pair (part is 0 where the wire carries none); `tool` is
\* whether the final output lists a function call.
ResponsesFrames ==
    [type : {"created", "refusal"}]
    \cup [type : {"item_added"}, item : Nat, part : {0}, itype : ItemTypes, block : Pieces]
    \cup [type : {"part_added"}, item : Nat, part : Nat, ptype : {"output_text", "refusal"}, block : Pieces]
    \cup [type : {"delta"}, item : Nat, part : Nat, delta : Deltas, block : Pieces]
    \cup [type : {"item_done"}, item : Nat, part : {0}, itype : ItemTypes, encrypted : BOOLEAN, block : Pieces]
    \cup [type : {"completed"}, tool : BOOLEAN, reason : Reasons, usage : BOOLEAN]
    \cup [type : {"incomplete"}, reason : Reasons, usage : BOOLEAN]
    \cup [type : {"failed"}, kind : ErrorKinds]

PartKey(f) == <<f.item, f.part>>

\* canonical: the pair's index, assigned on first sight.
Assign(s, key) ==
    IF key \in DOMAIN s.part_index THEN s
    ELSE [s EXCEPT !.part_index = Insert(@, key, Cardinality(DOMAIN s.part_index))]

OpenPart(s, key, k, b) ==
    LET t == Assign(s, key) IN OpenBlock(t, t.part_index[key], k, b)

ItemAdded(f, s) ==
    CASE f.itype = "function_call" -> OpenPart(s, PartKey(f), "ToolUse", f.block)
      [] f.itype = "reasoning"     -> OpenPart(s, PartKey(f), "Thinking", f.block)
      [] OTHER                     -> s

PartAdded(f, s) ==
    IF f.ptype = "output_text" THEN OpenPart(s, PartKey(f), "Text", f.block) ELSE s

\* A fragment whose block never opened, or is already closed, routes nowhere.
PartDelta(f, s) ==
    IF PartKey(f) \notin DOMAIN s.part_index THEN s
    ELSE IF s.part_index[PartKey(f)] \notin DOMAIN s.open THEN s
    ELSE Emit(s, ContentDelta(s.part_index[PartKey(f)], f.delta, f.block))

\* The open blocks of an output item.
OpenParts(item, s) ==
    {s.part_index[key] : key \in {k \in DOMAIN s.part_index : k[1] = item}} \cap DOMAIN s.open

\* item_done closes the item's blocks ascending; a reasoning item first hands over
\* its encrypted blob on each of them.
ItemDone(f, s) ==
    LET S == OpenParts(f.item, s)
        encrypted == [n \in 1..(2 * Cardinality(S)) |->
            IF n % 2 = 1 THEN ContentDelta(Ascending(S)[(n + 1) \div 2], "EncryptedReasoningDelta", f.block)
            ELSE ContentStop(Ascending(S)[n \div 2])]
    IN  [s EXCEPT !.open = [i \in DOMAIN @ \ S |-> @[i]],
                  !.out = @ \o (IF f.itype = "reasoning" /\ f.encrypted THEN encrypted ELSE Stops(S))]

\* image_item: a generated image rides whole in the done frame and is never open.
ImageItem(f, s) ==
    LET t == Assign(s, PartKey(f))
        i == t.part_index[PartKey(f)]
    IN  Emit(Emit(Emit(t, ContentStart(i, "Image", f.block)),
                  ContentDelta(i, "ImageDelta", f.block)), ContentStop(i))

OutputItemDone(f, s) == IF f.itype = "image" THEN ImageItem(f, s) ELSE ItemDone(f, s)

\* terminal: close what is open, usage if any, the verdict.
Terminal(reason, f, s) ==
    LET t == IF f.usage THEN Emit(Drain(s), Usage) ELSE Drain(s)
    IN  [Emit(t, Finish(reason)) EXCEPT !.terminated = TRUE]

CompletedReason(f, s) ==
    CASE s.refusal -> "Refusal" [] ~ s.refusal /\ f.tool -> "ToolUse" [] OTHER -> f.reason

ResponsesDecode(f, s) ==
    CASE f.type = "created"    -> StartMessage(s)
      [] f.type = "item_added" -> ItemAdded(f, s)
      [] f.type = "part_added" -> PartAdded(f, s)
      [] f.type = "delta"      -> PartDelta(f, s)
      [] f.type = "refusal"    -> [s EXCEPT !.refusal = TRUE]
      [] f.type = "item_done"  -> OutputItemDone(f, s)
      [] f.type = "completed"  -> Terminal(CompletedReason(f, s), f, s)
      [] f.type = "incomplete" -> Terminal(f.reason, f, s)
      [] f.type = "failed"     -> Emit(s, Error(f.kind))
      [] OTHER                 -> s
==============================================================================
