------------------------------ MODULE Transcript ------------------------------
(***************************************************************************)
(* The canonical request (canonical/request.rs, canonical/knobs.rs) and    *)
(* what is done to it before it is encoded (config/resolved.rs).           *)
(*                                                                         *)
(* A text is a sequence of pieces, so that joining texts is \o; the piece  *)
(* 0 is the literal "[error] ".  A knob the request does not set is not in *)
(* the domain of `knobs`.  `extra` maps paths of one or two keys to values *)
(* that nobody looks into.                                                 *)
(***************************************************************************)
EXTENDS Integers, Sequences, FiniteSets, TLC
SX == INSTANCE SequencesExt

\* What f sets, and what g sets beside it (as @@, of which TLAPS knows no definition).
f ++ g == [x \in DOMAIN f \cup DOMAIN g |-> IF x \in DOMAIN f THEN f[x] ELSE g[x]]

Each(Op(_), s) == [n \in DOMAIN s |-> Op(s[n])]
FlatMap(Op(_), s) == SX!FlattenSeq(Each(Op, s))
Those(Is(_), s) == FlatMap(LAMBDA x : IF Is(x) THEN <<x>> ELSE <<>>, s)

ErrorPrefix == <<0>>

\* The source of an image or a document has a form, "base64" or "url", and data.
Text(t) == [type |-> "Text", text |-> t]
Image(source) == [type |-> "Image", source |-> source]
Document(source) == [type |-> "Document", source |-> source]
ToolUse(id, name, signed) == [type |-> "ToolUse", id |-> id, name |-> name, signed |-> signed]
ToolResult(id, content, is_error) ==
    [type |-> "ToolResult", id |-> id, content |-> content, is_error |-> is_error]
\* A signature is "absent", "blank" (the empty string) or "given".
Thinking(t, signature, encrypted) ==
    [type |-> "Thinking", text |-> t, signature |-> signature, encrypted |-> encrypted]
RedactedThinking == [type |-> "RedactedThinking"]
ServerTool(type) == [type |-> type]

\* Message and its Deserialize: a user turn with a tool result is a tool turn.
Message(role, content) ==
    [role |-> IF role = "User" /\ \E n \in DOMAIN content : content[n].type = "ToolResult"
              THEN "Tool" ELSE role,
     content |-> content]

OfType(content, types) == Those(LAMBDA c : c.type \in types, content)
Without(content, types) == Those(LAMBDA c : c.type \notin types, content)
OfRole(messages, role) == Those(LAMBDA m : m.role = role, messages)
Texts(content) == FlatMap(LAMBDA c : c.text, OfType(content, {"Text"}))
Calls(messages) == FlatMap(LAMBDA m : OfType(m.content, {"ToolUse"}), messages)

\* Mutant: the name is not looked up.
ToolNameUnresolved(messages, id, otherwise) == otherwise

\* tool_name: the name of the first call with the id.
ToolName(messages, id, otherwise) ==
    LET same == Those(LAMBDA c : c.id = id, Calls(messages))
    IN  IF same = <<>> THEN otherwise ELSE Head(same).name

(***************************************************************************)
(* Knobs.                                                                  *)
(***************************************************************************)
\* The fields a row may name as not supported; `stream` is not one of them.
Knobs == {"max_tokens", "temperature", "top_p", "stop", "reasoning", "service_tier", "image",
          "output", "cache_key"}

Budget == [low |-> 1024, medium |-> 8192, high |-> 24576]
ReasoningHeadroom == 4096
Floor(effort) == Budget[effort] + ReasoningHeadroom

Sets(req, k) == k \in DOMAIN req.knobs
AsksForImage(req) == Sets(req, "image") /\ req.knobs["image"]

(***************************************************************************)
(* The funnel.  A configuration is the row the request is routed to with   *)
(* the flags, the environment and the file folded in.                      *)
(***************************************************************************)
FillAbsent(req, cfg) ==
    LET taken == {p[1] : p \in DOMAIN req.extra}
        passed == {p \in DOMAIN cfg.extra : p[1] \notin taken}
    IN  [req EXCEPT !.knobs = @ ++ cfg.knobs ++ [stream |-> TRUE],
                    !.system = IF @ = <<>> THEN cfg.system ELSE @,
                    !.extra = @ ++ [p \in passed |-> cfg.extra[p]]]

Preamble == Text(<<99>>)

LeadWithPreamble(req, cfg) ==
    IF cfg.preamble /\ (req.system = <<>> \/ Head(req.system) # Preamble)
    THEN [req EXCEPT !.system = <<Preamble>> \o @]
    ELSE req

StripUnsupported(req, cfg) ==
    [req EXCEPT !.knobs = [k \in DOMAIN @ \ (cfg.unsupported \cap Knobs) |-> @[k]],
                !.extra = [p \in {p \in DOMAIN @ : p[1] \notin cfg.unsupported \ Knobs} |-> @[p]]]

HasBudget(d) == d \in {"anthropic", "google"}

\* couple_budget; `served` is the cap the model list gives for the model, 0 for none.
CoupleBudget(req, cfg) ==
    LET stated == Sets(req, "max_tokens")
        cap == IF stated THEN req.knobs["max_tokens"] ELSE cfg.served
        least == Floor(req.knobs["reasoning"])
    IN  IF Sets(req, "reasoning") /\ HasBudget(cfg.dialect) /\ (stated \/ cfg.served # 0)
        THEN [req EXCEPT !.knobs = [max_tokens |-> IF cap > least THEN cap ELSE least] ++ @]
        ELSE req

\* Mutant: the row's defaults come after what it strips.
StripFirst(req, cfg) == LeadWithPreamble(FillAbsent(StripUnsupported(req, cfg), cfg), cfg)

\* What send_encoded and fetch_count do to a request before they encode it.
PreparedToCount(req, cfg) == StripUnsupported(LeadWithPreamble(FillAbsent(req, cfg), cfg), cfg)
Prepared(req, cfg) == CoupleBudget(PreparedToCount(req, cfg), cfg)
===============================================================================
