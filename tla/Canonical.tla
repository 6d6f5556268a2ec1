------------------------------ MODULE Canonical ------------------------------
(***************************************************************************)
(* The canonical vocabulary of brazen (canonical/event.rs and              *)
(* canonical/error.rs): the events every provider response is folded into, *)
(* the error taxonomy and the exit codes computed from it.                 *)
(*                                                                         *)
(* Data is abstracted to what the properties tell apart.  The payload of a *)
(* delta is the identity of the piece of content the provider meant it for *)
(* (its "block"), so that a fragment delivered into the wrong block is     *)
(* visible; the text itself, ids, names and token counts are left out.     *)
(***************************************************************************)
EXTENDS Naturals, Sequences

EmptyFn == [x \in {} |-> x]

\* canonical::ContentKind, without its payload.
Kinds == {"Text", "Thinking", "RedactedThinking", "ToolUse",
          "ServerToolUse", "ServerToolResult", "Image"}

\* The identity of a piece of content: a block that is opened lazily is known by its
\* kind, the others are named by the wire (see Provider).
Pieces == Kinds \cup {"", "b0", "b1", "b2", "b3", "b0p", "b1p", "b2p", "b3p"}

\* canonical::Delta, without its payload.
Deltas == {"TextDelta", "JsonDelta", "ThinkingDelta", "SignatureDelta",
           "EncryptedReasoningDelta", "ImageDelta"}

\* canonical::FinishReason; the strings carried by Refusal and Other are dropped.
Reasons == {"Stop", "Length", "ToolUse", "StopSequence", "Pause", "Refusal", "Other"}

\* canonical::ErrorKind.  Provider{status} is split at the boundary the exit
\* table splits it: below 500 and from 500 on.
ErrorKinds == {"Usage", "ParseInput", "Config", "Auth", "Provider4xx",
               "Provider5xx", "Transport", "Interrupted", "Other"}

(***************************************************************************)
(* Events.                                                                 *)
(***************************************************************************)
MessageStart == [type |-> "MessageStart"]
Usage == [type |-> "Usage"]
End == [type |-> "End"]
ContentStart(i, k, b) == [type |-> "ContentStart", index |-> i, kind |-> k, block |-> b]
ContentDelta(i, d, b) == [type |-> "ContentDelta", index |-> i, delta |-> d, block |-> b]
ContentStop(i) == [type |-> "ContentStop", index |-> i]
Finish(r) == [type |-> "Finish", reason |-> r]
\* `detail` is provider_detail: how many bytes of body sample the error carries.
ErrorWith(k, n) == [type |-> "Error", kind |-> k, detail |-> n]
Error(k) == ErrorWith(k, 0)

Event == [type : {"MessageStart", "Usage", "End"}]
    \cup [type : {"ContentStart"}, index : Nat, kind : Kinds, block : Pieces]
    \cup [type : {"ContentDelta"}, index : Nat, delta : Deltas, block : Pieces]
    \cup [type : {"ContentStop"}, index : Nat]
    \cup [type : {"Finish"}, reason : Reasons]
    \cup [type : {"Error"}, kind : ErrorKinds, detail : Nat]

(***************************************************************************)
(* Exit codes (ExitClass).                                                 *)
(***************************************************************************)
ExitOf == [k \in ErrorKinds |->
    CASE k \in {"Usage", "ParseInput"}        -> 64
      [] k \in {"Provider4xx", "Transport"}   -> 69
      [] k \in {"Provider5xx", "Other"}       -> 70
      [] k = "Auth"                           -> 77
      [] k = "Config"                         -> 78
      [] k = "Interrupted"                    -> 130]

\* ExitClass::from_io: what a failed write to the sink turns into.
WriteExits == {141, 69}

\* ErrorKind::from_http_status, on the status classes the model distinguishes.
StatusKind == [s \in {"401", "4xx", "5xx"} |->
    CASE s = "401" -> "Auth" [] s = "4xx" -> "Provider4xx" [] s = "5xx" -> "Provider5xx"]
==============================================================================
