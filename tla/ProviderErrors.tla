---------------------------- MODULE ProviderErrors ----------------------------
(***************************************************************************)
(* How a provider's failure becomes a canonical error.  A whole response   *)
(* with a status other than 2xx is judged by the status; an error frame in *)
(* the middle of a 2xx stream has none, so each dialect judges it by its   *)
(* own discriminator.                                                      *)
(*                                                                         *)
(* Kinds keep the number of Provider{status} here, because what is worth   *)
(* another try depends on it; ClassOf folds it to the classes of Canonical.*)
(***************************************************************************)
EXTENDS Canonical, Integers

Provider(status) == [kind |-> "Provider", status |-> status]
Kind(k) == [kind |-> k, status |-> 0]

FromHttpStatus(status) ==
    IF status \in {401, 403} THEN Kind("Auth") ELSE Provider(status)

ClassOf(k) ==
    CASE k.kind # "Provider"                      -> k.kind
      [] k.kind = "Provider" /\ k.status >= 500   -> "Provider5xx"
      [] OTHER                                    -> "Provider4xx"

\* CanonicalError::retryable.
Retryable(k) ==
    k.kind = "Transport" \/ (k.kind = "Provider" /\ (k.status = 429 \/ k.status >= 500))

Is2xx(status) == status \in 200..299

\* exit_from_status: what --raw exits with, unless the transport drops.
ExitFromStatus(status) ==
    IF Is2xx(status) THEN 0 ELSE ExitOf[ClassOf(FromHttpStatus(status))]

(***************************************************************************)
(* http_error: the body of a failed response rides along verbatim.  A body *)
(* is empty, text, or JSON that names its message in one of three ways or  *)
(* not at all; `says` is where the message is taken from.                  *)
(***************************************************************************)
ErrorBodies == {"empty", "text", "error.message", "error", "detail", "json"}

HttpError(status, body) ==
    ErrorWith(ClassOf(FromHttpStatus(status)), IF body = "empty" THEN 0 ELSE 1)

(***************************************************************************)
(* The failures a provider may report in mid-stream, by the tag each       *)
(* dialect gives them ("" where it has none).  `code` is a numeric code.   *)
(***************************************************************************)
MessagesErrorKind(tag) ==
    CASE tag \in {"authentication_error", "permission_error"} -> Kind("Auth")
      [] tag = "invalid_request_error" -> Provider(400)
      [] tag = "billing_error"         -> Provider(402)
      [] tag = "not_found_error"       -> Provider(404)
      [] tag = "request_too_large"     -> Provider(413)
      [] tag = "rate_limit_error"      -> Provider(429)
      [] tag = "api_error"             -> Provider(500)
      [] tag = "timeout_error"         -> Provider(504)
      [] tag = "overloaded_error"      -> Provider(529)
      [] OTHER                         -> Kind("Transport")

\* Substrings of the tag decide; a numeric code is a status and goes first.
ChatErrorKind(code, tag) ==
    CASE code # 0 -> FromHttpStatus(code)
      [] code = 0 /\ tag \in {"rate_limit_error", "insufficient_quota"} -> Provider(429)
      [] code = 0 /\ tag \in {"server_error", "overloaded_error", "service_unavailable"} -> Provider(500)
      [] OTHER -> Kind("Transport")

\* Mutant: only the server's faults have a number.
ResponsesErrorKindBlunt(tag) ==
    IF tag = "server_error" THEN Provider(500) ELSE Provider(400)

ResponsesErrorKind(tag) ==
    CASE tag = "server_error" -> Provider(500)
      [] tag \in {"rate_limit_exceeded", "rate_limit_error"} -> Provider(429)
      [] OTHER -> Kind("Transport")

\* A code that is missing reads as 0, which is no status of any class.
GenaiErrorKind(code) == FromHttpStatus(code)

OllamaErrorKind == Kind("Transport")

\* What each dialect's server writes for a failure that has the given HTTP status.
MessagesTag == [s \in {400, 401, 403, 404, 413, 429, 500, 504, 529} |->
    CASE s = 400 -> "invalid_request_error" [] s = 401 -> "authentication_error"
      [] s = 403 -> "permission_error" [] s = 404 -> "not_found_error"
      [] s = 413 -> "request_too_large" [] s = 429 -> "rate_limit_error"
      [] s = 500 -> "api_error" [] s = 504 -> "timeout_error" [] s = 529 -> "overloaded_error"]

ChatTag(s) ==
    CASE s = 429 -> "rate_limit_error" [] s = 500 -> "server_error"
      [] s = 529 -> "overloaded_error" [] OTHER -> "invalid_request_error"

Failures == DOMAIN MessagesTag

\* The kind dialect d gives a failure its server reports in mid-stream.
InBandKind(d, s) ==
    CASE d \in {"anthropic", "claude"} -> MessagesErrorKind(MessagesTag[s])
      [] d = "openai"    -> ChatErrorKind(0, ChatTag(s))
      [] d = "google"    -> GenaiErrorKind(s)
      [] d = "ollama"    -> OllamaErrorKind
      [] d = "responses" -> ResponsesErrorKind(ChatTag(s))

(***************************************************************************)
(* canonical/retry_after.rs: the delay a Retry-After header asks for, an   *)
(* integer of seconds or a date.                                           *)
(*                                                                         *)
(* A moment, and a delay, is a pair of days and seconds of the day: the    *)
(* code computes in 64 bits and clamps to u32, which is MaxDelay here.     *)
(***************************************************************************)
DayLength == 86400
MaxDelay == <<49710, 23295>>     \* u32::MAX seconds
NoDelay == <<>>

Before(a, b) == a[1] < b[1] \/ (a[1] = b[1] /\ a[2] < b[2])

\* Mutant: every fourth year is a leap year.
DaysFromCivilJulian(year, month, day) ==
    LET y   == IF month <= 2 THEN year - 1 ELSE year
        era == y \div 400
        yoe == y - era * 400
        doy == (153 * (IF month > 2 THEN month - 3 ELSE month + 9) + 2) \div 5 + day - 1
    IN  era * 146097 + yoe * 365 + yoe \div 4 + doy - 719468

\* Days since 1970-01-01; the year is taken to begin in March.
DaysFromCivil(year, month, day) ==
    LET y   == IF month <= 2 THEN year - 1 ELSE year
        era == y \div 400
        yoe == y - era * 400
        doy == (153 * (IF month > 2 THEN month - 3 ELSE month + 9) + 2) \div 5 + day - 1
        doe == yoe * 365 + yoe \div 4 - yoe \div 100 + doy
    IN  era * 146097 + doe - 719468

\* An IMF-fixdate, or no moment where a component is out of range or the moment lies
\* before 1970, which u64::try_from refuses.  A leap second (sec = 60) is let through.
ImfFixdate(h) ==
    LET days == DaysFromCivil(h.year, h.month, h.day)
        secs == h.hour * 3600 + h.min * 60 + h.sec
    IN  IF /\ h.month \in 1..12 /\ h.day \in 1..31 /\ h.hour <= 23 /\ h.min <= 59 /\ h.sec <= 60
           /\ days >= 0 \/ (days = -1 /\ secs = DayLength)
        THEN <<days, secs>> ELSE NoDelay

Distance(target, now) ==
    IF Before(target, now) THEN <<0, 0>>
    ELSE LET s == target[2] - now[2]
             d == target[1] - now[1]
             delay == IF s < 0 THEN <<d - 1, s + DayLength>> ELSE <<d, s>>
         IN  IF Before(MaxDelay, delay) THEN MaxDelay ELSE delay

ParseRetryAfter(h, now) ==
    CASE h.type = "none"    -> NoDelay
      [] h.type = "garbage" -> NoDelay
      [] h.type = "seconds" -> <<0, h.seconds>>
      [] h.type = "date"    ->
            IF ImfFixdate(h) = NoDelay THEN NoDelay ELSE Distance(ImfFixdate(h), now)
==============================================================================
