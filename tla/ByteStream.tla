------------------------------ MODULE ByteStream ------------------------------
(***************************************************************************)
(* What a response body promises whoever iterates over it (the body of a   *)
(* TransportResponse): the bytes of the source, in order, in chunks that   *)
(* are never empty; then nothing more, or an error.  It ends without an    *)
(* error only when the source has ended and every byte was handed on.      *)
(***************************************************************************)
EXTENDS Integers, Sequences

VARIABLES
    sent,       \* the number of bytes the source has produced
    closed,     \* the source will produce no more
    got,        \* the bytes handed on
    verdict     \* "open", "ended" or "failed"

vars == <<sent, closed, got, verdict>>

FirstBytes(n) == [i \in 1..n |-> i]

Init == sent = 0 /\ ~ closed /\ got = <<>> /\ verdict = "open"

Produce ==
    /\ ~ closed
    /\ sent' \in {sent, sent + 1}
    /\ closed' \in BOOLEAN
    /\ UNCHANGED <<got, verdict>>

HandOn ==
    /\ verdict = "open"
    /\ \E n \in (Len(got) + 1)..sent : got' = FirstBytes(n)
    /\ UNCHANGED <<sent, closed, verdict>>

End ==
    /\ verdict = "open" /\ closed /\ Len(got) = sent
    /\ verdict' = "ended"
    /\ UNCHANGED <<sent, closed, got>>

\* At any time; the source may be closed for it.
Fail ==
    /\ verdict = "open"
    /\ verdict' = "failed"
    /\ closed' \in {closed, TRUE}
    /\ UNCHANGED <<sent, got>>

Next == Produce \/ HandOn \/ End \/ Fail

Spec == Init /\ [][Next]_vars
==============================================================================
