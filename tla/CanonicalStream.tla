---------------------------- MODULE CanonicalStream ----------------------------
(***************************************************************************)
(* What brazen promises whoever reads its output, whatever the provider    *)
(* and however the answer ends: a stream of canonical events, delivered    *)
(* one by one, in which                                                    *)
(*   - content comes after the one MessageStart and before the verdict;    *)
(*   - a block index is opened at most once, and a fragment arrives only   *)
(*     while its own block is open, carrying that block's content;         *)
(*   - at most one verdict (Finish) is given;                              *)
(*   - the exit code is that of the last error delivered, 0 without one;   *)
(*   - End comes last, once, and only after a verdict or an error.         *)
(* A consumer that cannot be written to ends the run instead.              *)
(*                                                                         *)
(* Whether every block has been stopped when End comes is stated apart, by *)
(* the modules that implement this one: the code does not always keep it.  *)
(***************************************************************************)
EXTENDS Canonical, FiniteSets

VARIABLES
    event,     \* the event delivered last
    started,   \* MessageStart was delivered
    blocks,    \* the open blocks, from index to what the provider put in them
    used,      \* every index opened so far
    verdict,   \* the reason of the Finish delivered, or "none"
    exit,      \* the exit code so far
    status     \* "running", "ended" or "broken" (the consumer went away)

vars == <<event, started, blocks, used, verdict, exit, status>>

Init ==
    /\ event = [type |-> "None"]
    /\ started = FALSE
    /\ blocks = EmptyFn
    /\ used = {}
    /\ verdict = "none"
    /\ exit = 0
    /\ status = "running"

(***************************************************************************)
(* Each action is parameterised by the event it delivers, which is the     *)
(* next value of `event`.                                                  *)
(***************************************************************************)
Start(e) ==
    /\ e = MessageStart
    /\ ~ started
    /\ started' = TRUE
    /\ UNCHANGED <<blocks, used, verdict, exit>>

Open(e) ==
    /\ e.type = "ContentStart"
    /\ started /\ verdict = "none"
    /\ e.index \notin used
    /\ blocks' = [i \in DOMAIN blocks \cup {e.index} |-> IF i = e.index THEN e.block ELSE blocks[i]]
    /\ used' = used \cup {e.index}
    /\ UNCHANGED <<started, verdict, exit>>

Fragment(e) ==
    /\ e.type = "ContentDelta"
    /\ e.index \in DOMAIN blocks
    /\ e.block = blocks[e.index]
    /\ UNCHANGED <<started, blocks, used, verdict, exit>>

Stop(e) ==
    /\ e.type = "ContentStop"
    /\ e.index \in DOMAIN blocks
    /\ blocks' = [i \in DOMAIN blocks \ {e.index} |-> blocks[i]]
    /\ UNCHANGED <<started, used, verdict, exit>>

Count(e) ==
    /\ e = Usage
    /\ started
    /\ UNCHANGED <<started, blocks, used, verdict, exit>>

Verdict(e) ==
    /\ e.type = "Finish"
    /\ started /\ verdict = "none" /\ blocks = EmptyFn
    /\ verdict' = e.reason
    /\ UNCHANGED <<started, blocks, used, exit>>

Fail(e) ==
    /\ e.type = "Error"
    /\ exit' = ExitOf[e.kind]
    /\ UNCHANGED <<started, blocks, used, verdict>>

Deliver(e) ==
    /\ \/ Start(e) \/ Open(e) \/ Fragment(e) \/ Stop(e) \/ Count(e) \/ Verdict(e) \/ Fail(e)
    /\ UNCHANGED status

Finished ==
    /\ verdict # "none" \/ exit # 0
    /\ event' = End
    /\ status' = "ended"
    /\ UNCHANGED <<started, blocks, used, verdict, exit>>

Broken ==
    /\ exit' \in WriteExits
    /\ status' = "broken"
    /\ UNCHANGED <<event, started, blocks, used, verdict>>

Next ==
    /\ status = "running"
    /\ \/ Deliver(event')
       \/ Finished
       \/ Broken

Spec == Init /\ [][Next]_vars
==============================================================================
