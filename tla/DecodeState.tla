----------------------------- MODULE DecodeState -----------------------------
(***************************************************************************)
(* The state a protocol's decode threads from frame to frame               *)
(* (protocol/frame.rs) and the block bookkeeping the structure-less        *)
(* dialects share (protocol/synth.rs).                                     *)
(*                                                                         *)
(* A decode is a function from a frame and a state to a state.  The vector *)
(* of events it returns is the field `out`, which the driver empties       *)
(* before every call; so `Vec<Event>` and `&mut DecodeState` travel        *)
(* together through the helpers, as in the source.                         *)
(***************************************************************************)
EXTENDS Canonical, Integers, FiniteSets

\* HashMap::insert and HashMap::remove.
Insert(f, k, v) == [x \in DOMAIN f \cup {k} |-> IF x = k THEN v ELSE f[x]]
Remove(f, k) == [x \in DOMAIN f \ {k} |-> f[x]]

IsPartialFn(f, D, R) == /\ IsFiniteSet(DOMAIN f) /\ DOMAIN f \subseteq D
                        /\ f \in [DOMAIN f -> R]

\* What a decode state may be.  `open` maps a canonical index to the kind of its
\* block; tool_index and part_index map the wire's numbering to canonical indices.
\* The remaining fields are Booleans: refusal is whether any refusal text streamed,
\* error_tag whether the last tag noted is `authentication_failed`.
IsDecodeState(s) ==
    /\ s \in [open : {s.open}, terminated : BOOLEAN, started : BOOLEAN,
               tool_index : {s.tool_index}, part_index : {s.part_index},
               refusal : BOOLEAN, error_tag : BOOLEAN, out : Seq(Event)]
    /\ IsPartialFn(s.open, Nat, Kinds)
    /\ IsPartialFn(s.tool_index, Nat, Nat)
    /\ IsPartialFn(s.part_index, Nat \X Nat, Nat)

Default == [open |-> EmptyFn, terminated |-> FALSE, started |-> FALSE,
            tool_index |-> EmptyFn, part_index |-> EmptyFn,
            refusal |-> FALSE, error_tag |-> FALSE, out |-> <<>>]

Emit(s, e) == [s EXCEPT !.out = Append(@, e)]

\* Open the block `i`: record it and tell the consumer.
OpenBlock(s, i, k, b) ==
    Emit([s EXCEPT !.open = Insert(@, i, k)], ContentStart(i, k, b))

(***************************************************************************)
(* synth.rs                                                                *)
(***************************************************************************)
\* Mutant: count the calls only.
NextIndexOfCalls(s) == Cardinality(DOMAIN s.tool_index)

\* The next canonical index is the number of open blocks.
NextIndex(s) == Cardinality(DOMAIN s.open)

OpenOf(s, k) == {i \in DOMAIN s.open : s.open[i] = k}

\* open_text and open_thinking: the one lazy block of kind k, opened on first use.
OpenLazy(s, k) == IF OpenOf(s, k) = {} THEN OpenBlock(s, NextIndex(s), k, k) ELSE s

\* A fragment of the lazy block of kind k.
LazyDelta(s, k, d) ==
    LET t == OpenLazy(s, k)
    IN  Emit(t, ContentDelta(CHOOSE i \in OpenOf(t, k) : TRUE, d, k))

\* MessageStart, synthesized before the first piece of content.
StartMessage(s) == IF s.started THEN s ELSE Emit([s EXCEPT !.started = TRUE], MessageStart)

\* The members of a finite set of indices in ascending order (sort_unstable).
Ascending(S) ==
    CHOOSE q \in [1..Cardinality(S) -> S] :
        \A m, n \in 1..Cardinality(S) : m < n => q[m] < q[n]

Stops(S) == [n \in 1..Cardinality(S) |-> ContentStop(Ascending(S)[n])]

\* drain, and the driver's close_open_blocks: stop every open block, ascending.
Drain(s) == [s EXCEPT !.open = EmptyFn, !.out = @ \o Stops(DOMAIN s.open)]
==============================================================================
