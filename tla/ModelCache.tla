------------------------------ MODULE ModelCache ------------------------------
(***************************************************************************)
(* The model cache of one provider: how a request finds its model in it    *)
(* (select_model), how a successful request teaches it (generate.rs), and  *)
(* how --list-models replaces it (models/mod.rs), with several processes   *)
(* between whose reads and writes a network round trip passes.             *)
(*                                                                         *)
(* Each read and each write is one step: FileReplace shows when they are.  *)
(***************************************************************************)
EXTENDS Integers, Sequences, SequencesExt

CONSTANTS
    Procs,
    Names,          \* model names, whole or partial
    NameContains,       \* pairs <<a, b>>: name a contains name b, letter case aside
    Listings,       \* what the provider may list, each in its order
    ReadsMayFail,   \* the file may be unreadable, or not parse
    None,           \* no cache file, no pointer
    Bare            \* the empty seed

Entries == [id : Names, default : BOOLEAN]

\* CachedModels
Docs == [models : Seq(Entries), last_used : Names \cup {None}]
Ids(models) == {models[i].id : i \in DOMAIN models}

ASSUME CacheAssumption ==
    /\ NameContains \subseteq Names \X Names
    /\ Listings \subseteq Seq(Entries)
    /\ \A list \in Listings : \A i, j \in DOMAIN list : list[i].id = list[j].id => i = j
    /\ ReadsMayFail \in BOOLEAN
    /\ {None, Bare} \cap Names = {} /\ None \notin Docs

VARIABLES
    cache,      \* the file: a document, or None
    pc,         \* per process: where it is
    cached,     \* per process: what it read
    model,      \* per process: the model it asks for
    learned,    \* per process: the cache could not place that model
    listing,    \* per process: the list it was served
    known       \* history: what the provider ever listed or accepted

vars == <<cache, pc, cached, model, learned, listing, known>>

\* CachedModels::default
Empty == [models |-> <<>>, last_used |-> None]

Init ==
    /\ cache = None
    /\ pc = [p \in Procs |-> "idle"]
    /\ cached = [p \in Procs |-> Empty] /\ listing = [p \in Procs |-> <<>>]
    /\ model = [p \in Procs |-> None] /\ learned = [p \in Procs |-> FALSE]
    /\ known = {}

\* What get().unwrap_or_default() may return.
Reads == {IF cache = None THEN Empty ELSE cache} \cup (IF ReadsMayFail THEN {Empty} ELSE {})

(***************************************************************************)
(* select_model: the name to send, and whether the list could not place it.*)
(***************************************************************************)
FirstId(models, hits) == models[CHOOSE i \in hits : \A j \in hits : i <= j].id

Partial(models, seed) == {i \in DOMAIN models : <<models[i].id, seed>> \in NameContains}

\* last_used if it is listed, else what the provider flags, else the first.
Default(doc) ==
    LET flagged == {i \in DOMAIN doc.models : doc.models[i].default}
    IN  IF doc.last_used \in Ids(doc.models) THEN doc.last_used
        ELSE IF flagged # {} THEN FirstId(doc.models, flagged)
        ELSE doc.models[1].id

Placed(id) == [model |-> id, learned |-> FALSE]
Verbatim(seed) == [model |-> seed, learned |-> TRUE]

\* Mutant: what is found by its exact name is taken for unlisted.
SelectInexact(doc, seed) ==
    IF seed = Bare THEN Placed(Default(doc))
    ELSE IF seed \notin Ids(doc.models) /\ Partial(doc.models, seed) # {}
         THEN Placed(FirstId(doc.models, Partial(doc.models, seed)))
    ELSE Verbatim(seed)

\* An exact name before a partial one.
Select(doc, seed) ==
    IF seed = Bare THEN Placed(Default(doc))
    ELSE IF seed \in Ids(doc.models) THEN Placed(seed)
    ELSE IF Partial(doc.models, seed) # {}
         THEN Placed(FirstId(doc.models, Partial(doc.models, seed)))
    ELSE Verbatim(seed)

(***************************************************************************)
(* A request.                                                              *)
(***************************************************************************)
Ends(p) ==
    /\ pc' = [pc EXCEPT ![p] = "idle"]
    /\ cached' = [cached EXCEPT ![p] = Empty] /\ listing' = [listing EXCEPT ![p] = <<>>]
    /\ model' = [model EXCEPT ![p] = None] /\ learned' = [learned EXCEPT ![p] = FALSE]

\* The cache is read, the model resolved, the request sent.  A bare seed on an empty
\* list ends the run (78).
Resolve(p, seed) ==
    /\ pc[p] = "idle"
    /\ \E doc \in Reads :
          /\ ~ (seed = Bare /\ doc.models = <<>>)
          /\ pc' = [pc EXCEPT ![p] = "sent"]
          /\ cached' = [cached EXCEPT ![p] = doc]
          /\ model' = [model EXCEPT ![p] = Select(doc, seed).model]
          /\ learned' = [learned EXCEPT ![p] = Select(doc, seed).learned]
    /\ UNCHANGED <<cache, listing, known>>

\* Mutant: what is written is the pointer alone.
TaughtForgetful(doc, id, new) == [doc EXCEPT !.last_used = id]

\* What the document becomes once id has worked.
Taught(doc, id, new) ==
    [models |-> IF new THEN Append(doc.models, [id |-> id, default |-> FALSE]) ELSE doc.models,
     last_used |-> id]

\* A 2xx.  The document read before the request went out is written back, changed; a put
\* that fails is only reported.
Accept(p) ==
    /\ pc[p] = "sent"
    /\ known' = known \cup {model[p]}
    /\ IF learned[p] \/ cached[p].last_used # model[p]
       THEN cache' \in {cache, Taught(cached[p], model[p], learned[p])}
       ELSE UNCHANGED cache
    /\ Ends(p)

\* Mutant: any answer teaches.
RejectTeaches(p) ==
    /\ pc[p] = "sent"
    /\ cache' = Taught(cached[p], model[p], learned[p])
    /\ Ends(p)
    /\ UNCHANGED known

\* Any other answer, none, or the death of the process.
Reject(p) ==
    /\ pc[p] = "sent"
    /\ Ends(p)
    /\ UNCHANGED <<cache, known>>

(***************************************************************************)
(* --list-models                                                           *)
(***************************************************************************)
\* The list is served, then the old document is read.
Fetch(p) ==
    /\ pc[p] = "idle"
    /\ pc' = [pc EXCEPT ![p] = "relist"]
    /\ \E list \in Listings, doc \in Reads :
          /\ listing' = [listing EXCEPT ![p] = list]
          /\ cached' = [cached EXCEPT ![p] = doc]
          /\ known' = known \cup Ids(list)
    /\ UNCHANGED <<cache, model, learned>>

\* relist and put: the list is replaced, the pointer kept.
Relist(p) ==
    /\ pc[p] = "relist"
    /\ cache' \in {cache, [models |-> listing[p], last_used |-> cached[p].last_used]}
    /\ Ends(p)
    /\ UNCHANGED known

Next ==
    \E p \in Procs :
        \/ \E seed \in Names \cup {Bare} : Resolve(p, seed)
        \/ Accept(p) \/ Reject(p)
        \/ Fetch(p) \/ Relist(p)

Spec == Init /\ [][Next]_vars

(***************************************************************************)
(* Properties.                                                             *)
(***************************************************************************)
TypeOK ==
    /\ cache \in Docs \cup {None}
    /\ pc \in [Procs -> {"idle", "sent", "relist"}]
    /\ cached \in [Procs -> Docs] /\ listing \in [Procs -> Seq(Entries)]
    /\ model \in [Procs -> Names \cup {None}] /\ learned \in [Procs -> BOOLEAN]
    /\ known \subseteq Names

File == IF cache = None THEN Empty ELSE cache

\* No model is listed twice, although every process appends to the list it happened to
\* read ("Verbatim proves it is absent").
ListedOnce == \A i, j \in DOMAIN File.models : File.models[i].id = File.models[j].id => i = j

\* Only what the provider listed or answered is in the cache, as a member or as the
\* pointer: a mistyped name that was tried and refused leaves no trace, whatever reads
\* failed and whoever wrote last.
OnlyKnownModels == Ids(File.models) \cup ({File.last_used} \ {None}) \subseteq known

\* Whoever writes after a success writes a pointer into the list it writes, and a bare
\* request that reads the file next asks for that very model ("after a 2xx, last_used
\* names an id that is in models"), even if the pointer it read was left dangling by a
\* relist.
SuccessIsRemembered ==
    [][ \A p \in Procs : pc[p] = "sent" /\ pc'[p] = "idle" /\ cache' # cache =>
           cache'.models # <<>> /\ Select(cache', Bare) = Placed(model[p]) ]_vars

==============================================================================
