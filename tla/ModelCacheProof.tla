---------------------------- MODULE ModelCacheProof ----------------------------
(***************************************************************************)
(* For any number of processes, any names and any listings: no model is    *)
(* listed twice, nothing unknown to the provider enters the cache, and     *)
(* what a success writes is remembered.                               *)
(*                                                                         *)
(* The properties of the file hold because every copy a process has read   *)
(* has them too, and because what a copy could not place is not in it.     *)
(***************************************************************************)
EXTENDS ModelCache, WellFoundedInduction, TLAPS

Once(models) == \A i, j \in DOMAIN models : models[i].id = models[j].id => i = j

\* A document as it may be found anywhere.
DocOK(doc) ==
    /\ Once(doc.models)
    /\ Ids(doc.models) \subseteq known
    /\ doc.last_used # None => doc.last_used \in known

ListingOK(models) == Once(models) /\ Ids(models) \subseteq known

AskOK(p) ==
    pc[p] = "sent" =>
        /\ model[p] \in Names
        /\ model[p] \in Ids(cached[p].models) <=> ~ learned[p]

Inv ==
    /\ TypeOK
    /\ DocOK(File)
    /\ \A p \in Procs : DocOK(cached[p]) /\ ListingOK(listing[p]) /\ AskOK(p)

LEMMA NoDocIsNone == None \notin Docs
  BY CacheAssumption

LEMMA EmptyOK == Empty \in Docs /\ DocOK(Empty) /\ ListingOK(<<>>) /\ <<>> \in Seq(Entries)
  BY DEF Empty, Docs, DocOK, ListingOK, Once, Ids

\* Knowing more never hurts.
LEMMA KnownGrows ==
  ASSUME NEW doc, NEW models, known \subseteq known'
  PROVE  /\ DocOK(doc) => DocOK(doc)'
         /\ ListingOK(models) => ListingOK(models)'
  BY DEF DocOK, ListingOK

\* A non-empty set of naturals has a least element.
LEMMA LeastElement ==
    ASSUME NEW S \in SUBSET Nat, S # {}
    PROVE  \E m \in S : \A x \in S : m <= x
<1> DEFINE R == {r \in Nat \X Nat : r[1] < r[2]}
<1>1. R = OpToRel(<, Nat)
  BY Zenon DEF OpToRel
<1>2. IsWellFoundedOn(R, Nat)
  BY <1>1, NatLessThanWellFounded, Zenon
<1> HIDE DEF R
<1>3. PICK m \in S : \A x \in S : ~ (<<x, m>> \in R)
  BY <1>2, WFMin, Zenon
<1>4. \A x \in Nat : x < m => <<x, m>> \in R
  BY DEF R
<1>5. \A x \in S : m <= x
  <2> SUFFICES ASSUME NEW x \in S PROVE m <= x
    OBVIOUS
  <2>1. ~ (x < m)
    BY <1>3, <1>4
  <2> QED  BY <2>1
<1> QED  BY <1>5

\* The first of some positions is one of them.
LEMMA FirstHit ==
  ASSUME NEW models \in Seq(Entries), NEW hits \in SUBSET DOMAIN models, hits # {}
  PROVE  FirstId(models, hits) \in Ids(models)
<1>1. hits \in SUBSET Nat
  OBVIOUS
<1>2. (CHOOSE i \in hits : \A j \in hits : i <= j) \in hits
  BY <1>1, LeastElement
<1> QED
  BY <1>2 DEF FirstId, Ids

LEMMA IdsAreNames ==
  ASSUME NEW models \in Seq(Entries)
  PROVE  Ids(models) \subseteq Names
<1>1. \A i \in DOMAIN models : models[i] \in Entries
  OBVIOUS
<1> QED
  BY <1>1 DEF Ids, Entries

\* What select_model says of a name is so.
LEMMA SelectPlaces ==
  ASSUME NEW doc \in Docs, NEW seed \in Names \cup {Bare}, ~ (seed = Bare /\ doc.models = <<>>)
  PROVE  /\ Select(doc, seed).model \in Names
         /\ Select(doc, seed).learned \in BOOLEAN
         /\ Select(doc, seed).model \in Ids(doc.models) <=> ~ Select(doc, seed).learned
<1> DEFINE ids == Ids(doc.models)
<1>1. doc.models \in Seq(Entries) /\ ids \subseteq Names
  BY IdsAreNames DEF Docs
<1>2. CASE seed = Bare
  <2> DEFINE flagged == {i \in DOMAIN doc.models : doc.models[i].default}
  <2>1. doc.models[1].id \in ids
    <3>1. 1 \in DOMAIN doc.models
      BY <1>1, <1>2
    <3> QED
      BY <3>1 DEF Ids
  <2>2. flagged # {} => FirstId(doc.models, flagged) \in ids
    BY <1>1, FirstHit
  <2>3. Default(doc) \in ids
    BY <2>1, <2>2 DEF Default
  <2> QED
    BY <1>1, <1>2, <2>3 DEF Select, Placed
<1>3. CASE seed \in ids
  BY <1>1, <1>3, CacheAssumption DEF Select, Placed
<1>4. CASE seed # Bare /\ seed \notin ids /\ Partial(doc.models, seed) # {}
  <2>1. FirstId(doc.models, Partial(doc.models, seed)) \in ids
    BY <1>1, <1>4, FirstHit DEF Partial
  <2> QED
    BY <1>1, <1>4, <2>1 DEF Select, Placed
<1>5. CASE seed # Bare /\ seed \notin ids /\ Partial(doc.models, seed) = {}
  BY <1>5 DEF Select, Verbatim
<1> QED
  BY <1>2, <1>3, <1>4, <1>5

\* The document a success writes is sound and points into itself.
LEMMA TaughtOK ==
  ASSUME NEW doc \in Docs, NEW id \in Names, NEW new \in BOOLEAN,
         DocOK(doc), id \in Ids(doc.models) <=> ~ new
  PROVE  /\ Taught(doc, id, new) \in Docs
         /\ Once(Taught(doc, id, new).models)
         /\ Ids(Taught(doc, id, new).models) = Ids(doc.models) \cup {id}
         /\ Taught(doc, id, new).last_used = id
<1> DEFINE entry == [id |-> id, default |-> FALSE]
           t == Taught(doc, id, new)
<1>1. doc.models \in Seq(Entries) /\ entry \in Entries
  BY DEF Docs, Entries
<1>2. CASE new
  <2> DEFINE n == Len(doc.models)
             longer == Append(doc.models, entry)
  <2>1. t = [models |-> longer, last_used |-> id]
    BY <1>2 DEF Taught
  <2>2. /\ longer \in Seq(Entries) /\ Len(longer) = n + 1 /\ longer[n + 1] = entry
        /\ n \in Nat /\ DOMAIN longer = 1..(n + 1) /\ DOMAIN doc.models = 1..n
        /\ \A i \in 1..n : longer[i] = doc.models[i]
    BY <1>1
  <2> HIDE DEF longer, n
  <2>3. Once(longer)
    <3> SUFFICES ASSUME NEW i \in 1..(n + 1), NEW j \in 1..(n + 1), longer[i].id = longer[j].id
                 PROVE  i = j
      BY <2>2 DEF Once
    <3>1. \A k \in 1..n : longer[k].id # id
      BY <1>2, <2>2 DEF Ids
    <3>2. CASE i \in 1..n /\ j \in 1..n
      BY <2>2, <3>2 DEF DocOK, Once
    <3>3. CASE i = n + 1 \/ j = n + 1
      BY <2>2, <3>1, <3>3
    <3> QED
      BY <2>2, <3>2, <3>3
  <2>4. Ids(longer) = Ids(doc.models) \cup {id}
    <3>1. ASSUME NEW x \in Ids(longer) PROVE x \in Ids(doc.models) \cup {id}
      BY <2>2 DEF Ids
    <3>2. ASSUME NEW x \in Ids(doc.models) PROVE x \in Ids(longer)
      <4>1. PICK i \in 1..n : x = doc.models[i].id
        BY <2>2 DEF Ids
      <4>2. i \in DOMAIN longer /\ longer[i].id = x
        BY <2>2, <4>1
      <4> QED
        BY <4>2 DEF Ids
    <3>3. id \in Ids(longer)
      <4>1. n + 1 \in DOMAIN longer /\ longer[n + 1].id = id
        BY <2>2
      <4> QED
        BY <4>1 DEF Ids
    <3> QED
      BY <3>1, <3>2, <3>3
  <2> QED
    BY <2>1, <2>2, <2>3, <2>4 DEF Docs
<1>3. CASE ~ new
  <2>1. t = [models |-> doc.models, last_used |-> id]
    BY <1>3 DEF Taught
  <2> QED
    BY <1>1, <1>3, <2>1 DEF Docs, DocOK
<1> QED
  BY <1>2, <1>3

LEMMA InitInv == Init => Inv
  BY EmptyOK DEF Init, Inv, TypeOK, File, AskOK

\* A process that is through has nothing left.
LEMMA EndsInv ==
  ASSUME Inv, NEW p \in Procs, Ends(p), known \subseteq known', known' \subseteq Names,
         cache' \in Docs \cup {None}, DocOK(File)'
  PROVE  Inv'
<1>1. TypeOK'
  BY EmptyOK DEF Inv, TypeOK, Ends
<1>2. ASSUME NEW q \in Procs PROVE DocOK(cached[q])' /\ ListingOK(listing[q])' /\ AskOK(q)'
  <2>1. DocOK(Empty)' /\ ListingOK(<<>>)'
    BY EmptyOK, KnownGrows
  <2>2. CASE q = p
    BY <2>1, <2>2 DEF Ends, AskOK, Inv, TypeOK, DocOK, ListingOK
  <2>3. CASE q # p
    <3>1. pc'[q] = pc[q] /\ cached'[q] = cached[q] /\ listing'[q] = listing[q]
          /\ model'[q] = model[q] /\ learned'[q] = learned[q]
      BY <2>3 DEF Ends, Inv, TypeOK
    <3>2. DocOK(cached[q]) /\ ListingOK(listing[q]) /\ AskOK(q)
      BY DEF Inv
    <3> QED
      BY <3>1, <3>2 DEF DocOK, ListingOK, AskOK
  <2> QED
    BY <2>2, <2>3
<1> QED
  BY <1>1, <1>2 DEF Inv

LEMMA ReadsOK ==
  ASSUME Inv, NEW doc \in Reads
  PROVE  doc \in Docs /\ DocOK(doc)
  BY EmptyOK DEF Inv, TypeOK, Reads, File

LEMMA ResolveInv ==
  ASSUME Inv, NEW p \in Procs, NEW seed \in Names \cup {Bare}, Resolve(p, seed)
  PROVE  Inv'
<1>1. PICK doc \in Reads :
        /\ ~ (seed = Bare /\ doc.models = <<>>)
        /\ pc' = [pc EXCEPT ![p] = "sent"]
        /\ cached' = [cached EXCEPT ![p] = doc]
        /\ model' = [model EXCEPT ![p] = Select(doc, seed).model]
        /\ learned' = [learned EXCEPT ![p] = Select(doc, seed).learned]
  BY DEF Resolve
<1>2. doc \in Docs /\ DocOK(doc)
  BY ReadsOK
<1>3. /\ Select(doc, seed).model \in Names
      /\ Select(doc, seed).learned \in BOOLEAN
      /\ Select(doc, seed).model \in Ids(doc.models) <=> ~ Select(doc, seed).learned
  BY <1>1, <1>2, SelectPlaces
<1>4. TypeOK' /\ UNCHANGED <<cache, listing, known>>
  BY <1>1, <1>2, <1>3 DEF Inv, TypeOK, Resolve
<1>5. DocOK(File)'
  BY <1>4 DEF Inv, DocOK, File
<1>6. ASSUME NEW q \in Procs PROVE DocOK(cached[q])' /\ ListingOK(listing[q])' /\ AskOK(q)'
  <2>1. ListingOK(listing[q])'
    BY <1>4 DEF Inv, ListingOK
  <2>2. CASE q = p
    BY <1>1, <1>2, <1>3, <1>4, <2>1, <2>2 DEF Inv, TypeOK, DocOK, AskOK
  <2>3. CASE q # p
    <3>1. pc'[q] = pc[q] /\ cached'[q] = cached[q] /\ model'[q] = model[q] /\ learned'[q] = learned[q]
      BY <1>1, <2>3 DEF Inv, TypeOK
    <3> QED
      BY <1>4, <2>1, <3>1 DEF Inv, DocOK, AskOK
  <2> QED
    BY <2>2, <2>3
<1> QED
  BY <1>4, <1>5, <1>6 DEF Inv

\* What Accept may leave in the file.
LEMMA AcceptWrites ==
  ASSUME Inv, NEW p \in Procs, Accept(p)
  PROVE  /\ cache' \in Docs \cup {None} /\ known' \subseteq Names /\ known \subseteq known'
         /\ cache' # cache => cache'.models # <<>> /\ Select(cache', Bare) = Placed(model[p])
         /\ DocOK(File)'
<1> DEFINE t == Taught(cached[p], model[p], learned[p])
<1>1. /\ cached[p] \in Docs /\ model[p] \in Names /\ learned[p] \in BOOLEAN /\ DocOK(cached[p])
      /\ model[p] \in Ids(cached[p].models) <=> ~ learned[p]
  BY DEF Inv, TypeOK, AskOK, Accept
<1>2. /\ t \in Docs /\ Once(t.models) /\ Ids(t.models) = Ids(cached[p].models) \cup {model[p]}
      /\ t.last_used = model[p]
  <2>1. PICK new \in BOOLEAN : new = learned[p]
    BY <1>1
  <2>2. model[p] \in Ids(cached[p].models) <=> ~ new
    BY <1>1, <2>1
  <2>3. /\ Taught(cached[p], model[p], new) \in Docs
        /\ Once(Taught(cached[p], model[p], new).models)
        /\ Ids(Taught(cached[p], model[p], new).models) = Ids(cached[p].models) \cup {model[p]}
        /\ Taught(cached[p], model[p], new).last_used = model[p]
    BY <1>1, <2>2, TaughtOK
  <2> QED
    BY <2>1, <2>3
<1>3. known' = known \cup {model[p]} /\ cache' \in {cache, t}
  BY DEF Accept
<1> HIDE DEF t
<1>4. t.models # <<>> /\ Select(t, Bare) = Placed(model[p])
  <2>1. model[p] \in Ids(t.models) /\ Ids(<<>>) = {}
    BY <1>2 DEF Ids
  <2> QED
    BY <1>2, <2>1, Zenon DEF Select, Default, Placed
<1>5. cache' \in Docs \cup {None} /\ known' \subseteq Names /\ known \subseteq known'
  BY <1>1, <1>2, <1>3 DEF Inv, TypeOK
<1>6. CASE cache' = cache
  <2>1. DocOK(File)
    BY DEF Inv
  <2> QED
    BY <1>5, <1>6, <2>1 DEF DocOK, File
<1>7. CASE cache' = t
  <2>1. File' = t
    BY <1>2, <1>7, NoDocIsNone DEF File
  <2>2. Ids(t.models) \subseteq known' /\ t.last_used \in known'
    BY <1>1, <1>2, <1>3 DEF DocOK
  <2> QED
    BY <1>2, <1>4, <1>5, <1>7, <2>1, <2>2 DEF DocOK
<1> QED
  BY <1>3, <1>6, <1>7

LEMMA FetchInv ==
  ASSUME Inv, NEW p \in Procs, Fetch(p)
  PROVE  Inv'
<1>1. PICK list \in Listings, doc \in Reads :
        /\ listing' = [listing EXCEPT ![p] = list]
        /\ cached' = [cached EXCEPT ![p] = doc]
        /\ known' = known \cup Ids(list)
  BY DEF Fetch
<1>2. doc \in Docs /\ DocOK(doc)
  BY ReadsOK
<1>3. list \in Seq(Entries) /\ Once(list) /\ Ids(list) \subseteq Names
  BY CacheAssumption, IdsAreNames DEF Once
<1>4. pc' = [pc EXCEPT ![p] = "relist"] /\ UNCHANGED <<cache, model, learned>>
  BY DEF Fetch
<1>5. TypeOK' /\ known \subseteq known'
  BY <1>1, <1>2, <1>3, <1>4 DEF Inv, TypeOK
<1>6. DocOK(File)'
  BY <1>4, <1>5 DEF Inv, DocOK, File
<1>7. ASSUME NEW q \in Procs PROVE DocOK(cached[q])' /\ ListingOK(listing[q])' /\ AskOK(q)'
  <2>1. CASE q = p
    BY <1>1, <1>2, <1>3, <1>4, <1>5, <2>1 DEF Inv, TypeOK, DocOK, ListingOK, AskOK
  <2>2. CASE q # p
    <3>1. pc'[q] = pc[q] /\ cached'[q] = cached[q] /\ listing'[q] = listing[q]
      BY <1>1, <1>4, <2>2 DEF Inv, TypeOK
    <3> QED
      BY <1>4, <1>5, <3>1 DEF Inv, DocOK, ListingOK, AskOK
  <2> QED
    BY <2>1, <2>2
<1> QED
  BY <1>5, <1>6, <1>7 DEF Inv

LEMMA RelistWrites ==
  ASSUME Inv, NEW p \in Procs, Relist(p)
  PROVE  cache' \in Docs \cup {None} /\ DocOK(File)'
<1> DEFINE doc == [models |-> listing[p], last_used |-> cached[p].last_used]
<1>1. doc \in Docs /\ DocOK(doc)
  BY DEF Inv, TypeOK, DocOK, ListingOK, Docs
<1>2. cache' \in {cache, doc} /\ known' = known
  BY DEF Relist
<1>3. CASE cache' = cache
  BY <1>2, <1>3 DEF Inv, TypeOK, DocOK, File
<1>4. CASE cache' = doc
  <2>1. File' = doc
    BY <1>1, <1>4, NoDocIsNone DEF File
  <2> QED
    BY <1>1, <1>2, <1>4, <2>1 DEF DocOK
<1> QED
  BY <1>2, <1>3, <1>4

LEMMA Invariance == Spec => []Inv
<1>1. ASSUME Inv, [Next]_vars PROVE Inv'
  <2>1. ASSUME NEW p \in Procs, NEW seed \in Names \cup {Bare}, Resolve(p, seed) PROVE Inv'
    BY <1>1, <2>1, ResolveInv
  <2>2. ASSUME NEW p \in Procs, Accept(p) PROVE Inv'
    <3>1. Ends(p)
      BY <2>2 DEF Accept
    <3> QED
      BY <1>1, <2>2, <3>1, AcceptWrites, EndsInv
  <2>3. ASSUME NEW p \in Procs, Reject(p) PROVE Inv'
    <3>1. Ends(p) /\ UNCHANGED <<cache, known>>
      BY <2>3 DEF Reject
    <3>2. cache' \in Docs \cup {None} /\ DocOK(File)' /\ known' \subseteq Names
      BY <1>1, <3>1 DEF Inv, TypeOK, DocOK, File
    <3> QED
      BY <1>1, <3>1, <3>2, EndsInv
  <2>4. ASSUME NEW p \in Procs, Fetch(p) PROVE Inv'
    BY <1>1, <2>4, FetchInv
  <2>5. ASSUME NEW p \in Procs, Relist(p) PROVE Inv'
    <3>1. Ends(p) /\ known' = known /\ known \subseteq Names
      BY <1>1, <2>5 DEF Relist, Inv, TypeOK
    <3> QED
      BY <1>1, <2>5, <3>1, RelistWrites, EndsInv
  <2>6. CASE UNCHANGED vars
    BY <1>1, <2>6 DEF Inv, vars, TypeOK, DocOK, ListingOK, AskOK, File
  <2> QED
    BY <1>1, <2>1, <2>2, <2>3, <2>4, <2>5, <2>6 DEF Next
<1> QED
  BY <1>1, InitInv, PTL DEF Spec

\* No model is listed twice, whatever list each process read before it appended.
THEOREM AppendingNeverRepeats == Spec => []ListedOnce
<1>1. Inv => ListedOnce
  BY DEF Inv, DocOK, Once, ListedOnce
<1> QED
  BY <1>1, Invariance, PTL

\* Nothing enters the cache that the provider neither listed nor accepted.
THEOREM RefusalsLeaveNoTrace == Spec => []OnlyKnownModels
<1>1. Inv => OnlyKnownModels
  BY DEF Inv, DocOK, OnlyKnownModels
<1> QED
  BY <1>1, Invariance, PTL

\* The model of a success that is written is what a bare request finds there.
THEOREM SuccessesAreRemembered == Spec => SuccessIsRemembered
<1> DEFINE Step == \A p \in Procs : pc[p] = "sent" /\ pc'[p] = "idle" /\ cache' # cache =>
                       cache'.models # <<>> /\ Select(cache', Bare) = Placed(model[p])
<1>1. ASSUME Inv, [Next]_vars PROVE Step
  <2> SUFFICES ASSUME NEW p \in Procs, pc[p] = "sent", pc'[p] = "idle", cache' # cache
               PROVE  cache'.models # <<>> /\ Select(cache', Bare) = Placed(model[p])
    OBVIOUS
  <2>1. PICK q \in Procs : Accept(q) \/ Relist(q)
    BY <1>1 DEF Next, Resolve, Reject, Fetch, vars
  <2>2. q = p
    BY <1>1, <2>1 DEF Accept, Relist, Ends, Inv, TypeOK
  <2>3. CASE Accept(q)
    BY <1>1, <2>2, <2>3, AcceptWrites
  <2>4. CASE Relist(q)
    BY <2>2, <2>4 DEF Relist
  <2> QED
    BY <2>1, <2>3, <2>4
<1> QED
  BY <1>1, Invariance, PTL DEF Spec, SuccessIsRemembered
==============================================================================
