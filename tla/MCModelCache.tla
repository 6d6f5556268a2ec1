------------------------------ MODULE MCModelCache ------------------------------
(***************************************************************************)
(* Instances of ModelCache for TLC: a family with two members and a model  *)
(* apart from it.                                                          *)
(***************************************************************************)
EXTENDS ModelCache, TLC

FewNames == {"gpt", "gpt-5", "o3"}
ByFamily == {<<n, n>> : n \in FewNames} \cup {<<"gpt-5", "gpt">>}

Listed(id, default) == [id |-> id, default |-> default]
SomeListings == {<<>>, <<Listed("gpt-5", FALSE)>>, <<Listed("o3", FALSE), Listed("gpt-5", TRUE)>>}

Symmetric == Permutations(Procs)
==============================================================================
