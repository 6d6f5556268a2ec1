---------------------------- MODULE MCFileReplace ----------------------------
(***************************************************************************)
(* Instances of FileReplace for TLC.                                       *)
(***************************************************************************)
EXTENDS FileReplace, TLC

CONSTANTS a, b, v1, v2

\* The replay stash: a name per process.
OwnTemp == (a :> a) @@ (b :> b)

\* The credential store and the model cache: one name for all.
SharedTemp == [p \in Writers |-> CHOOSE n \in Names : TRUE]

SymmetricValues == Permutations(Values) \cup Permutations(Inodes)
Symmetric == SymmetricValues \cup Permutations({a, b})
==============================================================================
