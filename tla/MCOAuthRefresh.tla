---------------------------- MODULE MCOAuthRefresh ----------------------------
(***************************************************************************)
(* Instances of OAuthRefresh and of Login for TLC: either everything, with *)
(* a login in one step, or logins in detail, which implement that step.    *)
(* The first login names its account, the second does not.                 *)
(***************************************************************************)
EXTENDS Login, TLC

VARIABLE detailed       \* whether the logins are

MCInit ==
    /\ Init /\ named = {1} /\ FlowInit /\ detailed \in BOOLEAN
    /\ IF detailed THEN policy = "keeps" /\ store = None ELSE wire = CHOOSE w \in Wires : TRUE

MCNext ==
    /\ \/ detailed /\ LoginNext
       \/ ~ detailed /\ Next /\ UNCHANGED flow
    /\ UNCHANGED detailed

MCSpec == MCInit /\ [][MCNext]_<<detailed, flow, vars>>

Symmetric == Permutations(Runs)
==============================================================================
