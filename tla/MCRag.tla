-------------------------------- MODULE MCRag --------------------------------
(***************************************************************************)
(* Checking RagService: documents are alike, and so are delete requests.   *)
(* No property here is a liveness property, so their symmetry may be used. *)
(***************************************************************************)
EXTENDS RagService, TLC

DeletesAlike == Permutations(Deletes)
AllAlike     == Permutations(Docs) \cup DeletesAlike
==============================================================================
