--------------------------- MODULE MCGithubCache ---------------------------
(* The instance of GithubCache for TLC. *)
EXTENDS GithubCache, TLC

RequestSymmetry == Permutations(Requests)
=============================================================================
