---------------------------- MODULE MCNeedsRebase ----------------------------
(* A pull request, from a branch of the repository and from a fork.        *)
EXTENDS NeedsRebase
=============================================================================
