---------------------------- MODULE MCGitHubClient ----------------------------
(* GitHubClient with two callers and a small window.                       *)
EXTENDS GitHubClient, TLC

CONSTANTS c1, c2

CallerSymmetry == Permutations(Caller)
===============================================================================
