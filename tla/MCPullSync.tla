------------------------------ MODULE MCPullSync ------------------------------
(* Small instances of PullSync for TLC.                                        *)
EXTENDS PullSync

\* One pull request.  Listings, tokens and keys of two do not touch each other.
One == {7}
=============================================================================
