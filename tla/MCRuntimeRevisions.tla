------------------------- MODULE MCRuntimeRevisions -------------------------
(* RuntimeRevisions on a small instance.                                    *)
EXTENDS RuntimeRevisions, TLC

\* A page holds one: the second key pushes the first one out.
MCKind == <<"uuid", "uri">>

Symmetry == Permutations(Request)
=============================================================================
