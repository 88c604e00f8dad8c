------------------------------- MODULE MCStorage -------------------------------
(* Small instances of Storage for TLC.                                      *)
EXTENDS Storage, TLC

\* An empty body, one of a part's length and one longer than a part.
SmallBodies == {<<>>, <<"a">>, <<"b", "b">>}

Symmetric == Permutations(Requests)
=============================================================================
