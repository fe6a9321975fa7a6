------------------------- MODULE MCRecommendations -------------------------
(***************************************************************************)
(* An instance of Recommendations: two SKUs with codes of which one begins *)
(* the other, like the 10000 and 100000 of db/seed.sql.                    *)
(***************************************************************************)
EXTENDS Recommendations, TLC

CONSTANTS s1, s2, c1, c2

OneBeginsTheOther == {<<s1, s2>>}

Symmetric == Permutations({c1, c2})
============================================================================
