------------------------------- MODULE MCServer -------------------------------
(* Small instances of MelissaServer: two simulations of one or two steps.     *)
EXTENDS ServerRefines, TLC

CONSTANTS s1, s2, a, b

\* one rank fed by one stream, by two, two ranks fed by one each
OneRank == {0}
TwoRanks == {0, 1}
OneStream == a :> 0
TwoStreams == a :> 0 @@ b :> 0
StreamPerRank == a :> 0 @@ b :> 1

Symmetry == Permutations({s1, s2})
=============================================================================
