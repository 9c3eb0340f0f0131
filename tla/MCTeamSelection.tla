--------------------------- MODULE MCTeamSelection ---------------------------
(***************************************************************************)
(* Instances of TeamSelection for TLC: a Basic plan that admits one        *)
(* worker, and a Full one that admits two.                                 *)
(***************************************************************************)
EXTENDS TeamSelection, TLC

RequestSymmetry == Permutations(Request)

SmallLimit == [basico |-> 1, full |-> 2]

=============================================================================
