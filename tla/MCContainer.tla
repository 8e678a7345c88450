----------------------------- MODULE MCContainer -----------------------------
(* Instances of Container for TLC: the members of each constant set are       *)
(* interchangeable, but for the root.                                         *)
EXTENDS Container, TLC

ContainerSymmetry ==
    UNION {Permutations(Containers \ {Root}), Permutations(Tokens),
           Permutations(Registrations), Permutations(Instances)}
=============================================================================
