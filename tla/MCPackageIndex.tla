--------------------------- MODULE MCPackageIndex ---------------------------
(* Three packages for two places: the index and the health table both fill *)
(* up, and a package is removed to make room for another.                  *)
EXTENDS PackageIndex, TLC

CONSTANTS p1, p2, p3

MCRefs == {p1, p2, p3}
Symmetry == Permutations(MCRefs)
=============================================================================
