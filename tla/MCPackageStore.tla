--------------------------- MODULE MCPackageStore ---------------------------
(* Two versions of one package and a second package; one version and the   *)
(* second package come with the factory seed.                              *)
EXTENDS PackageStore

CONSTANTS a1, a2, b1, a, b

MCRefs == {a1, a2, b1}
MCIds == {a, b}
MCIdOf == [r \in MCRefs |-> IF r = b1 THEN b ELSE a]
MCSeedList == <<a1, b1>>
=============================================================================
