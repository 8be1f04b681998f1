-------------------------- MODULE MCPackageRunner --------------------------
(* Two packages and room for both: a face and its rival, or a face and an  *)
(* app.                                                                    *)
EXTENDS PackageRunner

CONSTANTS p1, p2

MCRefs == {p1, p2}
=============================================================================
