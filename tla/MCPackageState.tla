---------------------------- MODULE MCPackageState ----------------------------
(* Two paths at the root, of which one may also be the directory of two    *)
(* others; an empty file, a short one and one that fits only once.         *)
EXTENDS PackageState, TLC

CONSTANTS a, b, x, y, empty, short, long, t1, t2

MCNodes == {a, b, x, y}
MCAbove == a :> {} @@ b :> {} @@ x :> {a} @@ y :> {a}
MCSize == empty :> 0 @@ short :> 1 @@ long :> 3
MCTemps == {t1, t2}
=============================================================================
