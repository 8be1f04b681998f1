------------------------------ MODULE StateStore ------------------------------
(***************************************************************************)
(* What docs/sdk.md:197 promises of state/<path>: writes are atomic and    *)
(* the whole is limited by a quota.  PackageState implements it.           *)
(***************************************************************************)
EXTENDS Naturals, FiniteSetsExt

CONSTANTS Nodes, Size, Quota, None

Contents == DOMAIN Size

VARIABLE store

Used(s) == MapThenSumSet(LAMBDA n : Size[s[n]], {n \in Nodes : s[n] # None})

Init == store = [n \in Nodes |-> None]

Write(n, c) ==
  /\ store' = [store EXCEPT ![n] = c]
  /\ Used(store') <= Quota

Next == \E n \in Nodes, c \in Contents : Write(n, c)

Spec == Init /\ [][Next]_store
=============================================================================
