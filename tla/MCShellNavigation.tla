------------------------- MODULE MCShellNavigation -------------------------
EXTENDS ShellNavigation

Catalog(apps, quarantined, active, selected) ==
  [readable |-> TRUE, apps |-> apps, quarantined |-> quarantined, active |-> active,
   selected |-> selected]

(* Nothing installed; one face shown and the other quarantined, two more   *)
(* than the window holds; four apps and a face on probation.               *)
MCCatalogs ==
  {Catalog(0, <<>>, 0, FALSE),
   Catalog(1, <<TRUE, FALSE, FALSE>>, 3, TRUE),
   Catalog(4, <<FALSE>>, 0, TRUE)}

MCMasks == {{"menu"}, {"back"}, {"down"}, {"up"}}
=============================================================================
