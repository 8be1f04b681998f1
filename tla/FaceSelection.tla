--------------------------- MODULE FaceSelection ---------------------------
(***************************************************************************)
(* What the watch promises about the selected face, with no trace of       *)
(* flash, health records or reboots: a newly chosen package replaces the   *)
(* active face only after its own frame has been on the panel, and losing  *)
(* the candidate never changes the active face.                            *)
(***************************************************************************)
CONSTANTS Faces, None

VARIABLES
  face,       \* the face the watch shows, None for the built-in one
  candidate,  \* the face on probation, None when there is none
  shown       \* the candidate's frame has reached the panel

Init == face = None /\ candidate = None /\ shown = FALSE

Choose(f) == candidate' = f /\ shown' = FALSE /\ UNCHANGED face

Show == candidate # None /\ shown' = TRUE /\ UNCHANGED <<face, candidate>>

Accept ==
  /\ candidate # None /\ shown
  /\ face' = candidate
  /\ candidate' = None /\ shown' = FALSE

Reject == candidate' = None /\ shown' = FALSE /\ UNCHANGED face

(* The built-in face is chosen, or the active package is removed.          *)
Reset == face' = None /\ candidate' = None /\ shown' = FALSE

(* A reboot forgets what was on the panel.                                 *)
Reboot == shown' = FALSE /\ UNCHANGED <<face, candidate>>

Next == Show \/ Accept \/ Reject \/ Reset \/ Reboot \/ \E f \in Faces : Choose(f)

Spec == Init /\ [][Next]_<<face, candidate, shown>>
=============================================================================
