-------------------------- MODULE ExactFramebuffer --------------------------
(***************************************************************************)
(* What an exact session promises, without epochs, messages or threads.    *)
(* The viewer shows one committed frame, lossy or exact; the agent relies  *)
(* on at most one frame, the base of its next rectangles.  The agent only  *)
(* relies on a frame the viewer committed exactly, and while it relies on  *)
(* one the viewer moves at most one exact commit ahead of it and never     *)
(* back to lossy pixels.                                                   *)
(***************************************************************************)
EXTENDS Naturals

VARIABLES
  shown,      \* the viewer's committed frame, 0 before the first
  quality,    \* "unavailable", "lossy" or "exact"
  agreed      \* the agent's exact base, 0 when it has none

Init == shown = 0 /\ quality = "unavailable" /\ agreed = 0

\* The viewer never goes back to an older frame.
Advances == shown' \in Nat \ {0} /\ shown' >= shown

CommitLossy ==
  /\ agreed = 0
  /\ Advances
  /\ quality' = "lossy"
  /\ UNCHANGED agreed

CommitExact ==
  /\ agreed \in {0, shown}
  /\ Advances
  /\ quality' = "exact"
  /\ UNCHANGED agreed

Agree ==
  /\ quality = "exact"
  /\ agreed' = shown
  /\ UNCHANGED <<shown, quality>>

Withdraw ==
  /\ agreed' = 0
  /\ UNCHANGED <<shown, quality>>

Next == CommitLossy \/ CommitExact \/ Agree \/ Withdraw

Spec == Init /\ [][Next]_<<shown, quality, agreed>>

\* The agent's base is a frame the viewer committed exactly and never a newer one.
BaseCommitted == agreed # 0 => quality = "exact" /\ agreed <= shown
=============================================================================
