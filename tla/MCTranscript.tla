---------------------------- MODULE MCTranscript ----------------------------
(* Small instances of Transcript for TLC.                                  *)
EXTENDS Transcript, TLC

CONSTANTS v1, v2, r1, r2

NoViewer == {}
OneViewer == {v1}
TwoViewers == {v1, v2}
OneSlot == {r1}
TwoSlots == {r1, r2}

(* Handlers are interchangeable.                                           *)
Symmetry == Permutations(Slots)
=============================================================================
