----------------------------- MODULE MCLifecycle -----------------------------
(* Small instances of Lifecycle for TLC.                                   *)
EXTENDS Lifecycle, TLC

CONSTANTS s1, s2, s3, s4

TwoStreams == {s1, s2}
ThreeStreams == {s1, s2, s3}
FourStreams == {s1, s2, s3, s4}

(* Stream ids are interchangeable.                                         *)
Symmetry == Permutations(Streams)
=============================================================================
