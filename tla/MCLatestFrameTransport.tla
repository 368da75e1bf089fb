----------------------- MODULE MCLatestFrameTransport -----------------------
(* Small instances of LatestFrameTransport for TLC. *)
EXTENDS LatestFrameTransport, TLC

\* Frames are interchangeable, and so are producers and closers.
Symmetry == Permutations(Frames) \cup Permutations(Producers)
              \cup Permutations(Closers) \cup Permutations(Subscribers)
=============================================================================
