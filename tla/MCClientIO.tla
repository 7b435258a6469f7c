----------------------------- MODULE MCClientIO -----------------------------
(* Small instances of ClientIO for TLC.                                    *)
EXTENDS ClientIO, TLC

MCSymmetry == Permutations(Client)

MCReplySize == {1, 2}
MCFd == 0..1
MCFdThree == 0..2

\* Liveness with peers that read, for the run on the write handler.
SpecReadingPeers == Spec /\ ReadingPeers
=============================================================================
