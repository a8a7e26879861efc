-------------------------- MODULE MCChannelBreaker --------------------------
(* ChannelBreaker on small instances.                                      *)
EXTENDS ChannelBreaker, TLC

\* Requests are interchangeable.
RequestSymmetry == Permutations(Requests)
=============================================================================
