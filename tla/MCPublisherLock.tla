--------------------------- MODULE MCPublisherLock ---------------------------
(* The lock protocol with interchangeable runs.  The clock has room for a  *)
(* run to start before, at and after the expiry of an earlier one.         *)
EXTENDS PublisherLock, FiniteSets, TLC

RunSymmetry == Permutations(Run)
=============================================================================
