--------------------------- MODULE MCStatusProber ---------------------------
(***************************************************************************)
(* Instances of StatusProber for TLC.  Hashes, pods and URLs are           *)
(* interchangeable in every safety property.                               *)
(***************************************************************************)
EXTENDS StatusProber, TLC

Interchangeable == Permutations(Hashes) \cup Permutations(IPs) \cup Permutations(URLs)
=============================================================================
