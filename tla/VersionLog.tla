----------------------------- MODULE VersionLog -----------------------------
(***************************************************************************)
(* What an informer cache promises: for every object, the log of its       *)
(* versions from the one the cache shows to the one the API server holds.  *)
(* The server appends versions one at a time; the cache moves on to some   *)
(* later version, by a watch event to the next one, by a list perhaps past *)
(* several.  It never shows a version that did not exist, and never goes   *)
(* back to one it has left.  Objects move independently of each other.     *)
(***************************************************************************)
EXTENDS Naturals, Sequences

VARIABLE logs

Init == \A x \in DOMAIN logs : Len(logs[x]) >= 1

Write(old, new) ==
  /\ Len(new) = Len(old) + 1
  /\ SubSeq(new, 1, Len(old)) = old

Deliver(old, new) == \E n \in 2..Len(old) : new = SubSeq(old, n, Len(old))

Moves(old, new) == new = old \/ Write(old, new) \/ Deliver(old, new)

Next ==
  /\ DOMAIN logs' = DOMAIN logs
  /\ \A x \in DOMAIN logs : Moves(logs[x], logs'[x])

Spec == Init /\ [][Next]_logs

=============================================================================
