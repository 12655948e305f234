--------------------------- MODULE ProbeContract ---------------------------
(***************************************************************************)
(* What the reconciler may rely on of the status prober, per Ingress key:  *)
(* nothing is known, or the probing of one hash is under way.  Targets are *)
(* accepted one by one, and only when none is missing is the Ingress ready *)
(* - for good, until another hash takes the place of this one.             *)
(***************************************************************************)
CONSTANTS Keys, Hashes, Targets, None

VARIABLE probing     \* probing[k]: None or [hash, missing, ready]

Init == probing = [k \in Keys |-> None]

\* Probing of h is announced; some or all of it may already be over.
Begin(k, h, missing, ready) ==
  /\ probing[k] = None
  /\ ready => missing = {}
  /\ probing' = [probing EXCEPT ![k] = [hash |-> h, missing |-> missing, ready |-> ready]]

Accept(k, t) ==
  /\ probing[k] # None
  /\ t \in probing[k].missing
  /\ probing' = [probing EXCEPT ![k].missing = @ \ {t}]

BecomeReady(k) ==
  /\ probing[k] # None
  /\ probing[k].missing = {}
  /\ probing' = [probing EXCEPT ![k].ready = TRUE]

Forget(k) == probing' = [probing EXCEPT ![k] = None]

Next ==
  \E k \in Keys :
    \/ \E h \in Hashes, missing \in SUBSET Targets, ready \in BOOLEAN :
         Begin(k, h, missing, ready)
    \/ \E t \in Targets : Accept(k, t)
    \/ BecomeReady(k)
    \/ Forget(k)

Spec == Init /\ [][Next]_probing
=============================================================================
