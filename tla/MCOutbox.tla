------------------------------ MODULE MCOutbox ------------------------------
(* Instances of Outbox for the model checker. *)
EXTENDS Outbox, TLC

Symmetry == Permutations(Qso) \union Permutations(Slot) \union Permutations(Cred)

\* Bound of outbox_batch: either one contact, with all that its constants
\* allow, or both, with no fault, one account whose file only the program
\* writes, and no attempt after a failed one.
OneContact == \E q \in Qso : \A p \in Qso \ {q} : qso[p] = "unused"

OneAccount ==
    /\ config = cred
    /\ \E k \in Cred : \A d \in Dest, r \in Row, s \in Slot :
          {cred[d], binding[r], job[s].cred} \subseteq {k, NoCred}

OneContactOrSimple ==
    \/ OneContact
    \/ /\ faults = 0 /\ OneAccount
       /\ \A r \in claimed \union batch \union InFlight : attempts[r] = 0
=============================================================================
