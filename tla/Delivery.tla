------------------------------ MODULE Delivery ------------------------------
(***************************************************************************)
(* What the upload outbox promises, without saying how: at-least-once      *)
(* delivery of every promised (contact, destination) pair.  A pair leaves  *)
(* the pending set only because its service has the contact, because the   *)
(* signing tool has said it will never take it, or because the operator    *)
(* deleted the contact.  Outbox implements this module.                    *)
(***************************************************************************)
CONSTANTS
    Qso,    \* row ids of the qso table
    Dest    \* upload destinations

VARIABLES
    owed,       \* pairs ever put into the outbox
    pending,    \* pairs still in the outbox
    accepted,   \* pairs the remote service holds at least one copy of
    refused,    \* pairs the signing tool reported as duplicate or out of range
    cancelled   \* contacts the operator has deleted

vars == <<owed, pending, accepted, refused, cancelled>>

Row == Qso \X Dest

Init ==
    /\ owed = {}
    /\ pending = {}
    /\ accepted = {}
    /\ refused = {}
    /\ cancelled = {}

\* New pairs are promised (a contact is logged, or the log is backfilled),
\* never for a deleted contact.
Promise(S) ==
    /\ \A r \in S : r[1] \notin cancelled
    /\ owed' = owed \union S
    /\ pending' = pending \union S
    /\ UNCHANGED <<accepted, refused, cancelled>>

\* The remote side takes, or for good declines, pairs promised earlier.  It
\* may do so late: after the pair was cancelled, or a second time.
Remote(A, R) ==
    /\ accepted' = accepted \union A
    /\ refused' = refused \union R
    /\ UNCHANGED <<owed, pending, cancelled>>

\* A pair is struck off once its outcome is final.
Settle(r) ==
    /\ r \in accepted \union refused
    /\ pending' = pending \ {r}
    /\ UNCHANGED <<owed, accepted, refused, cancelled>>

\* The operator deletes a contact, once: all that is pending for it goes too.
Cancel(q) ==
    /\ q \notin cancelled
    /\ cancelled' = cancelled \union {q}
    /\ pending' = pending \ ({q} \X Dest)
    /\ UNCHANGED <<owed, accepted, refused>>

Next ==
    \/ \E S \in SUBSET Row : Promise(S)
    \/ \E A, R \in SUBSET owed : Remote(A, R)
    \/ \E r \in pending : Settle(r)
    \/ \E q \in Qso : Cancel(q)

Spec == Init /\ [][Next]_vars
=============================================================================
