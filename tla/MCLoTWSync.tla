----------------------------- MODULE MCLoTWSync -----------------------------
(* Instances of LoTWSync for the model checker. *)
EXTENDS LoTWSync, TLC

CONSTANTS c1, c2, k1, k2, m1, m2, w1, w2

\* Two QSLs of the same station on the same band.  A contact at time 0 or 2 is
\* in the window of the first, only one at time 2 is in that of the second.
OneStation ==
    c1 :> [own |-> w1, key |-> k1, mode |-> m1, time |-> 0] @@
    c2 :> [own |-> w1, key |-> k1, mode |-> m2, time |-> 4]

\* One QSL for each callsign of the station.
TwoCalls ==
    c1 :> [own |-> w1, key |-> k1, mode |-> m1, time |-> 0] @@
    c2 :> [own |-> w2, key |-> k1, mode |-> m1, time |-> 0]

Symmetry == Permutations(Qso)
=============================================================================
