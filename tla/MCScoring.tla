----------------------------- MODULE MCScoring ------------------------------
(***************************************************************************)
(* Small instances of LogIndex, on two calls, two bands and two sessions   *)
(* of one event, and of QSO-party scoring.  They share no state: a         *)
(* behaviour runs one of the two and leaves the other at rest.             *)
(***************************************************************************)
EXTENDS LogIndex, PartyScore, TLC

CONSTANTS A, B, GA     \* counties, and a place outside

\* Every call has the same prefix, and points differ by exchange and station.
OnePrefix == [c \in Call |-> 1]
Tiers == [s \in Station |-> [e \in Exch \union {NoExch} |-> IF e = NoExch THEN 0 ELSE s]]
Weights == [b \in Band |-> 2]

\* A file holds one station on each band, the contact on the first unscored.
Imported(call, band, c, unscored) ==
    [call |-> call, band |-> band, exch |-> NoExch, contest |-> c, time |-> 0,
     unscored |-> unscored]
Files ==
    {<<Imported(call, b1, c, TRUE), Imported(call, b2, c, FALSE)>> :
        call \in Call, b1 \in Band, b2 \in Band, c \in Contest}

\* A county line, and one of its counties.
Lines == {{A}, {A, B}}

\* Outside and inside rules, by band and overall, capped, with operated
\* counties, and for a special event.
PartyRules ==
    LET Kind(per, home, cap, mobile, special) ==
            [per |-> per, home |-> home, countyAsState |-> TRUE, cap |-> cap,
             points |-> 2, mobile |-> mobile, special |-> special]
        All == {"county", "state", "dx"} IN
    {Kind("contest", {"county"}, 0, 0, FALSE), Kind("band", All, 0, 0, FALSE),
     Kind("contest", All, 1, 0, FALSE), Kind("band", {"county"}, 0, 2, FALSE),
     Kind("contest", {"county"}, 0, 0, TRUE)}

\* Of the contacts that earn nothing one of a kind is enough: one out of
\* period, and one with exchanges that say nothing.
Telling(q) ==
    \/ q.inPeriod /\ Credits(q) # {}
    \/ [sent |-> q.sent, rcvd |-> q.rcvd] =
          IF q.inPeriod THEN [sent |-> Rejected, rcvd |-> Rejected]
          ELSE [sent |-> {A}, rcvd |-> {A}]

VARIABLE machine    \* the one that runs

scoringVars == <<machine, indexVars, partyVars>>

\* At rest: no contest, and no particular station and party are set.
ScoringInit ==
    /\ machine \in {"index", "party"}
    /\ IndexInit /\ PartyInit
    /\ machine # "index" =>
          /\ contest = NoContest
          /\ scope = CHOOSE s \in Scope : TRUE
          /\ station = CHOOSE s \in Station : TRUE
    /\ machine # "party" => rules = CHOOSE r \in Rules : TRUE

ScoringNext ==
    \/ /\ machine = "index" /\ IndexNext
       /\ UNCHANGED <<machine, partyVars>>
    \/ /\ machine = "party" /\ PartyNext /\ \A q \in party' : Telling(q)
       /\ UNCHANGED <<machine, indexVars>>

ScoringSpec == ScoringInit /\ [][ScoringNext]_scoringVars

\* Bands of the party, too, are interchangeable.
ScoringSymmetry ==
    UNION {Permutations(S) : S \in {Call, Band, Contest, PartyBand}}
=============================================================================
