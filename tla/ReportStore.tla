---------------------------- MODULE ReportStore ----------------------------
(***************************************************************************)
(* The bounded report store of the companion map (internal/mapfeed): every *)
(* method holds its lock throughout, so each is one step.  The slice is    *)
(* kept in order of EventID, so it is a set here.                          *)
(***************************************************************************)
EXTENDS Integers, FiniteSets, Sequences

CONSTANTS
    Spot,       \* observed cluster spots
    Location,   \* what a report can say of where its stations are
    Capacity    \* reports retained

VARIABLES
    reports,    \* the retained reports
    nextEvent,  \* the last EventID given out
    revision    \* advances on every insert and every location update

store == <<reports, nextEvent, revision>>

Report == [event : Nat, revision : Nat, spot : Spot, received : Nat,
           location : Location]

\* The last Capacity reports of R.
Youngest(R) ==
    {r \in R : Cardinality({o \in R : o.event > r.event}) < Capacity}

\* One Add per element of new, a sequence of records [spot, received, location].
AddAll(new) ==
    LET added == {[event    |-> nextEvent + i,
                   revision |-> revision + i,
                   spot     |-> new[i].spot,
                   received |-> new[i].received,
                   location |-> new[i].location] : i \in DOMAIN new}
    IN  /\ nextEvent' = nextEvent + Len(new)
        /\ revision' = revision + Len(new)
        /\ reports' = Youngest(reports \union added)

\* Expire: reports received before the given time go, in the middle too.
Expire(before) ==
    /\ reports' = {r \in reports : r.received >= before}
    /\ UNCHANGED <<nextEvent, revision>>

\* Mutant: a moved report keeps its revision.
UpdateLocationsSilently(where) ==
    /\ reports' = (reports \ DOMAIN where) \union
                   {[r EXCEPT !.location = where[r]] : r \in DOMAIN where}
    /\ UNCHANGED <<nextEvent, revision>>

\* UpdateLocations: where maps the reports that change to their new location.
\* Each takes the next revision, in order of EventID.
UpdateLocations(where) ==
    LET changed == DOMAIN where
        rank(r) == Cardinality({o \in changed : o.event <= r.event})
    IN  /\ UNCHANGED nextEvent
        /\ revision' = revision + Cardinality(changed)
        /\ reports' = (reports \ changed) \union
                {[r EXCEPT !.location = where[r],
                           !.revision = revision + rank(r)] : r \in changed}

\* The metadata and rows of ChangesSince.
OldestID ==
    IF reports = {} THEN nextEvent + 1
    ELSE (CHOOSE r \in reports : \A o \in reports : r.event <= o.event).event

ChangesSince(cursor) == {r \in reports : r.revision > cursor}
=============================================================================
