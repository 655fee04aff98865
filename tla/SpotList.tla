------------------------------ MODULE SpotList ------------------------------
(***************************************************************************)
(* The DX Spots list (main.go, cluster_filters.go): which spots of the     *)
(* feed are listed, under filters that the operator edits in a copy, with  *)
(* one entry per station and band for a few minutes, newest first, cut to  *)
(* a fixed length, and scrolled.                                           *)
(***************************************************************************)
EXTENDS Integers, Sequences, FiniteSetsExt

CONSTANTS
    Station,    \* the callsigns spotted
    Band,       \* the bands, each also an amateurBands entry
    Window,     \* clusterDupeWindow
    Listed,     \* the length the list is cut to, 100 in the code
    Visible,    \* recentRowsVisible
    MaxTime     \* bound: the clock

ASSUME SpotConstantsOK ==
    /\ {Window, Listed, Visible, MaxTime} \subseteq Nat
    /\ Listed > 0 /\ Visible > 0

VARIABLES
    spots,      \* clusterSpots
    filters,    \* clusterFilters, as the set of bands it lets through
    editing,    \* the filter screen is open
    edited,     \* editClusterBands
    scroll,     \* clusterSpotsScroll
    now         \* the clock the spots are stamped with

spotVars == <<spots, filters, editing, edited, scroll, now>>

Spot == [call : Station, band : Band, at : 0..MaxTime]

SpotInit ==
    /\ spots = <<>> /\ filters = Band
    /\ editing = FALSE /\ edited = {}
    /\ scroll = 0 /\ now = 0

\* allowsSpot.  A band stands for everything a filter may look at: the band
\* and mode of the spot, and the entity of either station.
Allows(f, s) == s.band \in f

\* isDuplicateClusterSpot stops at the first entry older than the window.
Duplicate(s) ==
    \E i \in DOMAIN spots :
        /\ spots[i].call = s.call /\ spots[i].band = s.band
        /\ \A j \in 1..i : spots[j].at >= s.at - Window

\* addClusterSpot
AddSpot(s) ==
    IF Duplicate(s) THEN spots
    ELSE SubSeq(<<s>> \o spots, 1, Min({Len(spots) + 1, Listed}))

\* clusterLineMsg with a spot
SpotArrives(s) ==
    /\ s.at = now
    /\ spots' = IF Allows(filters, s) THEN AddSpot(s) ELSE spots
    /\ UNCHANGED <<filters, editing, edited, scroll, now>>

MaxScroll(list) == Max({0, Len(list) - Visible})

\* scrollClusterSpots: PgUp and PgDn
Scroll(rows) ==
    /\ scroll' = Min({Max({0, scroll + rows}), MaxScroll(spots)})
    /\ UNCHANGED <<spots, filters, editing, edited, now>>

\* openClusterFilters copies the filters in force.
OpenFilters ==
    /\ ~editing
    /\ editing' = TRUE
    /\ edited' = filters
    /\ UNCHANGED <<spots, filters, scroll, now>>

\* Space on a band
ToggleBand(b) ==
    /\ editing
    /\ edited' = IF b \in edited THEN edited \ {b} ELSE edited \union {b}
    /\ UNCHANGED <<spots, filters, editing, scroll, now>>

\* Esc
LeaveFilters ==
    /\ editing /\ editing' = FALSE
    /\ UNCHANGED <<spots, filters, edited, scroll, now>>

\* Mutant: the spots listed under the old filters stay.
PrunedNever(f) == spots

\* The loop of pruneClusterSpots: what it has kept after i spots
KeptSpots(f) ==
    LET kept[i \in 0..Len(spots)] ==
            IF i = 0 THEN <<>>
            ELSE IF Allows(f, spots[i]) THEN Append(kept[i - 1], spots[i])
            ELSE kept[i - 1]
    IN kept

\* pruneClusterSpots
Pruned(f) == KeptSpots(f)[Len(spots)]

\* saveClusterFilters
SaveFilters ==
    /\ editing /\ editing' = FALSE
    /\ filters' = edited
    /\ edited' = {}
    /\ spots' = Pruned(edited)
    /\ scroll' = Min({scroll, MaxScroll(spots')})
    /\ UNCHANGED now

Minute ==
    /\ now < MaxTime
    /\ now' = now + 1
    /\ UNCHANGED <<spots, filters, editing, edited, scroll>>

SpotNext ==
    \/ \E s \in Spot : SpotArrives(s)
    \/ \E rows \in {-Visible, Visible} : Scroll(rows)
    \/ OpenFilters \/ LeaveFilters \/ SaveFilters
    \/ \E b \in Band : ToggleBand(b)
    \/ Minute
-----------------------------------------------------------------------------
(* Properties. *)

\* What the panel shows is newest first, is let through by the filters in
\* force however often they were edited and dropped, names no station twice
\* on a band within the window, and is never scrolled past its end
\* (pruneClusterSpots, isDuplicateClusterSpot, scrollClusterSpots).
ListInForce ==
    /\ Len(spots) <= Listed
    /\ scroll \in 0..MaxScroll(spots)
    /\ \A i \in DOMAIN spots :
          /\ spots[i].at <= now
          /\ Allows(filters, spots[i])
          /\ \A j \in 1..i - 1 :
                /\ spots[j].at >= spots[i].at
                /\ spots[j].call = spots[i].call /\ spots[j].band = spots[i].band
                      => spots[j].at - spots[i].at > Window
=============================================================================
