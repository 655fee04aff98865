----------------------------- MODULE MapStream -----------------------------
(***************************************************************************)
(* The event stream of the companion map (internal/mapserver, events) and  *)
(* the browser page that applies it (web/map.js).  Every connection is a   *)
(* goroutine that once a second expires old reports, reads the published   *)
(* state, samples the changes since its cursor and writes them to the      *)
(* page; these take different locks, so the event loop, which adds and     *)
(* relocates reports, and the other connections come in between.           *)
(*                                                                         *)
(* Here the event loop may relocate any report at any time; MapTap says    *)
(* when it does.                                                           *)
(***************************************************************************)
EXTENDS ReportStore

CONSTANTS
    Conn,         \* browser pages, with one connection each
    FilterKey,    \* values of the terminal's spot filter
    NoKey,        \* no filter read or sent yet
    Retention,    \* age past which a report expires
    MaxHold,      \* how long a spot may wait to be published (see MapTap)
    MaxRevision,  \* bound: revisions given out
    MaxChanges,   \* bound: changes of the filter
    Horizon       \* bound: the clock

ASSUME StreamConstantsOK ==
    /\ {Capacity, Retention, MaxHold, MaxRevision, MaxChanges, Horizon}
           \subseteq Nat
    /\ Capacity > 0
    /\ NoKey \notin FilterKey

VARIABLES
    clock,
    filter,   \* State.FilterKey, as published by the event loop
    changes,  \* how often it has changed so far
    at,       \* where each connection's goroutine is in its loop
    cursor,   \* the revision its last sample reached
    first,    \* whether it has sent nothing yet
    now,      \* the time it took at the start of the turn
    read,     \* the filter it has read in this turn
    sent,     \* the filter of its last packet
    packet,   \* what it has sampled and not yet delivered
    page,     \* the reports each page holds
    sampled   \* history: the store at each connection's last sample

connection == <<at, cursor, first, now, read, sent, packet, sampled>>
vars == <<store, clock, filter, changes, connection, page>>

Place == {"off", "sample", "deliver", "wait"}

\* A report as the page has it: without revision, with the filter it was
\* judged by (MatchesLogger).
OnPage(r, key) ==
    [event |-> r.event, spot |-> r.spot, received |-> r.received,
     location |-> r.location, key |-> key]
PageReport == [event : Nat, spot : Spot, received : Nat, location : Location,
               key : FilterKey]
Packet == [reset : BOOLEAN, now : Nat, oldest : Nat,
           reports : SUBSET PageReport]

TypeOK ==
    /\ reports \subseteq Report
    /\ nextEvent \in Nat
    /\ revision \in Nat
    /\ clock \in Nat
    /\ filter \in FilterKey
    /\ changes \in 0..MaxChanges
    /\ at \in [Conn -> Place]
    /\ cursor \in [Conn -> Nat]
    /\ first \in [Conn -> BOOLEAN]
    /\ now \in [Conn -> Nat]
    /\ read \in [Conn -> FilterKey \union {NoKey}]
    /\ sent \in [Conn -> FilterKey \union {NoKey}]
    /\ packet \in [Conn -> Packet]
    /\ page \in [Conn -> SUBSET PageReport]
    /\ sampled \in [Conn -> SUBSET Report]

NoPacket == [reset |-> FALSE, now |-> 0, oldest |-> 0, reports |-> {}]

Init ==
    /\ reports = {} /\ nextEvent = 0 /\ revision = 0
    /\ clock = 0
    /\ filter \in FilterKey
    /\ changes = 0
    /\ at = [c \in Conn |-> "off"]
    /\ cursor = [c \in Conn |-> 0]
    /\ first = [c \in Conn |-> TRUE]
    /\ now = [c \in Conn |-> 0]
    /\ read = [c \in Conn |-> NoKey]
    /\ sent = [c \in Conn |-> NoKey]
    /\ packet = [c \in Conn |-> NoPacket]
    /\ page = [c \in Conn |-> {}]
    /\ sampled = [c \in Conn |-> {}]

-----------------------------------------------------------------------------
(* The event loop and the clock                                            *)

\* A spot received at time t is published, perhaps after a wait.
Publish(s, t, l) ==
    /\ revision < MaxRevision
    /\ AddAll(<<[spot |-> s, received |-> t, location |-> l]>>)
    /\ UNCHANGED <<clock, filter, changes, connection, page>>

\* A location answer gives the reports of S the locations f, each perhaps the
\* one it had.
Enrich(S, f) ==
    /\ S # {}
    /\ revision + Cardinality(S) <= MaxRevision
    /\ UpdateLocations(f)
    /\ UNCHANGED <<clock, filter, changes, connection, page>>

\* publishMapState, after the operator changes the filter.
SetState(k) ==
    /\ filter # k /\ changes < MaxChanges
    /\ filter' = k
    /\ changes' = changes + 1
    /\ UNCHANGED <<store, clock, connection, page>>

Tick ==
    /\ clock < Horizon
    /\ clock' = clock + 1
    /\ UNCHANGED <<store, filter, changes, connection, page>>

-----------------------------------------------------------------------------
(* One connection                                                          *)

\* A turn begins, when the browser has connected (to a goroutine with fresh
\* variables, see Drop, but with the page as it is) or the ticker fires: the
\* time is taken, old reports go, and the published state is copied.  A SetState
\* between the two would commute with the first.
Begin(c) ==
    /\ at[c] \in {"off", "wait"}
    /\ at' = [at EXCEPT ![c] = "sample"]
    /\ now' = [now EXCEPT ![c] = clock]
    /\ read' = [read EXCEPT ![c] = filter]
    /\ sampled' = [sampled EXCEPT ![c] = {}]
    /\ Expire(clock - Retention)
    /\ UNCHANGED <<clock, filter, changes, cursor, first, sent, packet, page>>

\* Mutant: the page is reset only by a new connection.
ResetOnlyFirst(c) == first[c]

\* The page starts afresh on a new connection and under a new filter.
Reset(c) == first[c] \/ read[c] # sent[c]

\* Rows and metadata are sampled under one lock.  The turn's time is not needed
\* any more.
StreamSample(c) ==
    LET from == IF Reset(c) THEN 0 ELSE cursor[c]
    IN  /\ at[c] = "sample"
        /\ at' = [at EXCEPT ![c] = "deliver"]
        /\ packet' = [packet EXCEPT ![c] =
              [reset   |-> Reset(c),
               now     |-> now[c],
               oldest  |-> OldestID,
               reports |-> {OnPage(r, read[c]) : r \in ChangesSince(from)}]]
        /\ cursor' = [cursor EXCEPT ![c] = revision]
        /\ sampled' = [sampled EXCEPT ![c] = reports]
        /\ now' = [now EXCEPT ![c] = 0]
        /\ UNCHANGED <<store, clock, filter, changes, first, read, sent, page>>

\* The page after a packet: rows replace those of the same EventID, and rows
\* evicted or expired go (stream.onmessage).
Apply(old, p) ==
    LET kept == {q \in old : ~p.reset /\ \A r \in p.reports : r.event # q.event}
    IN  {r \in kept \union p.reports :
            r.event >= p.oldest /\ r.received >= p.now - Retention}

\* The packet is written, flushed and shown.
Deliver(c) ==
    /\ at[c] = "deliver"
    /\ at' = [at EXCEPT ![c] = "wait"]
    /\ page' = [page EXCEPT ![c] = Apply(page[c], packet[c])]
    /\ first' = [first EXCEPT ![c] = FALSE]
    /\ sent' = [sent EXCEPT ![c] = read[c]]
    /\ packet' = [packet EXCEPT ![c] = NoPacket]
    /\ UNCHANGED <<store, clock, filter, changes, cursor, now, read, sampled>>

\* The goroutine ends: a write fails or times out, or the browser is gone.
Drop(c) ==
    /\ at[c] \in {"deliver", "wait"}
    /\ at' = [at EXCEPT ![c] = "off"]
    /\ cursor' = [cursor EXCEPT ![c] = 0]
    /\ first' = [first EXCEPT ![c] = TRUE]
    /\ now' = [now EXCEPT ![c] = 0]
    /\ read' = [read EXCEPT ![c] = NoKey]
    /\ sent' = [sent EXCEPT ![c] = NoKey]
    /\ packet' = [packet EXCEPT ![c] = NoPacket]
    /\ sampled' = [sampled EXCEPT ![c] = {}]
    /\ UNCHANGED <<store, clock, filter, changes, page>>

Connection(c) == Begin(c) \/ StreamSample(c) \/ Deliver(c) \/ Drop(c)

EventLoop ==
    \/ \E s \in Spot, t \in (clock - MaxHold)..clock, l \in Location :
           t >= 0 /\ Publish(s, t, l)
    \/ \E S \in SUBSET reports : \E f \in [S -> Location] : Enrich(S, f)
    \/ \E k \in FilterKey : SetState(k)

Next ==
    \/ EventLoop
    \/ Tick
    \/ \E c \in Conn : Connection(c)

Spec == Init /\ [][Next]_vars

-----------------------------------------------------------------------------
(* What the stream promises                                                *)

Fresh(r) == r.received >= clock - Retention

\* What a page that has just been shown and the store must agree on.
Content(R) ==
    {[event |-> r.event, spot |-> r.spot, received |-> r.received,
      location |-> r.location] : r \in {q \in R : Fresh(q)}}

\* A page that has applied a packet shows the store as that packet's sample
\* found it, whatever came between: rows added, moved, evicted, or expired by
\* another page.  Only rows already past the retention time may differ.
PageShowsStore ==
    \A c \in Conn : at[c] = "wait" => Content(page[c]) = Content(sampled[c])

\* Every row on a page is judged by the filter the page names (MatchesLogger).
OneFilter ==
    \A c \in Conn : at[c] = "wait" => \A r \in page[c] : r.key = sent[c]

-----------------------------------------------------------------------------
(* The invariant behind them                                               *)

\* The page as it is, or will be once the packet on its way is applied.
View(c) == IF at[c] = "deliver" THEN Apply(page[c], packet[c]) ELSE page[c]
Key(c) == IF at[c] = "deliver" THEN read[c] ELSE sent[c]
Synced(c) == at[c] = "deliver" \/ (at[c] \in {"sample", "wait"} /\ ~first[c])

\* Event ids and revisions in the store.
StoreInv ==
    /\ \A r \in reports : r.event \in 1..nextEvent /\ r.revision \in 1..revision
    /\ \A r, o \in reports : r.event = o.event => r = o

\* A goroutine that has sent nothing starts from nothing.
TurnInv(c) ==
    /\ at[c] = "off" => first[c]
    /\ at[c] = "wait" => ~first[c]
    /\ at[c] = "sample" => now[c] <= clock /\ read[c] # NoKey
    /\ at[c] = "deliver" => read[c] # NoKey

\* Every fresh row up to the cursor is on the page.
Complete(c) ==
    \A r \in reports :
        Fresh(r) /\ r.revision <= cursor[c] => OnPage(r, Key(c)) \in View(c)

\* A fresh row on the page is still in the store, or has been evicted.
NothingStale(c) ==
    \A p \in View(c) :
        /\ p.event <= nextEvent
        /\ Fresh(p) => \/ \E r \in reports : r.event = p.event
                       \/ \A r \in reports : p.event < r.event

\* A row of both is the same report, and up to the cursor the same row.
Agrees(c) ==
    \A p \in View(c), r \in reports :
        p.event = r.event =>
            /\ p.spot = r.spot /\ p.received = r.received
            /\ r.revision <= cursor[c] => p = OnPage(r, Key(c))

PageInv(c) ==
    Synced(c) =>
        /\ cursor[c] <= revision
        /\ Complete(c) /\ NothingStale(c) /\ Agrees(c)
        /\ \A p \in View(c) : p.key = Key(c)
        /\ at[c] \in {"deliver", "wait"} =>
               Content(View(c)) = Content(sampled[c])

IInv == TypeOK /\ StoreInv /\ \A c \in Conn : TurnInv(c) /\ PageInv(c)
=============================================================================
