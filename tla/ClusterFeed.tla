---------------------------- MODULE ClusterFeed ----------------------------
(***************************************************************************)
(* The DX cluster connection (cluster.go, main.go): dials that wait, fail  *)
(* or answer late, one reader on the live socket, reconnects that back     *)
(* off, and an operator who disconnects, reconnects and changes callsign   *)
(* at any moment.                                                          *)
(*                                                                         *)
(* A link is one goroutine's work: a dial, then the reads on its socket.   *)
(* The code gives each dial the next clusterGeneration and drops what      *)
(* comes back under another; here a link is `current` or it is not, and    *)
(* raising the generation makes every link stale.                          *)
(***************************************************************************)
EXTENDS Integers, FiniteSets

CONSTANTS
    Link,       \* bound: links alive at once, stale ones included
    NoLink,
    Callsign,   \* the station callsigns the operator may enter
    Blank,      \* no callsign entered
    MaxMeddling \* bound: what the operator does after start-up

ASSUME FeedConstantsOK ==
    /\ NoLink \notin Link /\ Blank \notin Callsign
    /\ MaxMeddling \in Nat

VARIABLES
    link,       \* the links, by slot
    client,     \* clusterClient
    connecting, \* clusterConnecting
    reconnect,  \* clusterReconnect
    delay,      \* clusterReconnectDelay, in seconds
    callsign,   \* activeStation.Callsign
    meddled     \* what the operator has done, for the bound

feedVars == <<link, client, connecting, reconnect, delay, callsign, meddled>>

ReconnectBase == 2
ReconnectMax == 60

\* What a link is doing: sleeping off a backoff, dialing, done dialing with
\* the message not yet handled ("opened", "failed"), blocked in a read, or
\* done reading with the message not yet handled ("line", "broken").
Phase == {"idle", "sleeping", "dialing", "opened", "failed", "reading", "line", "broken"}
LinkState == [phase : Phase, call : Callsign \union {Blank},
              open : BOOLEAN, current : BOOLEAN]
NoState == [phase |-> "idle", call |-> Blank, open |-> FALSE, current |-> FALSE]
Backoff == {0, 2, 4, 8, 16, 32, 60}

FeedTypeOK ==
    /\ link \in [Link -> LinkState]
    /\ client \in Link \union {NoLink}
    /\ connecting \in BOOLEAN /\ reconnect \in BOOLEAN
    /\ delay \in Backoff
    /\ callsign \in Callsign \union {Blank}
    /\ meddled \in 0..MaxMeddling
-----------------------------------------------------------------------------
(* Links. *)

\* clusterGeneration++
Staled(links) == [k \in Link |-> [links[k] EXCEPT !.current = FALSE]]

Closed(links, k) == IF k = NoLink THEN links ELSE [links EXCEPT ![k].open = FALSE]

Ended(links, k) == [links EXCEPT ![k] = NoState]

\* connectK3LRAfter, in a goroutine of its own, with the callsign of now.
DialFrom(links, k, call, after) ==
    [Staled(links) EXCEPT ![k] =
        [phase |-> IF after > 0 THEN "sleeping" ELSE "dialing", call |-> call,
         open |-> FALSE, current |-> TRUE]]

\* disconnectCluster
Disconnected(links) == Closed(Staled(links), client)

\* connectClusterIfNeeded, from the state a caller has brought about.
ConnectFrom(links, noClient, pending, call) ==
    IF ~noClient \/ pending \/ call = Blank
    THEN /\ link' = links
         /\ connecting' = pending
         /\ UNCHANGED <<reconnect, delay>>
    ELSE \E k \in Link :
            /\ links[k].phase = "idle"
            /\ link' = DialFrom(links, k, call, 0)
            /\ connecting' = TRUE
            /\ reconnect' = TRUE
            /\ delay' = 0

\* main connects at start-up, when a callsign is set.
FeedInit ==
    /\ callsign \in Callsign \union {Blank}
    /\ client = NoLink
    /\ delay = 0
    /\ meddled = 0
    /\ connecting = (callsign # Blank)
    /\ reconnect = connecting
    /\ \E first \in Link :
          link = [k \in Link |->
                    IF k = first /\ callsign # Blank
                    THEN [NoState EXCEPT !.phase = "dialing", !.call = callsign,
                                         !.current = TRUE]
                    ELSE NoState]
-----------------------------------------------------------------------------
(* The operator. *)

Meddle == meddled < MaxMeddling /\ meddled' = meddled + 1

\* F3, and F5 on the cluster screen
OpenCluster ==
    /\ client = NoLink /\ ~connecting /\ callsign # Blank
    /\ Meddle
    /\ ConnectFrom(link, TRUE, FALSE, callsign)
    /\ UNCHANGED <<client, callsign>>

\* F6
DisconnectCluster ==
    /\ Meddle
    /\ link' = Disconnected(link)
    /\ client' = NoLink
    /\ connecting' = FALSE
    /\ reconnect' = FALSE
    /\ delay' = 0
    /\ UNCHANGED callsign

\* saveStationSetup, whichever of its later saves fail: a changed callsign
\* disconnects, and a feed that is down is connected, also one that the
\* operator had disconnected.
SaveStation(c) ==
    /\ Meddle
    /\ callsign' = c
    /\ IF c # callsign /\ (client # NoLink \/ connecting)
       THEN /\ client' = NoLink
            /\ IF c = Blank
               THEN /\ link' = Disconnected(link)
                    /\ connecting' = FALSE /\ reconnect' = FALSE /\ delay' = 0
               ELSE ConnectFrom(Disconnected(link), TRUE, FALSE, c)
       ELSE /\ ConnectFrom(link, client = NoLink, connecting, c)
            /\ UNCHANGED client
-----------------------------------------------------------------------------
(* The goroutines. *)

Becomes(k, from, to, isOpen) ==
    /\ link[k].phase = from
    /\ link' = [link EXCEPT ![k].phase = to, ![k].open = isOpen]
    /\ UNCHANGED <<client, connecting, reconnect, delay, callsign, meddled>>

BackoffEnds(k) == Becomes(k, "sleeping", "dialing", FALSE)
DialAnswered(k) == Becomes(k, "dialing", "opened", TRUE)
DialRefused(k) == Becomes(k, "dialing", "failed", FALSE)
LineRead(k) == link[k].open /\ Becomes(k, "reading", "line", TRUE)

\* The node hung up, or nothing came for clusterIdleTimeout.
ReadFails(k) == Becomes(k, "reading", "broken", link[k].open)
-----------------------------------------------------------------------------
(* The event loop. *)

\* scheduleClusterReconnect: the next wait
NextDelay == IF delay = 0 THEN ReconnectBase
             ELSE IF 2 * delay > ReconnectMax THEN ReconnectMax ELSE 2 * delay

\* Mutant: a reconnect that fails is the last.
ScheduleReconnectOnce(k, links) ==
    IF ~reconnect \/ callsign = Blank \/ delay > 0
    THEN /\ link' = Ended(links, k)
         /\ connecting' = FALSE
         /\ UNCHANGED delay
    ELSE /\ link' = DialFrom(links, k, callsign, NextDelay)
         /\ connecting' = TRUE
         /\ delay' = NextDelay

\* The goroutine of link k has ended, and its slot takes the next dial.
ScheduleReconnect(k, links) ==
    IF ~reconnect \/ callsign = Blank
    THEN /\ link' = Ended(links, k)
         /\ connecting' = FALSE
         /\ UNCHANGED delay
    ELSE /\ link' = DialFrom(links, k, callsign, NextDelay)
         /\ connecting' = TRUE
         /\ delay' = NextDelay

\* Mutant: a late dial is not told from the one under way.
ClusterConnectedAnyTime(k) ==
    /\ link[k].phase = "opened"
    /\ client' = k
    /\ connecting' = FALSE
    /\ delay' = 0
    /\ link' = [link EXCEPT ![k].phase = "reading"]
    /\ UNCHANGED <<reconnect, callsign, meddled>>

\* clusterConnectedMsg with a client; a late one is closed.
ClusterConnected(k) ==
    /\ link[k].phase = "opened"
    /\ IF link[k].current
       THEN /\ client' = k
            /\ connecting' = FALSE
            /\ delay' = 0
            /\ link' = [link EXCEPT ![k].phase = "reading"]
       ELSE /\ link' = Ended(link, k)
            /\ UNCHANGED <<client, connecting, delay>>
    /\ UNCHANGED <<reconnect, callsign, meddled>>

\* clusterConnectedMsg with an error
DialFailed(k) ==
    /\ link[k].phase = "failed"
    /\ IF link[k].current
       THEN ScheduleReconnect(k, link)
       ELSE link' = Ended(link, k) /\ UNCHANGED <<connecting, delay>>
    /\ UNCHANGED <<client, reconnect, callsign, meddled>>

\* clusterLineMsg with a line: what the line does is SpotList's and MapTap's;
\* the next read starts.
ClusterLine(k) ==
    /\ link[k].phase = "line"
    /\ link' = IF link[k].current THEN [link EXCEPT ![k].phase = "reading"]
               ELSE Ended(link, k)
    /\ UNCHANGED <<client, connecting, reconnect, delay, callsign, meddled>>

\* clusterLineMsg with an error: the socket is closed and dialed anew.
ClusterBroken(k) ==
    /\ link[k].phase = "broken"
    /\ IF link[k].current
       THEN /\ client' = NoLink
            /\ ScheduleReconnect(k, Closed(link, client))
       ELSE link' = Ended(link, k) /\ UNCHANGED <<client, connecting, delay>>
    /\ UNCHANGED <<reconnect, callsign, meddled>>

Goroutine(k) ==
    BackoffEnds(k) \/ DialAnswered(k) \/ DialRefused(k) \/ LineRead(k) \/ ReadFails(k)

Handled(k) ==
    ClusterConnected(k) \/ DialFailed(k) \/ ClusterLine(k) \/ ClusterBroken(k)

FeedNext ==
    \/ OpenCluster
    \/ DisconnectCluster
    \/ \E c \in Callsign \union {Blank} : SaveStation(c)
    \/ \E k \in Link : Goroutine(k) \/ Handled(k)

\* A goroutine goes on to its next step and the event loop handles every
\* message.  That the node is up often enough to answer some dial is the
\* one assumption on the network.
FeedFairness ==
    \A k \in Link :
        /\ WF_feedVars(BackoffEnds(k))
        /\ WF_feedVars(DialAnswered(k) \/ DialRefused(k))
        /\ SF_feedVars(DialAnswered(k))
        /\ WF_feedVars(Handled(k))
-----------------------------------------------------------------------------
(* Properties. *)

Dialing(k) == link[k].phase \in {"sleeping", "dialing", "opened", "failed"}

\* At most one link is live, whatever stale ones are still about: the
\* client's, with exactly one read outstanding, or the pending dial.  Both
\* are logged in under the callsign of the station, and neither is there
\* once the operator has disconnected.  No socket leaks: an open one is the
\* client's, or in a dial result still to be handled (clusterGeneration,
\* saveStationSetup).
OneFeed ==
    /\ \A k \in Link : link[k].current =>
          /\ k = client \/ Dialing(k)
          /\ link[k].call = callsign
          /\ reconnect
          /\ \A n \in Link : link[n].current => n = k
    /\ client # NoLink =>
          /\ link[client].current /\ link[client].open
          /\ link[client].phase \in {"reading", "line", "broken"}
    /\ connecting <=> \E k \in Link : link[k].current /\ Dialing(k)
    /\ \A k \in Link : link[k].open => k = client \/ link[k].phase = "opened"

\* A feed that drops comes back without the operator, unless he disconnects
\* it or takes the callsign away (scheduleClusterReconnect).
FeedRecovers == reconnect ~> client # NoLink \/ ~reconnect
=============================================================================
