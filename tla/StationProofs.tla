---------------------------- MODULE StationProofs ----------------------------
(***************************************************************************)
(* The smaller machines of the program, for every number of links, polls,  *)
(* timers, jobs, instances, contacts and backups: the cluster connection,  *)
(* the spot list, rig polling, the table of recent contacts, exports, the  *)
(* backup and QSO parties.                                                 *)
(***************************************************************************)
EXTENDS ClusterFeed, SpotList, RigPoll, RecentList, Exports, Backup, PartyScore,
        FiniteSetTheorems, WellFoundedInduction, TLAPS

\* The least of some numbers.
LEMMA LeastOf ==
    ASSUME NEW T \in SUBSET Nat, T # {}
    PROVE  \E x \in T : \A y \in T : y >= x
<1> DEFINE R == OpToRel(<, Nat)
<1>1. IsWellFoundedOn(R, Nat)
  BY NatLessThanWellFounded
<1>2. \A x, y \in Nat : y < x => <<y, x>> \in R
  BY DEF OpToRel
<1> HIDE DEF R
<1>3. PICK x \in T : \A y \in T : ~(<<y, x>> \in R)
  BY <1>1, WFMin
<1>4. \A y \in T : ~(y < x)
  BY <1>2, <1>3
<1> QED
  BY <1>4

-----------------------------------------------------------------------------
(* The cluster connection. *)

\* The invariant behind OneFeed: a dial that has been answered holds a socket.
FeedInv ==
    /\ FeedTypeOK
    /\ OneFeed
    /\ \A k \in Link : link[k].phase = "opened" => link[k].open

\* What the generation does: no link is current but the one just dialed.
LEMMA DialedAlone ==
    ASSUME NEW links \in [Link -> LinkState], NEW k \in Link,
           NEW call \in Callsign \union {Blank}, NEW after \in Backoff
    PROVE  LET new == DialFrom(links, k, call, after) IN
           /\ new \in [Link -> LinkState]
           /\ \A n \in Link : new[n].current <=> n = k
           /\ new[k].phase \in {"sleeping", "dialing"}
           /\ new[k].call = call /\ ~new[k].open
           /\ \A n \in Link \ {k} : /\ new[n].open = links[n].open
                                    /\ new[n].phase = links[n].phase
<1> DEFINE new == DialFrom(links, k, call, after)
<1>1. new = [n \in Link |-> IF n = k
                THEN [phase |-> IF after > 0 THEN "sleeping" ELSE "dialing",
                      call |-> call, open |-> FALSE, current |-> TRUE]
                ELSE [links[n] EXCEPT !.current = FALSE]]
  BY DEF DialFrom, Staled
<1> HIDE DEF new
<1>2. ASSUME NEW n \in Link
      PROVE  new[n] \in LinkState
  BY <1>1 DEF LinkState, Phase
<1>3. ASSUME NEW n \in Link \ {k}
      PROVE  ~new[n].current /\ new[n].open = links[n].open /\ new[n].phase = links[n].phase
  BY <1>1 DEF LinkState
<1>4. new[k].current /\ new[k].phase \in {"sleeping", "dialing"}
         /\ new[k].call = call /\ ~new[k].open
  BY <1>1
<1>5. new \in [Link -> LinkState]
  BY <1>1, <1>2
<1> QED
  BY <1>3, <1>4, <1>5 DEF new

LEMMA FeedInitOK == FeedInit => FeedInv
<1> SUFFICES ASSUME FeedInit PROVE FeedInv
  OBVIOUS
<1>1. PICK first \in Link : link = [k \in Link |->
                 IF k = first /\ callsign # Blank
                 THEN [phase |-> "dialing", call |-> callsign, open |-> FALSE, current |-> TRUE]
                 ELSE [phase |-> "idle", call |-> Blank, open |-> FALSE, current |-> FALSE]]
  BY DEF FeedInit, NoState
<1>2. /\ callsign \in Callsign \union {Blank}
      /\ client = NoLink /\ delay = 0 /\ meddled = 0
      /\ connecting = (callsign # Blank) /\ reconnect = connecting
  BY DEF FeedInit
<1>3. ASSUME NEW k \in Link
      PROVE  link[k] \in LinkState
  BY <1>1, <1>2 DEF LinkState, Phase
<1>4. FeedTypeOK
  <2>1. link \in [Link -> LinkState]
    BY <1>1, <1>3
  <2>2. connecting \in BOOLEAN /\ reconnect \in BOOLEAN
    BY <1>2, Zenon
  <2>3. delay \in Backoff /\ meddled \in 0..MaxMeddling
    BY FeedConstantsOK, <1>2 DEF Backoff
  <2> QED
    BY <1>2, <2>1, <2>2, <2>3 DEF FeedTypeOK
<1>5. OneFeed /\ \A k \in Link : link[k].phase = "opened" => link[k].open
  <2>1. CASE callsign = Blank
    BY FeedConstantsOK, <1>1, <1>2, <2>1 DEF OneFeed, Dialing
  <2>2. CASE callsign # Blank
    BY FeedConstantsOK, <1>1, <1>2, <2>2 DEF OneFeed, Dialing
  <2> QED
    BY <2>1, <2>2
<1> QED
  BY <1>4, <1>5 DEF FeedInv

\* A step of the program or the operator keeps it.  First what a handler may
\* assume and what its callees leave behind: a dial alone, or nothing current.
LEMMA AloneOK ==
    ASSUME FeedTypeOK', NEW k \in Link, connecting', reconnect', client' = NoLink,
           \A n \in Link : link'[n].current <=> n = k,
           link'[k].phase \in {"sleeping", "dialing"}, link'[k].call = callsign', ~link'[k].open,
           \A n \in Link \ {k} :
              /\ link'[n].open => link'[n].phase = "opened"
              /\ link'[n].phase = "opened" => link'[n].open
    PROVE  FeedInv'
BY FeedConstantsOK DEF FeedInv, OneFeed, Dialing

LEMMA NothingCurrentOK ==
    ASSUME FeedTypeOK', ~connecting', client' = NoLink,
           \A n \in Link : /\ ~link'[n].current
                           /\ link'[n].open <=> link'[n].phase = "opened"
    PROVE  FeedInv'
BY FeedConstantsOK DEF FeedInv, OneFeed, Dialing

\* A connection that is asked for while nothing is current.
LEMMA ConnectOK ==
    ASSUME FeedTypeOK, callsign' \in Callsign \union {Blank}, meddled' \in 0..MaxMeddling,
           NEW links \in [Link -> LinkState],
           \A n \in Link : /\ ~links[n].current
                           /\ links[n].open <=> links[n].phase = "opened",
           client' = NoLink, ConnectFrom(links, TRUE, FALSE, callsign')
    PROVE  FeedInv'
<1>1. CASE callsign' = Blank
  <2>1. link' = links /\ connecting' = FALSE /\ reconnect' = reconnect /\ delay' = delay
    BY <1>1 DEF ConnectFrom
  <2>2. FeedTypeOK'
    BY <2>1 DEF FeedTypeOK
  <2> QED
    BY <2>1, <2>2, NothingCurrentOK
<1>2. CASE callsign' # Blank
  <2>1. PICK k \in Link : /\ links[k].phase = "idle"
                          /\ link' = DialFrom(links, k, callsign', 0)
                          /\ connecting' = TRUE /\ reconnect' = TRUE /\ delay' = 0
    BY <1>2 DEF ConnectFrom
  <2> DEFINE new == DialFrom(links, k, callsign', 0)
  <2>2. /\ new \in [Link -> LinkState]
        /\ \A n \in Link : new[n].current <=> n = k
        /\ new[k].phase \in {"sleeping", "dialing"}
        /\ new[k].call = callsign' /\ ~new[k].open
        /\ \A n \in Link \ {k} : new[n].open = links[n].open /\ new[n].phase = links[n].phase
    BY DialedAlone DEF Backoff
  <2> HIDE DEF new
  <2>3. link' = new
    BY <2>1 DEF new
  <2>4. FeedTypeOK'
    BY <2>1, <2>2, <2>3 DEF FeedTypeOK, Backoff
  <2> QED
    BY <2>1, <2>2, <2>3, <2>4, AloneOK
<1> QED
  BY <1>1, <1>2

\* A reconnect, of the one link that was current and whose socket is closed.
LEMMA ReconnectOK ==
    ASSUME FeedTypeOK, UNCHANGED <<callsign, meddled, reconnect>>, client' = NoLink, reconnect,
           NEW links \in [Link -> LinkState], NEW k \in Link,
           \A n \in Link \ {k} : /\ ~links[n].current
                                 /\ links[n].open <=> links[n].phase = "opened",
           ScheduleReconnect(k, links)
    PROVE  FeedInv'
<1>1. CASE callsign = Blank
  <2>1. link' = Ended(links, k) /\ connecting' = FALSE /\ delay' = delay
    BY <1>1 DEF ScheduleReconnect
  <2>2. /\ link' \in [Link -> LinkState]
        /\ link'[k] = NoState
        /\ \A n \in Link \ {k} : link'[n] = links[n]
    BY <2>1 DEF Ended, NoState, LinkState, Phase
  <2>3. FeedTypeOK'
    BY <2>1, <2>2 DEF FeedTypeOK
  <2>4. \A n \in Link : ~link'[n].current /\ (link'[n].open <=> link'[n].phase = "opened")
    BY <2>2 DEF NoState
  <2> QED
    BY <2>1, <2>3, <2>4, NothingCurrentOK
<1>2. CASE callsign # Blank
  <2>1. link' = DialFrom(links, k, callsign, NextDelay) /\ connecting' = TRUE /\ delay' = NextDelay
    BY <1>2 DEF ScheduleReconnect
  <2>2. NextDelay \in Backoff
    BY DEF FeedTypeOK, Backoff, NextDelay, ReconnectBase, ReconnectMax
  <2>3. callsign \in Callsign \union {Blank}
    BY DEF FeedTypeOK
  <2> DEFINE new == DialFrom(links, k, callsign, NextDelay)
  <2>4. /\ new \in [Link -> LinkState]
        /\ \A n \in Link : new[n].current <=> n = k
        /\ new[k].phase \in {"sleeping", "dialing"}
        /\ new[k].call = callsign /\ ~new[k].open
        /\ \A n \in Link \ {k} : new[n].open = links[n].open /\ new[n].phase = links[n].phase
    BY <2>2, <2>3, DialedAlone
  <2> HIDE DEF new
  <2>5. link' = new
    BY <2>1 DEF new
  <2>6. FeedTypeOK'
    BY <2>1, <2>2, <2>4, <2>5 DEF FeedTypeOK
  <2> QED
    BY <2>1, <2>4, <2>5, <2>6, AloneOK
<1> QED
  BY <1>1, <1>2

\* Nothing is current while there is neither a client nor a dial.
LEMMA AtRestOK ==
    ASSUME FeedInv, client = NoLink, ~connecting
    PROVE  \A n \in Link : ~link[n].current /\ (link[n].open <=> link[n].phase = "opened")
BY FeedConstantsOK DEF FeedInv, OneFeed, Dialing, FeedTypeOK

\* disconnectCluster leaves nothing current, and closes the client's socket.
LEMMA DisconnectedOK ==
    ASSUME FeedInv
    PROVE  \E links \in [Link -> LinkState] :
              /\ links = Disconnected(link)
              /\ \A n \in Link : ~links[n].current /\ (links[n].open <=> links[n].phase = "opened")
<1> DEFINE links == Disconnected(link)
<1>1. links = [n \in Link |-> IF n = client
                  THEN [link[n] EXCEPT !.current = FALSE, !.open = FALSE]
                  ELSE [link[n] EXCEPT !.current = FALSE]]
  <2>1. CASE client = NoLink
    BY FeedConstantsOK, <2>1 DEF Disconnected, Closed, Staled
  <2>2. CASE client # NoLink
    BY <2>2 DEF Disconnected, Closed, Staled, FeedInv, FeedTypeOK, LinkState
  <2> QED
    BY <2>1, <2>2
<1> HIDE DEF links
<1>2. ASSUME NEW n \in Link
      PROVE  /\ links[n] \in LinkState
             /\ ~links[n].current
             /\ links[n].open <=> links[n].phase = "opened"
  <2>1. link[n] \in LinkState
    BY DEF FeedInv, FeedTypeOK
  <2>2. links[n].phase = link[n].phase /\ links[n].open = (IF n = client THEN FALSE ELSE link[n].open)
    BY <1>1, <2>1 DEF LinkState
  <2>3. links[n] \in LinkState /\ ~links[n].current
    BY <1>1, <2>1 DEF LinkState
  <2>4. links[n].open <=> links[n].phase = "opened"
    BY FeedConstantsOK, <2>1, <2>2 DEF FeedInv, OneFeed, LinkState
  <2> QED
    BY <2>3, <2>4
<1>3. links \in [Link -> LinkState]
  BY <1>1, <1>2
<1>4. links = Disconnected(link)
  BY DEF links
<1> QED
  BY <1>2, <1>3, <1>4

\* The operator's actions.
LEMMA OperatorOK ==
    ASSUME FeedInv, OpenCluster \/ DisconnectCluster
                      \/ \E c \in Callsign \union {Blank} : SaveStation(c)
    PROVE  FeedInv'
<1>5. FeedTypeOK
  BY DEF FeedInv
<1>1. PICK links \in [Link -> LinkState] :
         /\ links = Disconnected(link)
         /\ \A n \in Link : ~links[n].current /\ (links[n].open <=> links[n].phase = "opened")
  BY DisconnectedOK
<1>2. CASE OpenCluster
  <2>1. PICK held : held = link
    OBVIOUS
  <2>2. /\ ConnectFrom(held, TRUE, FALSE, callsign')
        /\ client' = NoLink /\ callsign' = callsign /\ meddled' \in 0..MaxMeddling
        /\ client = NoLink /\ ~connecting
    BY <1>2, <2>1, <1>5, FeedConstantsOK DEF OpenCluster, Meddle, FeedTypeOK, ConnectFrom
  <2>3. /\ held \in [Link -> LinkState]
        /\ \A n \in Link : ~held[n].current /\ (held[n].open <=> held[n].phase = "opened")
    BY <2>1, <2>2, <1>5, AtRestOK DEF FeedTypeOK
  <2>4. callsign' \in Callsign \union {Blank}
    BY <1>5, <2>2 DEF FeedTypeOK
  <2> QED
    BY <1>5, <2>2, <2>3, <2>4, ConnectOK
<1>3. CASE DisconnectCluster
  <2>1. /\ link' = links /\ client' = NoLink /\ connecting' = FALSE /\ reconnect' = FALSE
        /\ delay' = 0 /\ callsign' = callsign /\ meddled' \in 0..MaxMeddling
    BY <1>3, <1>5, FeedConstantsOK, <1>1 DEF DisconnectCluster, Meddle, FeedTypeOK
  <2>2. FeedTypeOK'
    BY <1>5, <1>1, <2>1 DEF FeedTypeOK, Backoff
  <2> QED
    BY <1>1, <2>1, <2>2, <1>5, NothingCurrentOK
<1>4. ASSUME NEW c \in Callsign \union {Blank}, SaveStation(c)
      PROVE  FeedInv'
  <2>1. callsign' = c /\ meddled' \in 0..MaxMeddling
    BY <1>4, <1>5, FeedConstantsOK DEF SaveStation, Meddle, FeedTypeOK
  <2>2. CASE c # callsign /\ (client # NoLink \/ connecting) /\ c = Blank
    <3>1. /\ client' = NoLink /\ link' = links
          /\ connecting' = FALSE /\ reconnect' = FALSE /\ delay' = 0
      BY <1>1, <1>4, <2>2 DEF SaveStation
    <3>2. FeedTypeOK'
      BY <1>5, <1>1, <2>1, <3>1 DEF FeedTypeOK, Backoff
    <3> QED
      BY <1>1, <3>1, <3>2, <1>5, NothingCurrentOK
  <2>3. CASE c # callsign /\ (client # NoLink \/ connecting) /\ c # Blank
    <3>1. client' = NoLink /\ ConnectFrom(links, TRUE, FALSE, callsign')
      BY <1>1, <1>4, <2>1, <2>3 DEF SaveStation, ConnectFrom
    <3> QED
      BY <1>1, <1>5, <2>1, <3>1, ConnectOK
  <2>4. CASE ~(c # callsign /\ (client # NoLink \/ connecting)) /\ client = NoLink /\ ~connecting
    <3>1. PICK held : held = link
      OBVIOUS
    <3>2. client' = NoLink /\ ConnectFrom(held, TRUE, FALSE, callsign')
      BY <1>4, <2>1, <2>4, <3>1 DEF SaveStation, ConnectFrom
    <3>3. /\ held \in [Link -> LinkState]
          /\ \A n \in Link : ~held[n].current /\ (held[n].open <=> held[n].phase = "opened")
      BY <2>4, <3>1, <1>5, AtRestOK DEF FeedTypeOK
    <3> QED
      BY <2>1, <3>2, <3>3, <1>5, ConnectOK
  <2>5. CASE ~(c # callsign /\ (client # NoLink \/ connecting)) /\ ~(client = NoLink /\ ~connecting)
    <3>1. /\ c = callsign /\ client' = client /\ link' = link /\ connecting' = connecting
          /\ reconnect' = reconnect /\ delay' = delay
      BY <1>4, <2>5 DEF SaveStation, ConnectFrom
    <3> QED
      BY <2>1, <3>1 DEF FeedInv, FeedTypeOK, OneFeed, Dialing
  <2> QED
    BY <2>2, <2>3, <2>4, <2>5
<1> QED
  BY <1>2, <1>3, <1>4

\* The goroutines' steps: only the phase of one link changes, and its socket
\* is there once the dial is answered.
LEMMA GoroutineOK ==
    ASSUME FeedInv, NEW k \in Link, Goroutine(k)
    PROVE  FeedInv'
<1> USE DEF FeedInv
<1>1. PICK from \in Phase, to \in Phase, isOpen \in BOOLEAN :
         /\ link[k].phase = from
         /\ link' = [link EXCEPT ![k].phase = to, ![k].open = isOpen]
         /\ UNCHANGED <<client, connecting, reconnect, delay, callsign, meddled>>
         /\ \/ from \in {"sleeping", "dialing"} /\ to \in {"dialing", "failed"} /\ ~isOpen
            \/ from = "dialing" /\ to = "opened" /\ isOpen
            \/ from = "reading" /\ to \in {"line", "broken"} /\ isOpen = link[k].open
  <2>1. link[k].open \in BOOLEAN
    BY DEF FeedTypeOK, LinkState
  <2> QED
    BY <2>1 DEF Goroutine, BackoffEnds, DialAnswered, DialRefused, LineRead, ReadFails,
                Becomes, Phase
<1>2. /\ link' \in [Link -> LinkState]
      /\ \A n \in Link \ {k} : link'[n] = link[n]
      /\ link'[k].phase = to /\ link'[k].open = isOpen
      /\ link'[k].current = link[k].current /\ link'[k].call = link[k].call
  BY <1>1 DEF FeedTypeOK, LinkState
<1>3. FeedTypeOK'
  BY <1>1, <1>2 DEF FeedTypeOK
<1>4. \A n \in Link : link'[n].phase = "opened" => link'[n].open
  BY <1>1, <1>2
<1>5. OneFeed'
  BY <1>1, <1>2, FeedConstantsOK DEF OneFeed, Dialing, FeedTypeOK
<1> QED
  BY <1>3, <1>4, <1>5

\* A link that is not current ends, whatever it had to say.
LEMMA StaleEndsOK ==
    ASSUME FeedInv, NEW k \in Link, ~link[k].current, link' = Ended(link, k),
           UNCHANGED <<client, connecting, reconnect, delay, callsign, meddled>>
    PROVE  FeedInv'
<1>1. /\ link' \in [Link -> LinkState]
      /\ link'[k].phase = "idle" /\ ~link'[k].current /\ ~link'[k].open
      /\ \A n \in Link \ {k} : link'[n] = link[n]
  BY DEF FeedInv, FeedTypeOK, Ended, NoState, LinkState, Phase
<1>2. FeedTypeOK'
  BY <1>1 DEF FeedInv, FeedTypeOK
<1>3. \A n \in Link : link'[n].phase = "opened" => link'[n].open
  BY <1>1 DEF FeedInv
<1>4. OneFeed'
  BY <1>1, FeedConstantsOK DEF FeedInv, FeedTypeOK, OneFeed, Dialing
<1> QED
  BY <1>2, <1>3, <1>4 DEF FeedInv

\* The messages of the goroutines.
LEMMA HandledOK ==
    ASSUME FeedInv, NEW k \in Link, Handled(k)
    PROVE  FeedInv'
<1>0. FeedTypeOK /\ OneFeed /\ link[k] \in LinkState
  BY DEF FeedInv, FeedTypeOK
<1>1. CASE ClusterConnected(k)
  <2>1. CASE link[k].current
    <3>1. /\ link[k].phase = "opened" /\ link[k].open
          /\ client' = k /\ connecting' = FALSE /\ delay' = 0
          /\ link' = [link EXCEPT ![k].phase = "reading"]
          /\ UNCHANGED <<reconnect, callsign, meddled>>
      BY <1>1, <2>1 DEF ClusterConnected, FeedInv
    <3>2. /\ link' \in [Link -> LinkState]
          /\ link'[k].phase = "reading" /\ link'[k].open = link[k].open
          /\ link'[k].current = link[k].current /\ link'[k].call = link[k].call
          /\ \A n \in Link \ {k} : link'[n] = link[n]
      BY <1>0, <3>1 DEF FeedTypeOK, LinkState, Phase
    <3>3. FeedTypeOK'
      BY <1>0, <3>1, <3>2 DEF FeedTypeOK, Backoff
    <3>4. client = NoLink
      BY <1>0, <2>1, <3>1 DEF OneFeed, FeedTypeOK
    <3>5. OneFeed'
      BY <1>0, <2>1, <3>1, <3>2, <3>4, FeedConstantsOK DEF OneFeed, Dialing, FeedTypeOK
    <3>6. \A n \in Link : link'[n].phase = "opened" => link'[n].open
      BY <3>2 DEF FeedInv
    <3> QED
      BY <3>3, <3>5, <3>6 DEF FeedInv
  <2>2. CASE ~link[k].current
    BY <1>1, <2>2, StaleEndsOK DEF ClusterConnected
  <2> QED
    BY <2>1, <2>2
<1>2. CASE DialFailed(k)
  <2>1. CASE link[k].current
    <3>1. /\ link[k].phase = "failed" /\ UNCHANGED <<client, reconnect, callsign, meddled>>
      BY <1>2 DEF DialFailed
    <3>2. client = NoLink /\ reconnect
      BY <1>0, <2>1, <3>1 DEF OneFeed, FeedTypeOK
    <3>3. PICK links \in [Link -> LinkState] : links = link
      BY <1>0 DEF FeedTypeOK
    <3>4. ScheduleReconnect(k, links)
      BY <1>2, <2>1, <3>3 DEF DialFailed, ScheduleReconnect
    <3>5. \A n \in Link \ {k} : ~links[n].current /\ (links[n].open <=> links[n].phase = "opened")
      BY <1>0, <2>1, <3>2, <3>3, FeedConstantsOK DEF OneFeed, FeedInv
    <3> QED
      BY <1>0, <3>1, <3>2, <3>4, <3>5, ReconnectOK
  <2>2. CASE ~link[k].current
    BY <1>2, <2>2, StaleEndsOK DEF DialFailed
  <2> QED
    BY <2>1, <2>2
<1>3. CASE ClusterLine(k)
  <2>1. CASE link[k].current
    <3>1. /\ link[k].phase = "line" /\ link' = [link EXCEPT ![k].phase = "reading"]
          /\ UNCHANGED <<client, connecting, reconnect, delay, callsign, meddled>>
      BY <1>3, <2>1 DEF ClusterLine
    <3>2. /\ link' \in [Link -> LinkState]
          /\ link'[k].phase = "reading" /\ link'[k].open = link[k].open
          /\ link'[k].current = link[k].current /\ link'[k].call = link[k].call
          /\ \A n \in Link \ {k} : link'[n] = link[n]
      BY <1>0, <3>1 DEF FeedTypeOK, LinkState, Phase
    <3>3. FeedTypeOK'
      BY <1>0, <3>1, <3>2 DEF FeedTypeOK
    <3>4. OneFeed'
      BY <1>0, <2>1, <3>1, <3>2, FeedConstantsOK DEF OneFeed, Dialing, FeedTypeOK
    <3>5. \A n \in Link : link'[n].phase = "opened" => link'[n].open
      BY <3>2 DEF FeedInv
    <3> QED
      BY <3>3, <3>4, <3>5 DEF FeedInv
  <2>2. CASE ~link[k].current
    BY <1>3, <2>2, StaleEndsOK DEF ClusterLine
  <2> QED
    BY <2>1, <2>2
<1>4. CASE ClusterBroken(k)
  <2>1. CASE link[k].current
    <3>1. link[k].phase = "broken" /\ client' = NoLink /\ UNCHANGED <<reconnect, callsign, meddled>>
      BY <1>4, <2>1 DEF ClusterBroken
    <3>2. client = k /\ reconnect
      BY <1>0, <2>1, <3>1 DEF OneFeed, Dialing
    <3>3. PICK links \in [Link -> LinkState] : links = [link EXCEPT ![k].open = FALSE]
      BY <1>0 DEF FeedTypeOK, LinkState
    <3>4. links = Closed(link, client)
      BY <3>2, <3>3, FeedConstantsOK DEF Closed
    <3>5. ScheduleReconnect(k, links)
      BY <1>4, <2>1, <3>4 DEF ClusterBroken, ScheduleReconnect
    <3>6. \A n \in Link \ {k} : links[n] = link[n]
      BY <1>0, <3>3 DEF FeedTypeOK
    <3>7. \A n \in Link \ {k} : ~links[n].current /\ (links[n].open <=> links[n].phase = "opened")
      BY <1>0, <2>1, <3>2, <3>6, FeedConstantsOK DEF OneFeed, FeedInv
    <3> QED
      BY <1>0, <3>1, <3>2, <3>5, <3>7, ReconnectOK
  <2>2. CASE ~link[k].current
    BY <1>4, <2>2, StaleEndsOK DEF ClusterBroken
  <2> QED
    BY <2>1, <2>2
<1> QED
  BY <1>1, <1>2, <1>3, <1>4 DEF Handled

\* At most one link is live, under the station's callsign, and no socket leaks,
\* for any number of links in flight and any callsigns (clusterGeneration).
THEOREM OneFeedHolds == FeedInit /\ [][FeedNext]_feedVars => []OneFeed
<1>1. FeedInv /\ [FeedNext]_feedVars => FeedInv'
  <2> SUFFICES ASSUME FeedInv, [FeedNext]_feedVars PROVE FeedInv'
    OBVIOUS
  <2>1. CASE UNCHANGED feedVars
    BY <2>1 DEF feedVars, FeedInv, FeedTypeOK, OneFeed, Dialing
  <2>2. CASE FeedNext
    BY <2>2, OperatorOK, GoroutineOK, HandledOK DEF FeedNext
  <2> QED
    BY <2>1, <2>2
<1>2. FeedInv => OneFeed
  BY DEF FeedInv
<1> QED
  BY <1>1, <1>2, FeedInitOK, PTL

-----------------------------------------------------------------------------
(* The list of spots. *)

\* The spots of a list that pass, one spot after another.
IsKept(kept, f, list, n) ==
    kept = [i \in 0..n |-> IF i = 0 THEN <<>>
                           ELSE IF Allows(f, list[i]) THEN Append(kept[i - 1], list[i])
                           ELSE kept[i - 1]]

\* There is such a function, whatever the list.
LEMMA KeptExists ==
    ASSUME NEW f, NEW list, NEW n \in Nat
    PROVE  \E kept : IsKept(kept, f, list, n)
<1> DEFINE Bad == {k \in Nat : \A kept : ~IsKept(kept, f, list, k)}
<1> SUFFICES ASSUME Bad # {} PROVE FALSE
  OBVIOUS
<1>1. PICK k \in Bad : \A m \in Bad : m >= k
  BY LeastOf
<1>2. k # 0
  <2> DEFINE none == [i \in 0..0 |-> <<>>]
  <2>1. IsKept(none, f, list, 0)
    BY DEF IsKept
  <2> QED
    BY <2>1
<1>3. PICK kept : IsKept(kept, f, list, k - 1)
  BY <1>1, <1>2
<1> DEFINE Next(i, g) == IF i = 0 THEN <<>>
                         ELSE IF Allows(f, list[i]) THEN Append(g[i - 1], list[i])
                         ELSE g[i - 1]
           more == [i \in 0..k |-> IF i = k THEN Next(k, kept) ELSE kept[i]]
<1>4. ASSUME NEW i \in 0..k
      PROVE  more[i] = Next(i, more)
  <2>1. i # 0 => i - 1 \in 0..k /\ i - 1 # k /\ more[i - 1] = kept[i - 1]
    OBVIOUS
  <2>2. more[i] = Next(i, kept)
    <3>1. CASE i = k
      BY <3>1
    <3>2. CASE i # k
      <4>1. i \in 0..k - 1 /\ more[i] = kept[i]
        BY <3>2
      <4> HIDE DEF more
      <4> QED
        BY <1>3, <4>1 DEF IsKept
    <3> QED
      BY <3>1, <3>2
  <2> HIDE DEF more
  <2> QED
    BY <2>1, <2>2
<1>5. IsKept(more, f, list, k)
  <2>1. more = [i \in 0..k |-> more[i]]
    OBVIOUS
  <2> HIDE DEF more
  <2> QED
    BY <1>4, <2>1 DEF IsKept
<1> QED
  BY <1>5

\* A list in the order of another and of its entries only.
Within(new, old) ==
    /\ \A i \in DOMAIN new : \E a \in DOMAIN old : new[i] = old[a]
    /\ \A i \in DOMAIN new : \A j \in 1..i - 1 :
          \E a \in DOMAIN old : \E b \in 1..a - 1 : new[i] = old[a] /\ new[j] = old[b]

\* What pruneClusterSpots leaves passes the filters and keeps its order.
LEMMA PrunedOK ==
    ASSUME NEW f, spots \in Seq(Spot)
    PROVE  /\ Pruned(f) \in Seq(Spot)
           /\ Within(Pruned(f), spots)
           /\ Len(Pruned(f)) <= Len(spots)
           /\ \A i \in DOMAIN Pruned(f) : Allows(f, Pruned(f)[i])
<1> DEFINE n == Len(spots)
           kept == KeptSpots(f)
<1>1. n \in Nat /\ DOMAIN spots = 1..n /\ \A i \in 1..n : spots[i] \in Spot
  OBVIOUS
<1>2. IsKept(kept, f, spots, n)
  <2>1. \E g : IsKept(g, f, spots, Len(spots))
    BY <1>1, KeptExists
  <2> QED
    BY <2>1, Zenon DEF KeptSpots, IsKept
<1>3. kept[0] = <<>>
  BY <1>1, <1>2 DEF IsKept
<1> HIDE DEF n, kept
<1>4. ASSUME NEW k \in 1..n
      PROVE  kept[k] = IF Allows(f, spots[k]) THEN Append(kept[k - 1], spots[k])
                       ELSE kept[k - 1]
  <2>1. k \in 0..n /\ k # 0
    BY <1>1
  <2> QED
    BY <1>2, <2>1, Zenon DEF IsKept
\* So it is with the spots kept of the first k.
<1> DEFINE Good(k) == /\ kept[k] \in Seq(Spot) /\ Len(kept[k]) <= k
                      /\ \A i \in DOMAIN kept[k] : Allows(f, kept[k][i])
                      /\ \A i \in DOMAIN kept[k] : \E a \in 1..k : kept[k][i] = spots[a]
                      /\ \A i \in DOMAIN kept[k] : \A j \in 1..i - 1 :
                            \E a \in 1..k : \E b \in 1..a - 1 :
                               kept[k][i] = spots[a] /\ kept[k][j] = spots[b]
           Bad == {k \in 0..n : ~Good(k)}
<1>5. Good(0)
  BY <1>3
<1>6. ASSUME NEW k \in 1..n, Good(k - 1)
      PROVE  Good(k)
  <2> DEFINE old == kept[k - 1]
             new == kept[k]
  <2>1. old \in Seq(Spot) /\ Len(old) \in Nat /\ Len(old) <= k - 1 /\ DOMAIN old = 1..Len(old)
    BY <1>6
  <2>2. CASE ~Allows(f, spots[k])
    <3>1. new = old
      BY <1>4, <2>2
    <3> HIDE DEF new, old
    <3>2. 1..k - 1 \subseteq 1..k
      BY <1>1
    <3>3. Len(old) <= k
      BY <1>1, <2>1
    <3> QED
      BY <1>6, <3>1, <3>2, <3>3 DEF new, old
  <2>3. CASE Allows(f, spots[k])
    <3>1. new = Append(old, spots[k])
      BY <1>4, <2>3
    <3>2. spots[k] \in Spot
      BY <1>1
    <3> HIDE DEF new, old
    <3>3. /\ new \in Seq(Spot) /\ Len(new) = Len(old) + 1 /\ DOMAIN new = 1..Len(old) + 1
          /\ new[Len(old) + 1] = spots[k]
          /\ \A i \in 1..Len(old) : new[i] = old[i]
      BY <2>1, <3>1, <3>2
    <3>4. \A i \in 1..Len(old) : Allows(f, old[i]) /\ \E a \in 1..k - 1 : old[i] = spots[a]
      BY <1>6, <2>1 DEF old
    <3>5. \A i \in 1..Len(old) : \A j \in 1..i - 1 :
             \E a \in 1..k - 1 : \E b \in 1..a - 1 : old[i] = spots[a] /\ old[j] = spots[b]
      BY <1>6, <2>1 DEF old
    <3>6. ASSUME NEW i \in DOMAIN new
          PROVE  Allows(f, new[i]) /\ \E a \in 1..k : new[i] = spots[a]
      <4>1. CASE i = Len(old) + 1
        BY <2>3, <3>3, <4>1
      <4>2. CASE i # Len(old) + 1
        <5>1. i \in 1..Len(old)
          BY <2>1, <3>3, <4>2
        <5> QED
          BY <3>3, <3>4, <5>1
      <4> QED
        BY <4>1, <4>2
    <3>7. ASSUME NEW i \in DOMAIN new, NEW j \in 1..i - 1
          PROVE  \E a \in 1..k : \E b \in 1..a - 1 : new[i] = spots[a] /\ new[j] = spots[b]
      <4>1. j \in 1..Len(old) /\ new[j] = old[j]
        BY <2>1, <3>3
      <4>2. CASE i = Len(old) + 1
        <5>1. PICK b \in 1..k - 1 : old[j] = spots[b]
          BY <3>4, <4>1
        <5>2. k \in 1..k /\ new[i] = spots[k]
          BY <3>3, <4>2
        <5> QED
          BY <4>1, <5>1, <5>2
      <4>3. CASE i # Len(old) + 1
        <5>1. i \in 1..Len(old) /\ new[i] = old[i]
          BY <2>1, <3>3, <4>3
        <5>2. PICK a \in 1..k - 1 : \E b \in 1..a - 1 : old[i] = spots[a] /\ old[j] = spots[b]
          BY <3>5, <5>1
        <5> QED
          BY <4>1, <5>1, <5>2
      <4> QED
        BY <4>2, <4>3
    <3>8. Len(new) <= k
      BY <2>1, <3>3
    <3> QED
      BY <3>3, <3>6, <3>7, <3>8 DEF new
  <2> QED
    BY <2>2, <2>3
<1> HIDE DEF Good
<1>7. Bad = {}
  <2> SUFFICES ASSUME Bad # {} PROVE FALSE
    OBVIOUS
  <2>1. PICK k \in Bad : \A m \in Bad : m >= k
    <3>1. Bad \in SUBSET Nat
      OBVIOUS
    <3> QED
      BY <3>1, LeastOf
  <2>2. k # 0
    BY <1>5
  <2>3. k \in 1..n /\ k - 1 \in 0..n
    BY <1>1, <2>2
  <2>4. Good(k - 1)
    BY <2>1, <2>3
  <2> QED
    BY <1>6, <2>3, <2>4
<1>8. Good(n)
  BY <1>1, <1>7
<1>9. Pruned(f) = kept[n]
  BY DEF Pruned, kept, n
<1>10. /\ kept[n] \in Seq(Spot) /\ Len(kept[n]) <= n
       /\ \A i \in DOMAIN kept[n] : Allows(f, kept[n][i])
       /\ Within(kept[n], spots)
  BY <1>1, <1>8 DEF Good, Within
<1> QED
  BY <1>9, <1>10 DEF n

\* The lesser and the greater of two numbers.
LEMMA MinOfTwo ==
    ASSUME NEW a \in Int, NEW b \in Int
    PROVE  Min({a, b}) \in {a, b} /\ Min({a, b}) <= a /\ Min({a, b}) <= b
BY DEF Min

LEMMA MaxOfTwo ==
    ASSUME NEW a \in Int, NEW b \in Int
    PROVE  Max({a, b}) \in {a, b} /\ Max({a, b}) >= a /\ Max({a, b}) >= b
BY DEF Max

\* How far a list scrolls: the longer the list, the farther.
LEMMA ScrollEnd ==
    ASSUME NEW list \in Seq(Spot)
    PROVE  MaxScroll(list) \in Nat
<1> DEFINE a == Len(list) - Visible
<1>1. a \in Int /\ 0 \in Int
  BY SpotConstantsOK
<1> HIDE DEF a
<1>2. Max({0, a}) \in {0, a} /\ Max({0, a}) >= 0
  BY <1>1, MaxOfTwo, Zenon
<1>3. Max({0, a}) \in Nat
  BY <1>1, <1>2
<1> QED
  BY <1>3 DEF MaxScroll, a

LEMMA ScrollGrows ==
    ASSUME NEW old \in Seq(Spot), NEW new \in Seq(Spot), Len(old) <= Len(new)
    PROVE  MaxScroll(old) <= MaxScroll(new)
<1> DEFINE a == Len(old) - Visible
           b == Len(new) - Visible
<1>1. a \in Int /\ b \in Int /\ 0 \in Int /\ a <= b
  BY SpotConstantsOK
<1> HIDE DEF a, b
<1>2. Max({0, a}) \in {0, a} /\ Max({0, b}) >= 0 /\ Max({0, b}) >= b /\ Max({0, b}) \in {0, b}
  BY <1>1, MaxOfTwo, Zenon
<1>3. Max({0, a}) <= Max({0, b})
  BY <1>1, <1>2
<1> QED
  BY <1>3 DEF MaxScroll, a, b

\* The invariant behind ListInForce.
SpotInv ==
    /\ spots \in Seq(Spot) /\ now \in 0..MaxTime
    /\ ListInForce

\* A filtered list loses nothing of its order.
LEMMA PruneKeeps ==
    ASSUME SpotInv, SaveFilters
    PROVE  SpotInv'
<1>1. /\ filters' = edited /\ now' = now
      /\ spots' = Pruned(edited)
      /\ scroll' = Min({scroll, MaxScroll(spots')})
  BY DEF SaveFilters
<1>2. /\ spots' \in Seq(Spot) /\ Within(spots', spots) /\ Len(spots') <= Len(spots)
      /\ \A i \in DOMAIN spots' : Allows(edited, spots'[i])
  BY <1>1, PrunedOK DEF SpotInv
<1>3. scroll' \in 0..MaxScroll(spots')
  <2>1. scroll \in Nat
    <3>1. scroll \in 0..MaxScroll(spots)
      BY DEF SpotInv, ListInForce
    <3> QED
      BY <3>1
  <2>2. MaxScroll(spots') \in Nat
    BY <1>2, ScrollEnd
  <2> DEFINE end == MaxScroll(spots')
  <2>3. scroll \in Int /\ end \in Int /\ scroll' = Min({scroll, end})
    BY <1>1, <2>1, <2>2
  <2> HIDE DEF end
  <2>4. Min({scroll, end}) \in {scroll, end} /\ Min({scroll, end}) <= scroll /\ Min({scroll, end}) <= end
    BY <2>3, MinOfTwo, Zenon
  <2>5. scroll' \in {scroll, end} /\ scroll' <= end
    BY <2>3, <2>4
  <2> QED
    BY <2>1, <2>2, <2>5 DEF end
<1>4. Len(spots') <= Listed
  <2>1. Len(spots) \in Nat /\ Len(spots') \in Nat /\ Listed \in Nat /\ Len(spots) <= Listed
    BY <1>2, SpotConstantsOK DEF SpotInv, ListInForce
  <2> QED
    BY <1>2, <2>1
<1>5. ASSUME NEW i \in DOMAIN spots'
      PROVE  spots'[i].at <= now' /\ Allows(filters', spots'[i])
  <2>1. PICK a \in DOMAIN spots : spots'[i] = spots[a]
    BY <1>2 DEF Within
  <2>2. spots[a].at <= now
    BY <2>1 DEF SpotInv, ListInForce
  <2> QED
    BY <1>1, <1>2, <2>1, <2>2
<1>6. ASSUME NEW i \in DOMAIN spots', NEW j \in 1..i - 1
      PROVE  /\ spots'[j].at >= spots'[i].at
             /\ spots'[j].call = spots'[i].call /\ spots'[j].band = spots'[i].band
                   => spots'[j].at - spots'[i].at > Window
  <2>1. PICK a \in DOMAIN spots : \E b \in 1..a - 1 :
           spots'[i] = spots[a] /\ spots'[j] = spots[b]
    BY <1>2 DEF Within
  <2>2. PICK b \in 1..a - 1 : spots'[i] = spots[a] /\ spots'[j] = spots[b]
    BY <2>1
  <2>3. /\ spots[b].at >= spots[a].at
        /\ spots[b].call = spots[a].call /\ spots[b].band = spots[a].band
              => spots[b].at - spots[a].at > Window
    BY <2>2 DEF SpotInv, ListInForce
  <2> QED
    BY <2>2, <2>3
<1> QED
  <2>1. now' \in 0..MaxTime
    BY <1>1 DEF SpotInv
  <2>2. ListInForce'
    BY <1>3, <1>4, <1>5, <1>6 DEF ListInForce, MaxScroll, Allows
  <2> QED
    BY <1>2, <2>1, <2>2 DEF SpotInv

\* A spot goes on top: it is not older than any entry, and an entry that it
\* duplicates would have been found.
LEMMA ArrivalKeeps ==
    ASSUME SpotInv, NEW s \in Spot, SpotArrives(s)
    PROVE  SpotInv'
<1>0. /\ s.at = now /\ filters' = filters /\ scroll' = scroll /\ now' = now
  BY DEF SpotArrives
<1>1. CASE spots' = spots
  BY <1>0, <1>1 DEF SpotInv, ListInForce, MaxScroll, Allows
<1>2. CASE Allows(filters, s) /\ ~Duplicate(s)
          /\ spots' = SubSeq(<<s>> \o spots, 1, Min({Len(spots) + 1, Listed}))
  <2> DEFINE n == Len(spots)
             m == Min({n + 1, Listed})
  <2>1. /\ n \in Nat /\ DOMAIN spots = 1..n /\ spots \in Seq(Spot)
        /\ \A i \in 1..n : spots[i] \in Spot
    BY DEF SpotInv
  <2>2. Listed \in Nat /\ Listed > 0 /\ Window \in Nat /\ now \in Nat /\ n <= Listed
    BY SpotConstantsOK DEF SpotInv, ListInForce
  <2>3. m \in {n + 1, Listed} /\ m <= n + 1 /\ m <= Listed
    <3> DEFINE k == n + 1
    <3>1. k \in Int /\ Listed \in Int
      BY <2>1, <2>2
    <3> HIDE DEF k
    <3>2. Min({k, Listed}) \in {k, Listed} /\ Min({k, Listed}) <= k /\ Min({k, Listed}) <= Listed
      BY <3>1, MinOfTwo, Zenon
    <3> QED
      BY <3>2 DEF k
  <2> HIDE DEF n, m
  <2>4. m \in Nat /\ m > 0 /\ m >= n
    BY <2>1, <2>2, <2>3
  <2>5. /\ <<s>> \o spots \in Seq(Spot) /\ Len(<<s>> \o spots) = n + 1
        /\ (<<s>> \o spots)[1] = s
        /\ \A i \in 2..n + 1 : (<<s>> \o spots)[i] = spots[i - 1]
    BY <2>1 DEF n
  <2>6. spots' = SubSeq(<<s>> \o spots, 1, m)
    BY <1>2 DEF m, n
  <2>7. /\ spots' \in Seq(Spot) /\ Len(spots') = m /\ DOMAIN spots' = 1..m
        /\ spots'[1] = s
        /\ \A i \in 2..m : spots'[i] = spots[i - 1]
    BY <2>1, <2>3, <2>4, <2>5, <2>6
  <2>8. scroll' \in 0..MaxScroll(spots')
    <3>1. MaxScroll(spots) <= MaxScroll(spots')
      <4>1. Len(spots) <= Len(spots')
        BY <2>4, <2>7 DEF n
      <4> QED
        BY <2>1, <2>7, <4>1, ScrollGrows
    <3>2. MaxScroll(spots) \in Nat /\ MaxScroll(spots') \in Nat
      BY <2>1, <2>7, ScrollEnd
    <3>3. scroll \in 0..MaxScroll(spots)
      BY DEF SpotInv, ListInForce
    <3> QED
      BY <1>0, <3>1, <3>2, <3>3
  <2>9. ASSUME NEW i \in 1..n
        PROVE  /\ spots[i].at <= now /\ Allows(filters, spots[i])
               /\ spots[i].at \in Nat
               /\ spots[i].call = s.call /\ spots[i].band = s.band
                     => now - spots[i].at > Window
    <3>1. spots[i].at <= now /\ Allows(filters, spots[i])
      BY <2>1 DEF SpotInv, ListInForce
    <3>2. \A j \in 1..n : spots[j].at \in Nat
      BY <2>1 DEF Spot
    <3>3. ASSUME spots[i].call = s.call, spots[i].band = s.band
          PROVE  now - spots[i].at > Window
      <4>1. PICK j \in 1..i : ~(spots[j].at >= s.at - Window)
        BY <1>2, <2>1, <3>3 DEF Duplicate
      <4>2. spots[j].at >= spots[i].at
        <5>1. CASE j = i
          BY <2>1, <3>2, <5>1
        <5>2. CASE j # i
          <6>1. j \in 1..i - 1
            BY <2>1, <5>2
          <6> QED
            BY <2>1, <6>1 DEF SpotInv, ListInForce
        <5> QED
          BY <5>1, <5>2
      <4>3. spots[j].at \in Nat /\ spots[i].at \in Nat
        BY <2>1, <3>2
      <4> QED
        BY <1>0, <2>2, <4>1, <4>2, <4>3
    <3> QED
      BY <3>1, <3>2, <3>3
  <2>10. ASSUME NEW i \in 1..m
         PROVE  spots'[i].at <= now' /\ Allows(filters', spots'[i])
    <3>1. CASE i = 1
      BY <1>0, <1>2, <2>2, <2>7, <3>1
    <3>2. CASE i # 1
      <4>1. i \in 2..m /\ i - 1 \in 1..n
        BY <2>1, <2>3, <2>4, <3>2
      <4> QED
        BY <1>0, <2>7, <2>9, <4>1
    <3> QED
      BY <3>1, <3>2
  <2>11. ASSUME NEW i \in 1..m, NEW j \in 1..i - 1
         PROVE  /\ spots'[j].at >= spots'[i].at
                /\ spots'[j].call = spots'[i].call /\ spots'[j].band = spots'[i].band
                      => spots'[j].at - spots'[i].at > Window
    <3>1. i \in 2..m /\ i - 1 \in 1..n /\ spots'[i] = spots[i - 1]
      BY <2>1, <2>3, <2>4, <2>7
    <3>2. CASE j = 1
      <4>1. spots'[j] = s
        BY <2>7, <3>2
      <4> QED
        BY <1>0, <2>2, <2>9, <3>1, <4>1
    <3>3. CASE j # 1
      <4>1. j \in 2..m /\ j - 1 \in 1..(i - 1) - 1 /\ spots'[j] = spots[j - 1]
        BY <2>1, <2>3, <2>4, <2>7, <3>1, <3>3
      <4>2. /\ spots[j - 1].at >= spots[i - 1].at
            /\ spots[j - 1].call = spots[i - 1].call /\ spots[j - 1].band = spots[i - 1].band
                  => spots[j - 1].at - spots[i - 1].at > Window
        BY <2>1, <3>1, <4>1 DEF SpotInv, ListInForce
      <4> QED
        BY <3>1, <4>1, <4>2
    <3> QED
      BY <3>2, <3>3
  <2>12. ListInForce'
    <3>1. Len(spots') <= Listed
      BY <2>3, <2>7
    <3> QED
      BY <2>7, <2>8, <2>10, <2>11, <3>1 DEF ListInForce, MaxScroll, Allows
  <2> QED
    BY <1>0, <2>7, <2>12 DEF SpotInv
<1> QED
  BY <1>1, <1>2 DEF SpotArrives, AddSpot

\* What the panel shows of the feed is in force, for any window, length, and
\* number of spots and edits of the filters (pruneClusterSpots,
\* isDuplicateClusterSpot, scrollClusterSpots).
THEOREM ListInForceHolds == SpotInit /\ [][SpotNext]_spotVars => []ListInForce
<1>1. SpotInit => SpotInv
  <2> SUFFICES ASSUME SpotInit PROVE SpotInv
    OBVIOUS
  <2>1. spots = <<>> /\ scroll = 0 /\ now = 0
    BY DEF SpotInit
  <2>2. spots \in Seq(Spot) /\ Len(spots) = 0 /\ DOMAIN spots = {}
    BY <2>1
  <2>3. scroll \in 0..MaxScroll(spots)
    <3>1. MaxScroll(spots) \in Nat
      BY <2>2, ScrollEnd
    <3> QED
      BY <2>1, <3>1
  <2> QED
    BY <2>1, <2>2, <2>3, SpotConstantsOK DEF SpotInv, ListInForce
<1>2. SpotInv /\ [SpotNext]_spotVars => SpotInv'
  <2> SUFFICES ASSUME SpotInv, [SpotNext]_spotVars PROVE SpotInv'
    OBVIOUS
  <2>1. ASSUME NEW s \in Spot, SpotArrives(s) PROVE SpotInv'
    BY <2>1, ArrivalKeeps
  <2>2. ASSUME NEW rows \in {-Visible, Visible}, Scroll(rows) PROVE SpotInv'
    <3>1. scroll' \in 0..MaxScroll(spots)
      <4> DEFINE end == MaxScroll(spots)
                 to == scroll + rows
                 up == Max({0, to})
      <4>1. scroll \in Int /\ rows \in Int /\ spots \in Seq(Spot)
        <5>1. scroll \in 0..MaxScroll(spots)
          BY DEF SpotInv, ListInForce
        <5>2. Visible \in Nat
          BY SpotConstantsOK
        <5> QED
          BY <5>1, <5>2 DEF SpotInv
      <4>2. end \in Nat /\ to \in Int /\ 0 \in Int
        BY <4>1, ScrollEnd
      <4>3. scroll' = Min({up, end})
        BY <2>2 DEF Scroll
      <4> HIDE DEF end, to
      <4>4. up \in {0, to} /\ up >= 0
        BY <4>2, MaxOfTwo, Zenon
      <4> HIDE DEF up
      <4>5. up \in Nat /\ up \in Int /\ end \in Int
        BY <4>2, <4>4
      <4>6. Min({up, end}) \in {up, end} /\ Min({up, end}) <= end
        BY <4>5, MinOfTwo, Zenon
      <4> QED
        BY <4>2, <4>3, <4>5, <4>6 DEF end
    <3>2. spots' = spots /\ filters' = filters /\ now' = now
      BY <2>2 DEF Scroll
    <3> QED
      BY <3>1, <3>2 DEF SpotInv, ListInForce, MaxScroll, Allows
  <2>3. ASSUME SaveFilters PROVE SpotInv'
    BY <2>3, PruneKeeps
  <2>4. ASSUME UNCHANGED <<spots, filters, scroll, now>> PROVE SpotInv'
    BY <2>4 DEF SpotInv, ListInForce, MaxScroll, Allows
  <2>5. ASSUME Minute PROVE SpotInv'
    <3>1. /\ spots' = spots /\ filters' = filters /\ scroll' = scroll
          /\ now' = now + 1 /\ now' \in 0..MaxTime /\ now \in Nat
      BY <2>5, SpotConstantsOK DEF Minute, SpotInv
    <3>2. \A i \in DOMAIN spots : spots[i].at \in Nat
      <4>1. \A i \in DOMAIN spots : spots[i] \in Spot
        BY DEF SpotInv
      <4> QED
        BY <4>1, SpotConstantsOK DEF Spot
    <3>3. \A i \in DOMAIN spots : spots[i].at <= now'
      BY <3>1, <3>2 DEF SpotInv, ListInForce
    <3> QED
      BY <3>1, <3>3 DEF SpotInv, ListInForce, MaxScroll, Allows
  <2> QED
    BY <2>1, <2>2, <2>3, <2>4, <2>5
       DEF SpotNext, spotVars, OpenFilters, LeaveFilters, ToggleBand
<1>3. SpotInv => ListInForce
  BY DEF SpotInv
<1> QED
  BY <1>1, <1>2, <1>3, PTL

-----------------------------------------------------------------------------
(* Rig control. *)

\* A polling slot.
RigSlot == [phase : {"idle", "asked", "answered", "failed"},
            from : Addr \union {NoAddr}, current : BOOLEAN]

RigInv == RigTypeOK /\ OneChain

LEMMA RetiredOK ==
    ASSUME NEW S, NEW slots \in [S -> RigSlot]
    PROVE  /\ Retired(slots) \in [S -> RigSlot]
           /\ \A s \in S : ~Retired(slots)[s].current
BY DEF Retired, StaleAll, RigSlot

\* A new chain, which SaveAddr starts beside whatever the old ones have left.
LEMMA StartedOK ==
    ASSUME NEW S, NEW slots \in [S -> RigSlot], NEW s \in S, NEW a \in Addr
    PROVE  LET new == [Retired(slots) EXCEPT ![s] = Asked(a)] IN
           /\ new \in [S -> RigSlot]
           /\ \A n \in S : new[n].current <=> n = s
           /\ new[s].from = a
<1> DEFINE old == Retired(slots)
<1>1. old \in [S -> RigSlot] /\ \A n \in S : ~old[n].current
  BY RetiredOK
<1> HIDE DEF old
<1> DEFINE new == [old EXCEPT ![s] = Asked(a)]
<1>2. /\ new \in [S -> RigSlot]
      /\ \A n \in S : new[n].current <=> n = s
      /\ new[s].from = a
  BY <1>1 DEF Asked, RigSlot
<1> QED
  BY <1>2 DEF old

LEMMA RigInitOK == RigInit => RigInv
<1> SUFFICES ASSUME RigInit PROVE RigInv
  OBVIOUS
<1>1. PICK p \in Poll, t \in Timer :
         /\ poll = [q \in Poll |-> IF q = p /\ addr # NoAddr THEN Asked(addr) ELSE Unused]
         /\ timer = [u \in Timer |-> IF u = t /\ addr # NoAddr THEN Asked(addr) ELSE Unused]
  BY DEF RigInit
<1>2. addr \in Addr \union {NoAddr} /\ shown = NoAddr /\ field = NoAddr /\ inQSO = FALSE
  BY DEF RigInit
<1>3. poll \in [Poll -> RigSlot] /\ timer \in [Timer -> RigSlot]
  BY <1>1, <1>2 DEF RigSlot, Asked, Unused
<1>4. RigTypeOK
  BY <1>2, <1>3 DEF RigTypeOK, RigSlot
<1>5. OneChain
  BY <1>1, <1>2 DEF OneChain, Asked, Unused
<1> QED
  BY <1>4, <1>5 DEF RigInv

LEMMA RigStepOK == RigInv /\ [RigNext]_rigVars => RigInv'
<1> SUFFICES ASSUME RigInv, [RigNext]_rigVars PROVE RigInv'
  OBVIOUS
<1>0. /\ addr \in Addr \union {NoAddr} /\ shown \in Addr \union {NoAddr}
      /\ field \in Addr \union {NoAddr} /\ inQSO \in BOOLEAN
      /\ poll \in [Poll -> RigSlot] /\ timer \in [Timer -> RigSlot]
      /\ OneChain
  BY DEF RigInv, RigTypeOK, RigSlot
<1>1. ASSUME NEW a \in Addr \union {NoAddr}, SaveAddr(a)
      PROVE  RigInv'
  <2>1. addr' = a /\ shown' = NoAddr /\ UNCHANGED <<field, inQSO>>
    BY <1>1 DEF SaveAddr
  <2>2. CASE a = NoAddr
    <3>1. poll' = Retired(poll) /\ timer' = Retired(timer)
      BY <1>1, <2>2 DEF SaveAddr
    <3>2. /\ poll' \in [Poll -> RigSlot] /\ timer' \in [Timer -> RigSlot]
          /\ \A p \in Poll : ~poll'[p].current
          /\ \A t \in Timer : ~timer'[t].current
      BY <1>0, <3>1, RetiredOK
    <3> QED
      BY <1>0, <2>1, <2>2, <3>2 DEF RigInv, RigTypeOK, OneChain, RigSlot
  <2>3. CASE a # NoAddr
    <3>1. PICK p \in Poll, t \in Timer :
             /\ poll' = [Retired(poll) EXCEPT ![p] = Asked(a)]
             /\ timer' = [Retired(timer) EXCEPT ![t] = Asked(a)]
      BY <1>1, <2>3 DEF SaveAddr
    <3>2. /\ poll' \in [Poll -> RigSlot]
          /\ \A n \in Poll : poll'[n].current <=> n = p
          /\ poll'[p].from = a
      BY <1>0, <2>3, <3>1, StartedOK
    <3>3. /\ timer' \in [Timer -> RigSlot]
          /\ \A n \in Timer : timer'[n].current <=> n = t
      BY <1>0, <2>3, <3>1, StartedOK
    <3> QED
      BY <1>0, <2>1, <2>3, <3>2, <3>3, RigConstantsOK DEF RigInv, RigTypeOK, OneChain, RigSlot
  <2> QED
    BY <2>2, <2>3
<1>2. ASSUME NEW t \in Timer, Tick(t)
      PROVE  RigInv'
  <2>1. UNCHANGED <<addr, shown, field, inQSO>>
    BY <1>2 DEF Tick
  <2>2. CASE timer[t].current /\ addr # NoAddr
    <3>1. PICK p \in Poll : poll' = [poll EXCEPT ![p] = Asked(addr)] /\ timer' = timer
      BY <1>2, <2>2 DEF Tick
    <3>2. poll' \in [Poll -> RigSlot] /\ \A n \in Poll : poll'[n].current => poll'[n].from = addr
      BY <1>0, <2>2, <3>1 DEF Asked, RigSlot, OneChain
    <3> QED
      BY <1>0, <2>1, <3>1, <3>2 DEF RigInv, RigTypeOK, OneChain, RigSlot
  <2>3. CASE ~(timer[t].current /\ addr # NoAddr)
    <3>1. poll' = poll /\ timer' = [timer EXCEPT ![t] = Unused] /\ ~timer[t].current
      BY <1>0, <1>2, <2>3 DEF Tick, OneChain
    <3>2. timer' \in [Timer -> RigSlot] /\ \A n \in Timer : timer'[n].current = timer[n].current
      BY <1>0, <3>1 DEF Unused, RigSlot
    <3> QED
      BY <1>0, <2>1, <3>1, <3>2 DEF RigInv, RigTypeOK, OneChain, RigSlot
  <2> QED
    BY <2>2, <2>3
<1>3. ASSUME NEW p \in Poll, NEW how \in {"answered", "failed"}, RigAnswers(p, how)
      PROVE  RigInv'
  <2>1. poll' = [poll EXCEPT ![p].phase = how] /\ UNCHANGED <<addr, timer, shown, field, inQSO>>
    BY <1>3 DEF RigAnswers
  <2>2. /\ poll' \in [Poll -> RigSlot]
        /\ \A n \in Poll : poll'[n].current = poll[n].current /\ poll'[n].from = poll[n].from
    BY <1>0, <2>1 DEF RigSlot
  <2> QED
    BY <1>0, <2>1, <2>2 DEF RigInv, RigTypeOK, OneChain, RigSlot
<1>4. ASSUME NEW p \in Poll, NEW inBand \in BOOLEAN, RigStatus(p, inBand)
      PROVE  RigInv'
  <2>1. poll' = [poll EXCEPT ![p] = Unused] /\ UNCHANGED <<addr, timer, inQSO>>
    BY <1>4 DEF RigStatus
  <2>2. /\ poll' \in [Poll -> RigSlot]
        /\ \A n \in Poll : poll'[n].current => poll[n].current /\ poll'[n].from = poll[n].from
    BY <1>0, <2>1 DEF RigSlot, Unused
  <2>3. shown' \in {shown, addr} /\ field' \in {field, addr}
    BY <1>0, <1>4 DEF RigStatus, OneChain
  <2> QED
    BY <1>0, <2>1, <2>2, <2>3 DEF RigInv, RigTypeOK, OneChain, RigSlot
<1>5. CASE Operating
  BY <1>0, <1>5 DEF Operating, RigInv, RigTypeOK, OneChain, RigSlot
<1>6. CASE UNCHANGED rigVars
  BY <1>0, <1>6 DEF rigVars, RigInv, RigTypeOK, OneChain, RigSlot
<1> QED
  BY <1>1, <1>2, <1>3, <1>4, <1>5, <1>6 DEF RigNext

\* One chain of ticks polls the rig, and what is shown was read from the
\* address in force, for any addresses, polls and timers (rigGeneration).
THEOREM OneChainHolds == RigInit /\ [][RigNext]_rigVars => []OneChain
<1>1. RigInv => OneChain
  BY DEF RigInv
<1> QED
  BY <1>1, RigInitOK, RigStepOK, PTL

-----------------------------------------------------------------------------
(* The table of recent contacts. *)

\* A delete is armed only in the table, on the contact that the prompt in
\* force names: whatever else withdraws the prompt cancels the delete.
ArmedByKey ==
    /\ prompt = [names |-> prompt.names, passed |-> prompt.passed]
    /\ armed # None => focused /\ prompt.names = armed

LEMMA ArmedStep == ArmedByKey /\ [RecentNext]_recentVars => ArmedByKey'
<1> SUFFICES ASSUME ArmedByKey, [RecentNext]_recentVars PROVE ArmedByKey'
  OBVIOUS
<1>1. CASE UNCHANGED <<armed, focused, prompt>>
  BY <1>1 DEF ArmedByKey
<1>2. CASE armed' = None /\ prompt' \in {prompt, NoPrompt}
  BY <1>2 DEF ArmedByKey, NoPrompt
<1>3. CASE D
  <2>1. \/ armed' = None /\ prompt' = NoPrompt
        \/ focused' = focused /\ focused /\ armed' = listed[cursor] /\ prompt' = Prompt(listed[cursor])
    BY <1>3 DEF D, Refreshed
  <2> QED
    BY <1>2, <2>1 DEF ArmedByKey, Prompt
<1>4. CASE ~focused /\ UNCHANGED armed /\ prompt' \in {prompt, NoPrompt}
  BY <1>4 DEF ArmedByKey, NoPrompt
<1>5. \A call : CallChecked(call) => armed' = None \/ UNCHANGED armed
  BY DEF CallChecked, Refreshed
<1>6. CASE KeyBeforeTable
  BY <1>6 DEF ArmedByKey, KeyBeforeTable
<1> QED
  BY <1>1, <1>2, <1>3, <1>4, <1>5, <1>6 DEF RecentNext, recentVars, TypeCall, Enter,
     DeleteByCommand, CancelEdit, ToggleFocus, Move, BeginEdit, ImportCommits, ImportReported,
     LateAnswer, Blink, Refreshed

\* From the table a contact is deleted only by a second "d" on the contact
\* that the prompt in force names, for any log and any list
\* (updateRecentQSOsTable).
THEOREM DeletesNamedHolds == RecentInit /\ [][RecentNext]_recentVars => DeletesNamed
<1> DEFINE Named == \A id \in ID : focused /\ logged[id] # Nobody /\ logged'[id] = Nobody
                                      => prompt.names = id
<1>1. RecentInit => ArmedByKey
  BY DEF RecentInit, ArmedByKey, NoPrompt
<1>2. ArmedByKey /\ [RecentNext]_recentVars => [Named]_recentVars
  <2> SUFFICES ASSUME ArmedByKey, RecentNext,
                      NEW id \in ID, focused, logged[id] # Nobody, logged'[id] = Nobody
               PROVE  prompt.names = id
    OBVIOUS
  <2>1. CASE D
    <3>1. armed = listed[cursor] /\ logged' = [logged EXCEPT ![listed[cursor]] = Nobody]
      BY <2>1 DEF D, Confirms
    <3>2. id = listed[cursor]
      BY <3>1
    <3>3. armed # None
      BY <3>1, <3>2, RecentConstantsOK DEF ID, None
    <3> QED
      BY <3>1, <3>2, <3>3 DEF ArmedByKey
  <2>2. CASE logged' = logged
    BY <2>2
  <2>3. CASE \E call \in Heard : ImportCommits(call)
    <3>1. PICK call \in Heard : logged' = [logged EXCEPT ![lastID + 1] = call]
      BY <2>3 DEF ImportCommits
    <3>2. call # Nobody
      BY RecentConstantsOK
    <3> QED
      BY <3>1, <3>2
  <2> QED
    BY <2>1, <2>2, <2>3 DEF RecentNext, TypeCall, Enter, DeleteByCommand,
       CancelEdit, ToggleFocus, Move, BeginEdit, KeyBeforeTable, ImportReported, LateAnswer,
       Blink
<1> QED
  BY <1>1, <1>2, ArmedStep, PTL DEF DeletesNamed

-----------------------------------------------------------------------------
(* Exports. *)

JobRecord == [phase : {"writing", "written", "ended"}, by : Instance, path : Path,
              version : Nat]
FileRecord == [state : {"absent"}] \union [state : {"reserved"}, by : Instance]
                \union [state : {"whole"}, by : Instance, version : Nat]

Taken(j) == job[j].phase # "idle"
Unpublished(j) == job[j].phase \in {"writing", "written"}

ExportTypeOK ==
    /\ version \in Nat
    /\ job \in [Job -> {NoJob} \union JobRecord]
    /\ file \in [Path -> FileRecord]

\* An instance has one export of a kind under way, and knows it.
OneOfAKind ==
    \A j \in Job : Taken(j) =>
        /\ <<job[j].by, Kind(job[j].path)>> \in busy
        /\ \A l \in Job : Taken(l) /\ job[l].by = job[j].by
                           /\ Kind(job[l].path) = Kind(job[j].path) => l = j

\* An ADIF export not yet in place has a reservation, and it is its own.
OwnReservation ==
    \A j \in Job : Unpublished(j) /\ job[j].path \in Name =>
        /\ file[job[j].path].state = "reserved"
        /\ \A l \in Job : Unpublished(l) /\ job[l].path = job[j].path => l = j

\* A file holds a log of the past, and what its instance is about to put over
\* it is no older.
NoneOlder ==
    /\ \A j \in Job : Taken(j) => job[j].version <= version
    /\ \A p \in Path : file[p].state = "whole" =>
          /\ file[p].version <= version
          /\ \A j \in Job : Unpublished(j) /\ job[j].path = p /\ job[j].by = file[p].by
                                => job[j].version >= file[p].version

ExportInv == ExportTypeOK /\ OneOfAKind /\ OwnReservation /\ NoneOlder

LEMMA ExportInitOK == ExportInit => ExportInv
<1> SUFFICES ASSUME ExportInit PROVE ExportInv
  OBVIOUS
<1>1. \A j \in Job : job[j] = NoJob /\ ~Taken(j) /\ ~Unpublished(j)
  BY DEF ExportInit, Taken, Unpublished, NoJob
<1>2. \A p \in Path : file[p] = [state |-> "absent"]
  BY DEF ExportInit, Absent
<1>3. ExportTypeOK
  BY DEF ExportInit, ExportTypeOK, FileRecord, Absent
<1> QED
  BY <1>1, <1>2, <1>3 DEF ExportInv, OneOfAKind, OwnReservation, NoneOlder

\* What an export that starts finds: its instance has none of the kind.
LEMMA StartKeeps ==
    ASSUME ExportInv, NEW i \in Instance, NEW j \in Job, NEW p \in Path, Start(i, j, p),
           \/ p \in Contest /\ UNCHANGED file
           \/ p \in Name /\ file[p] = Absent /\ file' = [file EXCEPT ![p] = Reserved(i)]
    PROVE  ExportInv'
<1>0. ExportTypeOK /\ OneOfAKind /\ OwnReservation /\ NoneOlder
  BY DEF ExportInv
<1>1. /\ ~Taken(j) /\ version' = version
      /\ busy' = busy \union {<<i, Kind(p)>>} /\ <<i, Kind(p)>> \notin busy
      /\ job' = [job EXCEPT ![j] = [phase |-> "writing", by |-> i, path |-> p, version |-> version]]
  BY DEF Start, Free, Taken, NoJob
<1>2. /\ Taken(j)' /\ Unpublished(j)' /\ job'[j].by = i /\ job'[j].path = p /\ job'[j].version = version
      /\ \A l \in Job \ {j} : job'[l] = job[l] /\ (Taken(l)' <=> Taken(l)) /\ (Unpublished(l)' <=> Unpublished(l))
  BY <1>0, <1>1 DEF ExportTypeOK, Taken, Unpublished
<1>3. /\ \A q \in Path : file'[q].state = "whole" => file'[q] = file[q]
      /\ \A q \in Path : file[q].state = "reserved" => file'[q].state = "reserved"
      /\ p \in Name => file'[p].state = "reserved" /\ file[p].state = "absent"
  BY <1>0, ExportConstantsOK DEF ExportTypeOK, Absent, Reserved, Path
<1>4. ExportTypeOK'
  <2>1. job' \in [Job -> {NoJob} \union JobRecord]
    BY <1>0, <1>1 DEF ExportTypeOK, JobRecord
  <2>2. file' \in [Path -> FileRecord]
    BY <1>0 DEF ExportTypeOK, FileRecord, Reserved
  <2> QED
    BY <1>0, <1>1, <2>1, <2>2 DEF ExportTypeOK
<1>5. OneOfAKind'
  BY <1>0, <1>1, <1>2 DEF OneOfAKind
<1>6. OwnReservation'
  BY <1>0, <1>1, <1>2, <1>3, ExportConstantsOK DEF OwnReservation, Path
<1>7. NoneOlder'
  <2>1. version \in Nat
    BY <1>0 DEF ExportTypeOK
  <2> QED
    BY <1>0, <1>1, <1>2, <1>3, <2>1 DEF NoneOlder
<1> QED
  BY <1>4, <1>5, <1>6, <1>7 DEF ExportInv

\* An export that ends frees its instance for the next one of the kind.
LEMMA ReleaseKeeps ==
    ASSUME ExportInv, NEW gone \in SUBSET Job,
           job' = [j \in Job |-> IF j \in gone THEN NoJob ELSE job[j]],
           \A j \in Job \ gone : Taken(j) => <<job[j].by, Kind(job[j].path)>> \in busy',
           UNCHANGED <<version, file>>
    PROVE  ExportInv'
<1>0. ExportTypeOK /\ OneOfAKind /\ OwnReservation /\ NoneOlder
  BY DEF ExportInv
<1>1. /\ \A j \in gone : ~Taken(j)' /\ ~Unpublished(j)'
      /\ \A l \in Job \ gone : job'[l] = job[l] /\ (Taken(l)' <=> Taken(l)) /\ (Unpublished(l)' <=> Unpublished(l))
  BY DEF Taken, Unpublished, NoJob
<1>2. ExportTypeOK'
  BY <1>0 DEF ExportTypeOK
<1>3. OneOfAKind'
  BY <1>0, <1>1 DEF OneOfAKind
<1>4. OwnReservation' /\ NoneOlder'
  BY <1>0, <1>1 DEF OwnReservation, NoneOlder
<1> QED
  BY <1>2, <1>3, <1>4 DEF ExportInv

\* An export moves on: its file may change, if it takes its reservation away or
\* puts the export in place.
LEMMA ProgressKeeps ==
    ASSUME ExportInv, NEW j \in Job, Unpublished(j),
           NEW to \in {"written", "ended"}, job' = [job EXCEPT ![j].phase = to],
           \/ UNCHANGED file
           \/ to = "ended" /\ job[j].path \in Name /\ file' = [file EXCEPT ![job[j].path] = Absent]
           \/ to = "ended" /\ file' = [file EXCEPT ![job[j].path] = Whole(job[j].by, job[j].version)],
           UNCHANGED <<version, busy>>
    PROVE  ExportInv'
<1>0. ExportTypeOK /\ OneOfAKind /\ OwnReservation /\ NoneOlder
  BY DEF ExportInv
<1>1. job[j] \in JobRecord /\ Taken(j)
  BY <1>0 DEF ExportTypeOK, Unpublished, Taken, NoJob
<1>2. job' \in [Job -> {NoJob} \union JobRecord]
  BY <1>0, <1>1 DEF ExportTypeOK, JobRecord
<1>3. /\ job'[j].phase = to /\ job'[j].by = job[j].by /\ job'[j].path = job[j].path
      /\ job'[j].version = job[j].version
      /\ \A l \in Job \ {j} : job'[l] = job[l]
  BY <1>0, <1>1 DEF ExportTypeOK, JobRecord
<1>4. /\ Taken(j)' /\ (Unpublished(j)' => to = "written")
      /\ \A l \in Job \ {j} : (Taken(l)' <=> Taken(l)) /\ (Unpublished(l)' <=> Unpublished(l))
  BY <1>3 DEF Taken, Unpublished
<1>5. OneOfAKind'
  BY <1>0, <1>1, <1>3, <1>4 DEF OneOfAKind
<1>6. CASE UNCHANGED file
  <2>1. ExportTypeOK'
    BY <1>0, <1>2, <1>6 DEF ExportTypeOK
  <2>2. OwnReservation' /\ NoneOlder'
    BY <1>0, <1>3, <1>4, <1>1, <1>6 DEF OwnReservation, NoneOlder, Unpublished
  <2> QED
    BY <1>5, <2>1, <2>2 DEF ExportInv
<1>7. CASE to = "ended" /\ job[j].path \in Name /\ file' = [file EXCEPT ![job[j].path] = Absent]
  <2>1. /\ file' \in [Path -> FileRecord]
        /\ file'[job[j].path].state = "absent"
        /\ \A p \in Path \ {job[j].path} : file'[p] = file[p]
    BY <1>0, <1>1, <1>7 DEF ExportTypeOK, FileRecord, Absent, JobRecord
  <2>2. ExportTypeOK'
    BY <1>0, <1>2, <2>1 DEF ExportTypeOK
  <2>3. OwnReservation'
    BY <1>0, <1>1, <1>3, <1>4, <1>7, <2>1 DEF OwnReservation, Path
  <2>4. NoneOlder'
    BY <1>0, <1>1, <1>3, <1>4, <1>7, <2>1 DEF NoneOlder
  <2> QED
    BY <1>5, <2>2, <2>3, <2>4 DEF ExportInv
<1>8. CASE to = "ended" /\ file' = [file EXCEPT ![job[j].path] = Whole(job[j].by, job[j].version)]
  <2>1. /\ file' \in [Path -> FileRecord]
        /\ file'[job[j].path] = [state |-> "whole", by |-> job[j].by, version |-> job[j].version]
        /\ \A p \in Path \ {job[j].path} : file'[p] = file[p]
    BY <1>0, <1>1, <1>8 DEF ExportTypeOK, FileRecord, Whole, JobRecord
  <2>2. ExportTypeOK'
    BY <1>0, <1>2, <2>1 DEF ExportTypeOK
  <2>3. OwnReservation'
    BY <1>0, <1>1, <1>3, <1>4, <1>8, <2>1 DEF OwnReservation, Path
  <2>4. ASSUME NEW l \in Job, Unpublished(l)', job'[l].path = job[j].path, job'[l].by = job[j].by
        PROVE  FALSE
    <3>1. l # j /\ Unpublished(l) /\ job[l].path = job[j].path /\ job[l].by = job[j].by
      BY <1>3, <1>4, <1>8, <2>4
    <3>2. Taken(l)
      BY <3>1 DEF Unpublished, Taken
    <3> QED
      BY <1>0, <1>1, <3>1, <3>2 DEF OneOfAKind
  <2>5. NoneOlder'
    BY <1>0, <1>1, <1>3, <1>4, <1>8, <2>1, <2>4 DEF NoneOlder
  <2> QED
    BY <1>5, <2>2, <2>3, <2>5 DEF ExportInv
<1> QED
  BY <1>6, <1>7, <1>8

\* Every step keeps the invariant.
LEMMA ExportStepOK == ExportInv /\ [ExportNext]_exportVars => ExportInv'
<1> SUFFICES ASSUME ExportInv, [ExportNext]_exportVars PROVE ExportInv'
  OBVIOUS
<1>0. ExportTypeOK /\ OneOfAKind /\ OwnReservation /\ NoneOlder
  BY DEF ExportInv
<1>1. CASE UNCHANGED exportVars
  BY <1>0, <1>1 DEF exportVars, ExportInv, ExportTypeOK, OneOfAKind, OwnReservation, NoneOlder,
     Taken, Unpublished
<1>2. CASE LogChanges
  BY <1>0, <1>2 DEF LogChanges, ExportInv, ExportTypeOK, OneOfAKind, OwnReservation, NoneOlder,
     Taken, Unpublished, JobRecord, FileRecord, NoJob
<1>3. ASSUME NEW i \in Instance, NEW j \in Job, NEW c \in Contest, ExportContest(i, j, c)
      PROVE  ExportInv'
  BY <1>3, StartKeeps DEF ExportContest, Path
<1>4. ASSUME NEW i \in Instance, NEW j \in Job, ExportADIF(i, j)
      PROVE  ExportInv'
  BY <1>4, StartKeeps DEF ExportADIF, Available, Path
<1>5. ASSUME NEW j \in Job, Written(j) \/ Publish(j) \/ Fail(j)
      PROVE  ExportInv'
  <2>1. Unpublished(j)
    BY <1>5 DEF Written, Publish, Fail, Unpublished
  <2>2. CASE Written(j)
    BY <2>1, <2>2, ProgressKeeps DEF Written
  <2>3. CASE Publish(j)
    BY <2>1, <2>3, ProgressKeeps DEF Publish
  <2>4. CASE Fail(j)
    BY <2>1, <2>4, ProgressKeeps DEF Fail, Removes
  <2> QED
    BY <1>5, <2>2, <2>3, <2>4
<1>6. ASSUME NEW j \in Job, Exported(j)
      PROVE  ExportInv'
  <2>1. /\ busy' = busy \ {<<job[j].by, Kind(job[j].path)>>}
        /\ Taken(j) /\ UNCHANGED <<version, file>>
    BY <1>6 DEF Exported, Taken
  <2>2. job' = [l \in Job |-> IF l \in {j} THEN NoJob ELSE job[l]]
    BY <1>0, <1>6 DEF Exported, ExportTypeOK
  <2>3. \A l \in Job \ {j} : Taken(l) => <<job[l].by, Kind(job[l].path)>> \in busy'
    <3> SUFFICES ASSUME NEW l \in Job \ {j}, Taken(l)
                 PROVE  <<job[l].by, Kind(job[l].path)>> \in busy'
      OBVIOUS
    <3>1. <<job[l].by, Kind(job[l].path)>> \in busy
      BY <1>0 DEF OneOfAKind
    <3>2. <<job[l].by, Kind(job[l].path)>> # <<job[j].by, Kind(job[j].path)>>
      BY <1>0, <2>1 DEF OneOfAKind
    <3> QED
      BY <2>1, <3>1, <3>2
  <2> QED
    BY <2>1, <2>2, <2>3, ReleaseKeeps
<1>7. ASSUME NEW i \in Instance, Killed(i)
      PROVE  ExportInv'
  <2> DEFINE gone == {j \in Job : job[j] # NoJob /\ job[j].by = i}
  <2>1. /\ job' = [j \in Job |-> IF j \in gone THEN NoJob ELSE job[j]]
        /\ busy' = {b \in busy : b[1] # i}
        /\ UNCHANGED <<version, file>>
    BY <1>7 DEF Killed
  <2>2. ASSUME NEW j \in Job \ gone, Taken(j)
        PROVE  <<job[j].by, Kind(job[j].path)>> \in busy'
    <3>1. job[j].by # i
      BY <2>2 DEF Taken, NoJob
    <3>2. <<job[j].by, Kind(job[j].path)>> \in busy
      BY <1>0, <2>2 DEF OneOfAKind
    <3> QED
      BY <2>1, <3>1, <3>2
  <2> HIDE DEF gone
  <2>3. gone \in SUBSET Job
    BY DEF gone
  <2> QED
    BY <2>1, <2>2, <2>3, ReleaseKeeps
<1> QED
  BY <1>1, <1>2, <1>3, <1>4, <1>5, <1>6, <1>7 DEF ExportNext

\* An export once in place is there for good, and an instance never puts an
\* older contest log over a newer one of its own, for any number of exports
\* and instances (writeCabrilloAtomic, reserveExportPath).
THEOREM ExportsStayHolds == ExportInit /\ [][ExportNext]_exportVars => ExportsStay
<1> DEFINE Stays == \A p \in Path : file[p].state = "whole" /\ file'[p] # file[p] =>
                       /\ p \in Contest
                       /\ file'[p].state = "whole"
                       /\ file'[p].by = file[p].by => file'[p].version >= file[p].version
<1>1. ExportInv /\ [ExportNext]_exportVars => [Stays]_exportVars
  <2> SUFFICES ASSUME ExportInv, ExportNext,
                      NEW p \in Path, file[p].state = "whole", file'[p] # file[p]
               PROVE  /\ p \in Contest
                      /\ file'[p].state = "whole"
                      /\ file'[p].by = file[p].by => file'[p].version >= file[p].version
    OBVIOUS
  <2>0. ExportTypeOK /\ OwnReservation /\ NoneOlder
    BY DEF ExportInv
  <2>1. CASE UNCHANGED file
    BY <2>1
  <2>2. ASSUME NEW i \in Instance, NEW j \in Job, ExportADIF(i, j)
        PROVE  FALSE
    <3>1. PICK n \in Name : file[n] = Absent /\ file' = [file EXCEPT ![n] = Reserved(i)]
      BY <2>2 DEF ExportADIF, Available
    <3> QED
      BY <2>0, <3>1 DEF ExportTypeOK, Absent
  <2>3. ASSUME NEW j \in Job, Publish(j)
        PROVE  /\ p \in Contest
               /\ file'[p].state = "whole"
               /\ file'[p].by = file[p].by => file'[p].version >= file[p].version
    <3>1. Unpublished(j) /\ file' = [file EXCEPT ![job[j].path] = Whole(job[j].by, job[j].version)]
      BY <2>3 DEF Publish, Unpublished
    <3>2. p = job[j].path /\ file'[p] = Whole(job[j].by, job[j].version)
      BY <2>0, <3>1 DEF ExportTypeOK
    <3>3. p \notin Name
      BY <2>0, <3>1, <3>2 DEF OwnReservation
    <3> QED
      BY <2>0, <3>1, <3>2, <3>3 DEF NoneOlder, Whole, Path
  <2>4. ASSUME NEW j \in Job, Fail(j)
        PROVE  FALSE
    <3>1. Unpublished(j) /\ job[j].path \in Name /\ file' = [file EXCEPT ![job[j].path] = Absent]
      BY <2>4 DEF Fail, Removes, Unpublished
    <3>2. p = job[j].path
      BY <2>0, <3>1 DEF ExportTypeOK
    <3> QED
      BY <2>0, <3>1, <3>2 DEF OwnReservation
  <2> QED
    BY <2>1, <2>2, <2>3, <2>4 DEF ExportNext, LogChanges, ExportContest, Written, Exported, Killed
<1> QED
  BY <1>1, ExportInitOK, ExportStepOK, PTL DEF ExportsStay

-----------------------------------------------------------------------------
(* The backup. *)

Steps == {"idle", "waiting", "upload db", "upload adi", "prune db", "prune adi", "done"}

BackupTypeOK ==
    /\ committed \in Nat /\ stamp \in Nat
    /\ background \in BOOLEAN
    /\ program \in {"running", "draining", "exiting", "exited"}
    /\ backup \in [Who -> [step : Steps, stamp : Nat, version : Nat, failed : BOOLEAN]]
    /\ remote \subseteq [kind : BackupKinds, stamp : Nat, version : Nat]

Working(w) == backup[w].step \notin {"idle", "waiting", "done"}

\* Whoever works holds the mutex and the newest name, and what is on the drive
\* under a name is one version of the log: that of its backup.
OneVersion ==
    /\ \A w \in Who : Working(w) =>
          /\ mutex = w /\ backup[w].stamp = stamp
          /\ \A f \in remote : f.stamp = stamp => f.version = backup[w].version
    /\ \A f \in remote : f.stamp <= stamp
    /\ \A f, g \in remote : f.stamp = g.stamp => f.version = g.version

BackupInv == BackupTypeOK /\ OneVersion

LEMMA BackupInitOK == BackupInit => BackupInv
<1> SUFFICES ASSUME BackupInit PROVE BackupInv
  OBVIOUS
<1>1. /\ committed = 0 /\ stamp = 0 /\ background = FALSE /\ program = "running" /\ remote = {}
      /\ backup = [w \in Who |-> [step |-> "idle", stamp |-> 0, version |-> 0, failed |-> FALSE]]
  BY DEF BackupInit, NoBackup
<1>2. BackupTypeOK
  BY <1>1 DEF BackupTypeOK, Steps
<1>3. OneVersion
  BY <1>1 DEF OneVersion, Working
<1> QED
  BY <1>2, <1>3 DEF BackupInv

\* While one works no other does.
LEMMA WorksAlone ==
    ASSUME OneVersion, NEW w \in Who, Working(w)
    PROVE  \A v \in Who \ {w} : ~Working(v)
BY DEF OneVersion

\* The order of the names is reflexive.
LEMMA LeqItself == \A n \in Nat : n <= n
OBVIOUS

\* What one backup's step does to the drive, and to nobody else.
LEMMA UploadOK ==
    ASSUME BackupInv, NEW w \in Who, Upload(w)
    PROVE  BackupInv'
<1>0. BackupTypeOK /\ OneVersion
  BY DEF BackupInv
<1>1. PICK kind \in BackupKinds, to \in {"upload adi", "prune db"}, bad \in BOOLEAN :
         /\ backup' = [backup EXCEPT ![w].step = to, ![w].failed = bad]
         /\ remote' \in {remote, Put(w, kind)}
  <2>1. PICK kind \in BackupKinds :
           \/ remote' = Put(w, kind) /\ backup' = [backup EXCEPT ![w].step =
                                            IF kind = "db" THEN "upload adi" ELSE "prune db"]
           \/ backup' = [backup EXCEPT ![w].step = "prune db", ![w].failed = TRUE] /\ UNCHANGED remote
    BY DEF Upload
  <2>2. backup[w].failed \in BOOLEAN
    BY <1>0 DEF BackupTypeOK
  <2>3. \A to : [backup EXCEPT ![w].step = to] = [backup EXCEPT ![w].step = to, ![w].failed = backup[w].failed]
    BY <1>0 DEF BackupTypeOK
  <2> QED
    BY <2>1, <2>2, <2>3
<1>2. Working(w) /\ UNCHANGED <<committed, background, program, mutex, stamp>>
  BY DEF Upload, Working
<1>3. /\ backup' \in [Who -> [step : Steps, stamp : Nat, version : Nat, failed : BOOLEAN]]
      /\ backup'[w].stamp = backup[w].stamp /\ backup'[w].version = backup[w].version
      /\ \A v \in Who \ {w} : backup'[v] = backup[v]
  BY <1>0, <1>1 DEF BackupTypeOK, Steps
<1>4. \A f \in remote' : \/ f \in remote
                         \/ /\ f.stamp = backup[w].stamp /\ f.version = backup[w].version
                            /\ f \in [kind : BackupKinds, stamp : Nat, version : Nat]
  <2>1. Put(w, kind) \subseteq remote \union
           {[kind |-> kind, stamp |-> backup[w].stamp, version |-> backup[w].version]}
    BY DEF Put, Contents
  <2>2. backup[w].stamp \in Nat /\ backup[w].version \in Nat
    BY <1>0 DEF BackupTypeOK
  <2>3. [kind |-> kind, stamp |-> backup[w].stamp, version |-> backup[w].version]
           \in [kind : BackupKinds, stamp : Nat, version : Nat]
    BY <2>2
  <2>4. CASE remote' = remote
    BY <2>4
  <2>5. CASE remote' = Put(w, kind)
    <3> SUFFICES ASSUME NEW f \in remote', f \notin remote
                 PROVE  /\ f.stamp = backup[w].stamp /\ f.version = backup[w].version
                        /\ f \in [kind : BackupKinds, stamp : Nat, version : Nat]
      OBVIOUS
    <3>1. f = [kind |-> kind, stamp |-> backup[w].stamp, version |-> backup[w].version]
      BY <2>1, <2>5
    <3> QED
      BY <2>3, <3>1
  <2> QED
    BY <1>1, <2>4, <2>5
<1>5. BackupTypeOK'
  BY <1>0, <1>2, <1>3, <1>4 DEF BackupTypeOK
<1>6. OneVersion'
  <2>1. \A v \in Who : Working(v)' => v = w
    BY <1>0, <1>2, <1>3, WorksAlone DEF Working
  <2>2. mutex' = w /\ backup'[w].stamp = stamp' /\ backup[w].stamp = stamp
    BY <1>0, <1>2, <1>3 DEF OneVersion
  <2>3. \A f \in remote' : f.stamp <= stamp /\ (f.stamp = stamp => f.version = backup[w].version)
    <3>1. stamp \in Nat
      BY <1>0 DEF BackupTypeOK
    <3>2. \A f \in remote : f.stamp <= stamp /\ (f.stamp = stamp => f.version = backup[w].version)
      BY <1>0, <1>2 DEF OneVersion
    <3>3. stamp <= stamp
      BY <3>1, LeqItself
    <3>4. backup[w].stamp = stamp
      BY <2>2
    <3> TAKE f \in remote'
    <3>5. CASE f \in remote
      BY <3>2, <3>5
    <3>6. CASE f.stamp = backup[w].stamp /\ f.version = backup[w].version
      BY <3>3, <3>4, <3>6
    <3> QED
      BY <1>4, <3>5, <3>6
  <2>4. \A f, g \in remote' : f.stamp = g.stamp => f.version = g.version
    BY <1>0, <1>4, <2>2, <2>3 DEF OneVersion
  <2> QED
    BY <1>2, <1>3, <2>1, <2>2, <2>3, <2>4 DEF OneVersion
<1> QED
  BY <1>5, <1>6 DEF BackupInv

LEMMA PruneOK ==
    ASSUME BackupInv, NEW w \in Who, Prune(w)
    PROVE  BackupInv'
<1>0. BackupTypeOK /\ OneVersion
  BY DEF BackupInv
<1>1. /\ Working(w) /\ UNCHANGED <<committed, background, program, stamp>>
      /\ remote' \subseteq remote
      /\ mutex' = IF backup'[w].step = "done" THEN NoOne ELSE mutex
  BY DEF Prune, Working
<1>2. PICK to \in {"prune db", "prune adi", "done"}, bad \in BOOLEAN :
         backup' = [backup EXCEPT ![w].step = to, ![w].failed = bad]
  <2>1. PICK kind \in BackupKinds :
          /\ backup[w].step = (IF kind = "db" THEN "prune db" ELSE "prune adi")
          /\ \/ backup' = [backup EXCEPT ![w].step = IF kind = "db" THEN "prune adi" ELSE "done"]
             \/ backup' = backup
             \/ backup' = [backup EXCEPT ![w].step = IF kind = "db" THEN "prune adi" ELSE "done",
                                         ![w].failed = TRUE]
    BY DEF Prune
  <2>2. backup[w].failed \in BOOLEAN
    BY <1>0 DEF BackupTypeOK
  <2>3. \A to : [backup EXCEPT ![w].step = to] = [backup EXCEPT ![w].step = to, ![w].failed = backup[w].failed]
    BY <1>0 DEF BackupTypeOK
  <2>4. backup = [backup EXCEPT ![w].step = backup[w].step, ![w].failed = backup[w].failed]
    BY <1>0 DEF BackupTypeOK
  <2> QED
    BY <2>1, <2>2, <2>3, <2>4
<1>3. /\ backup' \in [Who -> [step : Steps, stamp : Nat, version : Nat, failed : BOOLEAN]]
      /\ backup'[w].stamp = backup[w].stamp /\ backup'[w].version = backup[w].version
      /\ \A v \in Who \ {w} : backup'[v] = backup[v]
      /\ backup'[w].step = to
  BY <1>0, <1>2 DEF BackupTypeOK, Steps
<1>4. BackupTypeOK'
  BY <1>0, <1>1, <1>3 DEF BackupTypeOK
<1>5. OneVersion'
  <2>1. \A v \in Who : Working(v)' => v = w /\ mutex' = mutex
    BY <1>0, <1>1, <1>3, WorksAlone DEF Working
  <2>2. mutex = w /\ backup'[w].stamp = stamp' /\ backup[w].stamp = stamp
    BY <1>0, <1>1, <1>3 DEF OneVersion
  <2> QED
    BY <1>0, <1>1, <1>3, <2>1, <2>2 DEF OneVersion
<1> QED
  BY <1>4, <1>5 DEF BackupInv

LEMMA SnapshotOK ==
    ASSUME BackupInv, NEW w \in Who, Snapshot(w)
    PROVE  BackupInv'
<1>0. BackupTypeOK /\ OneVersion
  BY DEF BackupInv
<1>1. /\ mutex = NoOne /\ UNCHANGED <<committed, background, program, remote>>
      /\ backup[w].step = "waiting"
  BY DEF Snapshot
<1>2. \A v \in Who : ~Working(v)
  BY <1>0, <1>1 DEF OneVersion, Who, NoOne
<1>3. CASE /\ stamp' = stamp + 1 /\ mutex' = w
           /\ backup' = [backup EXCEPT ![w] = [step |-> "upload db", stamp |-> stamp + 1,
                                               version |-> committed, failed |-> FALSE]]
  <2>1. [step |-> "upload db", stamp |-> stamp + 1, version |-> committed, failed |-> FALSE]
           \in [step : Steps, stamp : Nat, version : Nat, failed : BOOLEAN]
    <3>1. stamp + 1 \in Nat /\ committed \in Nat
      BY <1>0 DEF BackupTypeOK
    <3>2. "upload db" \in Steps
      BY DEF Steps
    <3> QED
      BY <3>1, <3>2
  <2>2. /\ backup' \in [Who -> [step : Steps, stamp : Nat, version : Nat, failed : BOOLEAN]]
        /\ backup'[w].stamp = stamp'
        /\ \A v \in Who \ {w} : backup'[v] = backup[v]
    BY <1>0, <1>3, <2>1 DEF BackupTypeOK
  <2>3. BackupTypeOK'
    BY <1>0, <1>1, <1>3, <2>2 DEF BackupTypeOK
  <2>4. \A f \in remote : f.stamp \in Nat /\ f.stamp <= stamp
    BY <1>0 DEF OneVersion, BackupTypeOK
  <2>5. \A f \in remote : f.stamp # stamp' /\ f.stamp <= stamp'
    <3>1. stamp \in Nat /\ stamp' = stamp + 1
      BY <1>0, <1>3 DEF BackupTypeOK
    <3> QED
      BY <2>4, <3>1
  <2>6. \A v \in Who : Working(v)' => v = w
    BY <1>2, <2>2 DEF Working
  <2>7. OneVersion'
    BY <1>0, <1>1, <1>3, <2>2, <2>5, <2>6 DEF OneVersion
  <2> QED
    BY <2>3, <2>7 DEF BackupInv
<1>4. CASE /\ backup' = [backup EXCEPT ![w].step = "done", ![w].failed = TRUE]
           /\ UNCHANGED <<stamp, mutex>>
  <2>1. /\ backup' \in [Who -> [step : Steps, stamp : Nat, version : Nat, failed : BOOLEAN]]
        /\ \A v \in Who : ~Working(v)'
    BY <1>0, <1>2, <1>4 DEF BackupTypeOK, Steps, Working
  <2>2. BackupTypeOK'
    BY <1>0, <1>1, <1>4, <2>1 DEF BackupTypeOK
  <2>3. OneVersion'
    BY <1>0, <1>1, <1>4, <2>1 DEF OneVersion
  <2> QED
    BY <2>2, <2>3 DEF BackupInv
<1> QED
  BY <1>3, <1>4 DEF Snapshot

\* The steps of the program: none works on a backup, and a crash ends all.
LEMMA ProgramOK ==
    ASSUME BackupInv, LogEdited \/ Background \/ F8 \/ F8Reported \/ Quit \/ ExitBackup \/ Exit \/ Crash
    PROVE  BackupInv'
<1>0. BackupTypeOK /\ OneVersion
  BY DEF BackupInv
<1>1. /\ committed' \in Nat /\ stamp' = stamp /\ background' \in BOOLEAN
      /\ program' \in {"running", "draining", "exiting", "exited"}
      /\ remote' = remote
  <2>1. committed' \in {committed, committed + 1} /\ committed \in Nat
    BY <1>0 DEF BackupTypeOK, LogEdited, Background, F8, F8Reported, Quit, ExitBackup, Exit, Crash
  <2>2. background' \in {TRUE, FALSE, background} /\ background \in BOOLEAN
    BY <1>0 DEF BackupTypeOK, LogEdited, Background, F8, F8Reported, Quit, ExitBackup, Exit, Crash
  <2>3. stamp' = stamp /\ remote' = remote
    BY DEF LogEdited, Background, F8, F8Reported, Quit, ExitBackup, Exit, Crash
  <2>4. program' \in {program, "running", "draining", "exiting", "exited"}
    BY DEF LogEdited, Background, F8, F8Reported, Quit, ExitBackup, Exit, Crash
  <2>5. committed' \in Nat
    BY <2>1
  <2>6. background' \in BOOLEAN
    BY <2>2
  <2>7. program' \in {"running", "draining", "exiting", "exited"}
    BY <1>0, <2>4 DEF BackupTypeOK
  <2> QED
    BY <2>3, <2>5, <2>6, <2>7
<1>2. /\ backup' \in [Who -> [step : Steps, stamp : Nat, version : Nat, failed : BOOLEAN]]
      /\ \A w \in Who : Working(w)' => Working(w) /\ backup'[w] = backup[w] /\ mutex' = mutex
  <2>1. CASE UNCHANGED <<backup, mutex>>
    BY <1>0, <2>1 DEF BackupTypeOK, Working
  <2>2. CASE F8 \/ ExitBackup
    <3>1. PICK w \in Who : backup' = [backup EXCEPT ![w].step = "waiting"] /\ mutex' = mutex
      BY <2>2 DEF F8, ExitBackup, Who
    <3>2. /\ backup'[w].step = "waiting" /\ \A v \in Who \ {w} : backup'[v] = backup[v]
          /\ backup' \in [Who -> [step : Steps, stamp : Nat, version : Nat, failed : BOOLEAN]]
      BY <1>0, <3>1 DEF BackupTypeOK, Steps
    <3> QED
      BY <3>1, <3>2 DEF Working
  <2>3. CASE F8Reported
    BY <1>0, <2>3 DEF BackupTypeOK, Working, F8Reported, NoBackup, Steps, Who
  <2>4. CASE Crash
    BY <1>0, <2>4 DEF BackupTypeOK, Working, Crash, NoBackup, Steps, Who
  <2> QED
    BY <2>1, <2>2, <2>3, <2>4 DEF LogEdited, Background, Quit, Exit
<1>3. BackupTypeOK'
  BY <1>0, <1>1, <1>2 DEF BackupTypeOK
<1>4. OneVersion'
  BY <1>0, <1>1, <1>2 DEF OneVersion
<1> QED
  BY <1>3, <1>4 DEF BackupInv

\* The two files of one backup hold the same log, for any retention and any
\* number of backups and changes to the log (backupMu, runBackup).
THEOREM PairsAgreeHolds == BackupInit /\ [][BackupNext]_backupVars => []PairsAgree
<1>1. BackupInv /\ [BackupNext]_backupVars => BackupInv'
  <2> SUFFICES ASSUME BackupInv, [BackupNext]_backupVars PROVE BackupInv'
    OBVIOUS
  <2>1. CASE UNCHANGED backupVars
    BY <2>1 DEF backupVars, BackupInv, BackupTypeOK, OneVersion, Working
  <2>2. CASE BackupNext
    BY <2>2, ProgramOK, SnapshotOK, UploadOK, PruneOK DEF BackupNext
  <2> QED
    BY <2>1, <2>2
<1>2. BackupInv => PairsAgree
  BY DEF BackupInv, OneVersion, PairsAgree, Working
<1> QED
  BY <1>1, <1>2, BackupInitOK, PTL

-----------------------------------------------------------------------------
(* The backup on exit.  From its snapshot on nothing is committed, so that   *)
(* every file as new as it holds the whole log; and of the files of a kind,  *)
(* pruning deletes one only while there is another at least as new.          *)

OfKind(kind) == {f \in remote : f.kind = kind}

\* What is left of a kind when nothing of it has to go is no more than Keep.
LEMMA NoneDoomed ==
    ASSUME BackupTypeOK, NEW kind \in BackupKinds, OfKind(kind) \ Newest(kind) = {}
    PROVE  Cardinality(OfKind(kind)) <= Keep
<1>1. CASE OfKind(kind) = {}
  BY <1>1, FS_EmptySet, BackupConstantsOK
<1>2. CASE OfKind(kind) # {}
  <2> DEFINE T == {f.stamp : f \in OfKind(kind)}
  <2>1. T \in SUBSET Nat /\ T # {}
    BY <1>2 DEF OfKind, BackupTypeOK
  <2>2. PICK x \in T : \A y \in T : y >= x
    BY <2>1, LeastOf
  <2>3. PICK f \in OfKind(kind) : \A g \in OfKind(kind) : g.stamp >= f.stamp
    BY <2>2
  <2>4. {g \in OfKind(kind) : g.stamp >= f.stamp} = OfKind(kind)
    BY <2>3
  <2>5. f \in Newest(kind)
    OBVIOUS
  <2>6. Cardinality({g \in OfKind(kind) : g.stamp >= f.stamp}) <= Keep
    BY <2>5 DEF Newest, OfKind
  <2> QED
    BY <2>4, <2>6
<1> QED
  BY <1>1, <1>2

\* A file that has to go is not the only one as new as it is.
LEMMA DoomedIsNotLast ==
    ASSUME BackupTypeOK, IsFiniteSet(remote), NEW kind \in BackupKinds,
           NEW f \in OfKind(kind) \ Newest(kind)
    PROVE  \E g \in OfKind(kind) \ {f} : g.stamp >= f.stamp
<1> DEFINE G == {g \in OfKind(kind) : g.stamp >= f.stamp}
<1>1. ~(Cardinality(G) <= Keep)
  BY DEF Newest, OfKind
<1>2. SUFFICES ASSUME G \subseteq {f} PROVE FALSE
  OBVIOUS
<1>3. Cardinality(G) <= 1 /\ Cardinality(G) \in Nat
  <2>1. IsFiniteSet({f}) /\ Cardinality({f}) = 1
    BY FS_Singleton
  <2>2. IsFiniteSet(G) /\ Cardinality(G) <= Cardinality({f})
    BY <1>2, <2>1, FS_Subset
  <2> QED
    BY <2>1, <2>2, FS_CardinalityType
<1> HIDE DEF G
<1> QED
  BY <1>1, <1>3, BackupConstantsOK

SnapshotTaken == backup["exit"].step \notin {"idle", "waiting"} /\ ~backup["exit"].failed

Uploaded(kind) ==
    backup["exit"].step \in
       (IF kind = "db" THEN {"upload adi", "prune db", "prune adi", "done"}
        ELSE {"prune db", "prune adi", "done"})

PrunedTo(kind) == backup["exit"].step \in (IF kind = "db" THEN {"prune adi", "done"} ELSE {"done"})

Since == backup["exit"].stamp

ExitInv ==
    /\ IsFiniteSet(remote)
    /\ backup["exit"].step # "idle" => program \in {"exiting", "exited"}
    /\ program \in {"exiting", "exited"} => ~background
    /\ program = "exited" => backup["exit"].step = "done"
    /\ SnapshotTaken =>
          /\ backup["exit"].version = committed
          /\ Since <= stamp
          /\ \A f \in remote : f.stamp >= Since => f.version = committed
          /\ Working("f8") => Since < stamp /\ backup["f8"].version = committed
          /\ \A kind \in BackupKinds :
                /\ Uploaded(kind) => \E f \in OfKind(kind) : f.stamp >= Since
                /\ PrunedTo(kind) /\ stamp = Since => Cardinality(OfKind(kind)) <= Keep

LEMMA ExitInvProgram ==
    ASSUME BackupInv, ExitInv,
           LogEdited \/ Background \/ F8 \/ F8Reported \/ Quit \/ ExitBackup \/ Exit \/ Crash
    PROVE  ExitInv'
<1>0. backup \in [Who -> [step : Steps, stamp : Nat, version : Nat, failed : BOOLEAN]]
  BY DEF BackupInv, BackupTypeOK
<1>1. CASE Exit
  <2>1. /\ program = "exiting" /\ program' = "exited" /\ backup["exit"].step = "done"
        /\ UNCHANGED <<committed, background, backup, mutex, remote, stamp>>
    BY <1>1 DEF Exit
  <2> QED
    BY <2>1 DEF ExitInv, SnapshotTaken, Uploaded, PrunedTo, Since, OfKind, Working
<1>2. CASE ExitBackup \/ Crash
  <2>1. /\ backup'["exit"].step \in {"idle", "waiting"}
        /\ backup'["exit"].step # "idle" => program' = "exiting"
        /\ program' = "exited" => FALSE
        /\ program' = "exiting" => ~background'
        /\ remote' = remote
    BY <1>0, <1>2 DEF ExitBackup, Crash, Drained, NoBackup, Who
  <2> QED
    BY <2>1 DEF ExitInv, SnapshotTaken
<1>3. CASE LogEdited \/ Background \/ F8 \/ F8Reported \/ Quit
  <2>1. program \in {"running", "draining"}
    BY <1>3 DEF LogEdited, Background, F8, F8Reported, Quit, ExitInv, BackupInv, BackupTypeOK
  <2>2. backup["exit"].step = "idle"
    BY <2>1 DEF ExitInv
  <2>3. backup'["exit"] = backup["exit"] /\ remote' = remote
    BY <1>0, <1>3 DEF LogEdited, Background, F8, F8Reported, Quit, Who
  <2>4. program' \in {"running", "draining"}
    BY <1>3, <2>1 DEF LogEdited, Background, F8, F8Reported, Quit
  <2> QED
    BY <2>2, <2>3, <2>4 DEF ExitInv, SnapshotTaken
<1> QED
  BY <1>1, <1>2, <1>3

LEMMA ExitInvSnapshot ==
    ASSUME BackupInv, ExitInv, NEW w \in Who, Snapshot(w)
    PROVE  ExitInv'
<1>0. /\ backup \in [Who -> [step : Steps, stamp : Nat, version : Nat, failed : BOOLEAN]]
      /\ stamp \in Nat /\ \A f \in remote : f.stamp \in Nat /\ f.stamp <= stamp
  BY DEF BackupInv, BackupTypeOK, OneVersion
<1>1. /\ UNCHANGED <<committed, background, program, remote>> /\ backup[w].step = "waiting"
      /\ program # "exited"
  BY DEF Snapshot, Alive
<1>2. \A v \in Who : ~Working(v)
  BY DEF Snapshot, BackupInv, OneVersion, Who, NoOne
<1>3. ASSUME stamp' = stamp + 1,
             backup' = [backup EXCEPT ![w] = [step |-> "upload db", stamp |-> stamp + 1,
                                              version |-> committed, failed |-> FALSE]]
      PROVE  ExitInv'
  <2>1. CASE w = "exit"
    <3>1. /\ backup'["exit"] = [step |-> "upload db", stamp |-> stamp + 1, version |-> committed, failed |-> FALSE]
          /\ backup'["f8"] = backup["f8"]
      BY <1>0, <1>3, <2>1 DEF Who
    <3>2. \A f \in remote : ~(f.stamp >= stamp + 1)
      BY <1>0
    <3>3. /\ backup'["exit"].step = "upload db" /\ backup'["exit"].version = committed'
          /\ Since' = stamp + 1
      <4>1. /\ backup'["exit"].step = "upload db" /\ backup'["exit"].version = committed
            /\ backup'["exit"].stamp = stamp + 1
        <5> DEFINE new == [step |-> "upload db", stamp |-> stamp + 1, version |-> committed, failed |-> FALSE]
        <5>1. new.step = "upload db" /\ new.version = committed /\ new.stamp = stamp + 1
          OBVIOUS
        <5>2. backup'["exit"] = new
          BY <3>1
        <5> HIDE DEF new
        <5> QED
          BY <5>1, <5>2
      <4>2. committed' = committed
        BY <1>1
      <4> QED
        BY <4>1, <4>2, Zenon DEF Since
    <3>4. Since' <= stamp'
      <4>1. stamp + 1 \in Nat
        BY <1>0
      <4> QED
        BY <1>3, <3>3, <4>1, LeqItself
    <3>5. ~Working("f8")'
      BY <1>2, <3>1 DEF Working, Who
    <3>6. \A f \in remote' : f.stamp >= Since' => f.version = committed'
      BY <1>1, <3>2, <3>3
    <3>7. \A kind \in BackupKinds : ~Uploaded(kind)' /\ ~PrunedTo(kind)'
      BY <3>3 DEF Uploaded, PrunedTo
    <3>8. program' = program /\ program \in {"exiting", "exited"} /\ program # "exited"
      BY <1>1, <2>1 DEF ExitInv
    <3>9. IsFiniteSet(remote') /\ ~background'
      BY <1>1, <3>8 DEF ExitInv
    <3> QED
      BY <3>3, <3>4, <3>5, <3>6, <3>7, <3>8, <3>9 DEF ExitInv
  <2>2. CASE w = "f8"
    <3>1. /\ backup'["exit"] = backup["exit"]
          /\ backup'["f8"].version = committed
      BY <1>0, <1>3, <2>2 DEF Who
    <3>2. SnapshotTaken' => SnapshotTaken
      BY <3>1 DEF SnapshotTaken
    <3>3. SnapshotTaken => Since <= stamp' /\ Since < stamp' /\ stamp' # Since /\ Since' = Since
      <4>1. SnapshotTaken => Since <= stamp
        BY DEF ExitInv
      <4>2. Since \in Nat
        BY <1>0 DEF Since, Who
      <4>3. Since' = Since
        BY <3>1 DEF Since
      <4>4. stamp' = stamp + 1 /\ stamp \in Nat
        BY <1>0, <1>3
      <4> QED
        BY <4>1, <4>2, <4>3, <4>4
    <3> QED
      BY <1>1, <3>1, <3>2, <3>3 DEF ExitInv, Uploaded, PrunedTo, OfKind
  <2> QED
    BY <2>1, <2>2 DEF Who
<1>4. ASSUME backup' = [backup EXCEPT ![w].step = "done", ![w].failed = TRUE], UNCHANGED stamp
      PROVE  ExitInv'
  <2>1. CASE w = "exit"
    <3>1. backup'["exit"].failed = TRUE /\ backup'["exit"].step = "done"
      BY <1>0, <1>4, <2>1 DEF Who
    <3>2. program \in {"exiting", "exited"}
      BY <1>1, <2>1 DEF ExitInv
    <3> QED
      BY <1>1, <3>1, <3>2 DEF ExitInv, SnapshotTaken
  <2>2. CASE w = "f8"
    <3>1. backup'["exit"] = backup["exit"] /\ backup'["f8"].step = "done"
      BY <1>0, <1>4, <2>2 DEF Who
    <3> QED
      BY <1>1, <1>4, <3>1 DEF ExitInv, SnapshotTaken, Uploaded, PrunedTo, Since, OfKind, Working
  <2> QED
    BY <2>1, <2>2 DEF Who
<1> QED
  BY <1>3, <1>4 DEF Snapshot

\* A backup that works puts a new file under the newest name, or nothing.
LEMMA ExitInvUpload ==
    ASSUME BackupInv, ExitInv, NEW w \in Who, Upload(w)
    PROVE  ExitInv'
<1>0. /\ backup \in [Who -> [step : Steps, stamp : Nat, version : Nat, failed : BOOLEAN]]
      /\ BackupTypeOK /\ OneVersion
  BY DEF BackupInv, BackupTypeOK
<1>1. Working(w) /\ UNCHANGED <<committed, background, program, mutex, stamp>> /\ program # "exited"
  BY DEF Upload, Working, Alive
<1>2. backup[w].stamp = stamp /\ stamp \in Nat /\ Since \in Nat
  BY <1>0, <1>1 DEF OneVersion, BackupTypeOK, Since, Who
<1>3. SnapshotTaken => backup[w].version = committed /\ Since <= stamp
  BY <1>1 DEF ExitInv, Who
<1>4. ASSUME NEW kind \in BackupKinds, remote' = Put(w, kind),
             backup[w].step = (IF kind = "db" THEN "upload db" ELSE "upload adi"),
             backup' = [backup EXCEPT ![w].step = IF kind = "db" THEN "upload adi" ELSE "prune db"]
      PROVE  ExitInv'
  <2> DEFINE new == [kind |-> kind, stamp |-> backup[w].stamp, version |-> backup[w].version]
             kept == {f \in remote : ~(f.kind = kind /\ f.stamp = backup[w].stamp)}
  <2>1. remote' = kept \union {new}
    BY <1>4 DEF Put, Contents
  <2>2. /\ \A f \in remote' : f \in remote \/ f = new
        /\ new \in remote' /\ new.kind = kind /\ new.stamp = stamp /\ new.version = backup[w].version
        /\ \A f \in remote : f.kind # kind => f \in remote'
    BY <1>2, <2>1
  <2>3. IsFiniteSet(remote')
    <3>1. IsFiniteSet(kept)
      BY FS_Subset DEF ExitInv
    <3> QED
      BY <2>1, <3>1, FS_AddElement
  <2> HIDE DEF new, kept
  <2>4. /\ backup'[w].step = (IF kind = "db" THEN "upload adi" ELSE "prune db")
        /\ backup'[w].stamp = backup[w].stamp /\ backup'[w].version = backup[w].version
        /\ backup'[w].failed = backup[w].failed
        /\ \A v \in Who \ {w} : backup'[v] = backup[v]
    BY <1>0, <1>4
  <2>5. Since' = Since /\ backup'["exit"].version = backup["exit"].version
    BY <2>4 DEF Since, Who
  <2>6. backup'["exit"].step # "idle" => backup["exit"].step # "idle"
    BY <1>4, <2>4 DEF Who
  <2>7. SnapshotTaken' => SnapshotTaken
    BY <1>4, <2>4 DEF SnapshotTaken, Who
  <2>8. ASSUME SnapshotTaken PROVE \A f \in remote' : f.stamp >= Since => f.version = committed
    BY <1>3, <2>2, <2>8 DEF ExitInv
  <2>9. ASSUME SnapshotTaken, Working("f8")' PROVE Since < stamp /\ backup'["f8"].version = committed
    <3>1. Working("f8") /\ backup'["f8"].version = backup["f8"].version
      BY <1>1, <2>4, <2>9 DEF Working, Who
    <3> QED
      BY <2>9, <3>1 DEF ExitInv
  <2>10. ASSUME SnapshotTaken, NEW k \in BackupKinds, Uploaded(k)'
         PROVE  \E f \in remote' : f.kind = k /\ f.stamp >= Since
    <3>1. CASE k = kind
      BY <1>2, <1>3, <2>2, <2>10, <3>1
    <3>2. CASE k # kind
      <4>1. Uploaded(k)
        <5>1. CASE w = "f8"
          <6>1. backup'["exit"] = backup["exit"]
            BY <2>4, <5>1 DEF Who
          <6> QED
            BY <2>10, <6>1 DEF Uploaded
        <5>2. CASE w = "exit"
          <6>1. CASE kind = "db"
            BY <2>4, <2>10, <3>2, <5>2, <6>1 DEF Uploaded, BackupKinds
          <6>2. CASE kind = "adi"
            <7>1. k = "db" /\ backup["exit"].step = "upload adi"
              BY <1>4, <3>2, <5>2, <6>2 DEF BackupKinds
            <7> QED
              BY <7>1 DEF Uploaded
          <6> QED
            BY <6>1, <6>2 DEF BackupKinds
        <5> QED
          BY <5>1, <5>2 DEF Who
      <4>2. PICK f \in OfKind(k) : f.stamp >= Since
        BY <2>10, <4>1 DEF ExitInv
      <4> QED
        BY <2>2, <3>2, <4>2 DEF OfKind
    <3> QED
      BY <3>1, <3>2
  <2>11. ASSUME SnapshotTaken, NEW k \in BackupKinds, PrunedTo(k)' PROVE stamp # Since
    <3>1. w # "exit"
      BY <2>4, <2>11 DEF PrunedTo
    <3>2. Working("f8")
      BY <1>1, <3>1 DEF Who
    <3> QED
      BY <1>2, <2>11, <3>2 DEF ExitInv
  <2>12. /\ backup'["exit"].step # "idle" => program' \in {"exiting", "exited"}
         /\ program' \in {"exiting", "exited"} => ~background'
         /\ program' # "exited"
    BY <1>1, <2>6 DEF ExitInv
  <2>13. ASSUME SnapshotTaken PROVE backup'["exit"].version = committed' /\ Since' <= stamp'
    BY <1>1, <2>5, <2>13 DEF ExitInv
  <2> QED
    BY <1>1, <2>3, <2>5, <2>7, <2>8, <2>9, <2>10, <2>11, <2>12, <2>13 DEF ExitInv, OfKind
<1>5. ASSUME backup' = [backup EXCEPT ![w].step = "prune db", ![w].failed = TRUE], UNCHANGED remote
      PROVE  ExitInv'
  <2>1. /\ backup'[w].failed = TRUE /\ backup'[w].version = backup[w].version
        /\ \A v \in Who \ {w} : backup'[v] = backup[v]
    BY <1>0, <1>5
  <2>2. backup["exit"].step # "idle" \/ w = "f8"
    BY <1>1 DEF Working, Who
  <2>3. CASE w = "exit"
    BY <1>1, <1>5, <2>1, <2>2, <2>3 DEF ExitInv, SnapshotTaken
  <2>4. CASE w = "f8"
    <3>1. backup'["exit"] = backup["exit"]
      BY <2>1, <2>4 DEF Who
    <3>2. Working("f8")' => Working("f8")
      BY <1>1, <2>4
    <3> QED
      BY <1>1, <1>5, <2>1, <2>4, <3>1, <3>2 DEF ExitInv, SnapshotTaken, Uploaded, PrunedTo, Since, OfKind
  <2> QED
    BY <2>3, <2>4 DEF Who
<1> QED
  BY <1>4, <1>5 DEF Upload

\* Pruning deletes a file only while another as new stays, and passes on to
\* the next kind when no more has to go, or when it has failed.
LEMMA ExitInvPrune ==
    ASSUME BackupInv, ExitInv, NEW w \in Who, Prune(w)
    PROVE  ExitInv'
<1>0. /\ backup \in [Who -> [step : Steps, stamp : Nat, version : Nat, failed : BOOLEAN]]
      /\ BackupTypeOK /\ OneVersion
  BY DEF BackupInv, BackupTypeOK
<1>1. /\ Working(w) /\ UNCHANGED <<committed, background, program, stamp>> /\ program # "exited"
      /\ remote' \subseteq remote
  BY DEF Prune, Working, Alive
<1>2. IsFiniteSet(remote) /\ IsFiniteSet(remote')
  BY <1>1, FS_Subset DEF ExitInv
<1>3. stamp \in Nat /\ Since \in Nat
  BY <1>0 DEF BackupTypeOK, Since, Who
<1>4. PICK kind \in BackupKinds :
        LET doomed == OfKind(kind) \ Newest(kind)
            next == IF kind = "db" THEN "prune adi" ELSE "done" IN
        /\ backup[w].step = (IF kind = "db" THEN "prune db" ELSE "prune adi")
        /\ \/ doomed = {} /\ backup' = [backup EXCEPT ![w].step = next] /\ UNCHANGED remote
           \/ (\E f \in doomed : remote' = remote \ {f}) /\ UNCHANGED backup
           \/ backup' = [backup EXCEPT ![w].step = next, ![w].failed = TRUE] /\ UNCHANGED remote
  BY DEF Prune, OfKind
<1>5. ASSUME NEW f \in OfKind(kind) \ Newest(kind), remote' = remote \ {f}, UNCHANGED backup
      PROVE  ExitInv'
  <2>1. PICK g \in OfKind(kind) \ {f} : g.stamp >= f.stamp
    BY <1>0, <1>2, DoomedIsNotLast
  <2>2. /\ f.stamp \in Nat /\ \A h \in remote : h.stamp \in Nat
        /\ f.kind = kind /\ g.kind = kind /\ g \in remote'
    BY <1>0, <1>5, <2>1 DEF BackupTypeOK, OfKind
  <2>3. /\ UNCHANGED <<SnapshotTaken, Since>> /\ (Working("f8")' <=> Working("f8"))
        /\ \A k : (Uploaded(k)' <=> Uploaded(k)) /\ (PrunedTo(k)' <=> PrunedTo(k))
    BY <1>5 DEF SnapshotTaken, Since, Working, Uploaded, PrunedTo
  <2>4. ASSUME NEW k \in BackupKinds, NEW h \in OfKind(k), h.stamp >= Since
        PROVE  \E i \in OfKind(k)' : i.stamp >= Since
    <3>1. CASE h # f
      BY <1>5, <2>4, <3>1 DEF OfKind
    <3>2. CASE h = f
      <4>1. g \in OfKind(k)'
        BY <2>2, <2>4, <3>2 DEF OfKind
      <4>2. g.stamp >= Since
        <5>1. g.stamp \in Nat
          BY <1>1, <2>2
        <5> QED
          BY <1>3, <2>1, <2>2, <2>4, <3>2, <5>1
      <4> QED
        BY <4>1, <4>2
    <3> QED
      BY <3>1, <3>2
  <2>5. ASSUME NEW k \in BackupKinds, Cardinality(OfKind(k)) <= Keep
        PROVE  Cardinality(OfKind(k)') <= Keep
    <3>1. OfKind(k)' \subseteq OfKind(k) /\ IsFiniteSet(OfKind(k))
      BY <1>1, <1>2, FS_Subset DEF OfKind
    <3>2. /\ IsFiniteSet(OfKind(k)') /\ Cardinality(OfKind(k)') <= Cardinality(OfKind(k))
      BY <3>1, FS_Subset
    <3>3. Cardinality(OfKind(k)') \in Nat /\ Cardinality(OfKind(k)) \in Nat
      BY <3>1, <3>2, FS_CardinalityType
    <3> QED
      BY <2>5, <3>2, <3>3, BackupConstantsOK
  <2> QED
    BY <1>1, <1>2, <1>5, <2>3, <2>4, <2>5 DEF ExitInv
<1>6. ASSUME OfKind(kind) \ Newest(kind) = {}, UNCHANGED remote,
             backup[w].step = (IF kind = "db" THEN "prune db" ELSE "prune adi"),
             backup' = [backup EXCEPT ![w].step = IF kind = "db" THEN "prune adi" ELSE "done"]
      PROVE  ExitInv'
  <2>1. /\ backup'[w].step = (IF kind = "db" THEN "prune adi" ELSE "done")
        /\ backup'[w].stamp = backup[w].stamp /\ backup'[w].version = backup[w].version
        /\ backup'[w].failed = backup[w].failed
        /\ \A v \in Who \ {w} : backup'[v] = backup[v]
    BY <1>0, <1>6
  <2>2. Cardinality(OfKind(kind)) <= Keep
    BY <1>0, <1>6, NoneDoomed
  <2>3. Since' = Since /\ backup'["exit"].version = backup["exit"].version
    BY <2>1 DEF Since, Who
  <2>4. SnapshotTaken' => SnapshotTaken
    BY <1>6, <2>1 DEF SnapshotTaken, Who
  <2>5. backup'["exit"].step # "idle" => backup["exit"].step # "idle"
    BY <1>6, <2>1 DEF Who
  <2>6. /\ Working("f8")' => Working("f8")
        /\ backup'["f8"].version = backup["f8"].version
    BY <1>1, <2>1 DEF Working, Who
  <2>7. \A k \in BackupKinds : Uploaded(k)' => Uploaded(k)
    <3>1. CASE w = "f8"
      BY <2>1, <3>1 DEF Uploaded, Who
    <3>2. CASE w = "exit"
      BY <1>6, <3>2 DEF Uploaded, BackupKinds
    <3> QED
      BY <3>1, <3>2 DEF Who
  <2>8. \A k \in BackupKinds : PrunedTo(k)' => PrunedTo(k) \/ k = kind
    <3>1. CASE w = "f8"
      <4>1. backup'["exit"] = backup["exit"]
        BY <2>1, <3>1 DEF Who
      <4> QED
        BY <4>1 DEF PrunedTo
    <3>2. CASE w = "exit"
      <4>1. CASE kind = "db"
        BY <2>1, <3>2, <4>1 DEF PrunedTo, BackupKinds
      <4>2. CASE kind = "adi"
        BY <1>6, <3>2, <4>2 DEF PrunedTo, BackupKinds
      <4> QED
        BY <4>1, <4>2 DEF BackupKinds
    <3> QED
      BY <3>1, <3>2 DEF Who
  <2>9. \A k : OfKind(k)' = OfKind(k)
    BY <1>6 DEF OfKind
  <2> QED
    BY <1>1, <1>6, <2>2, <2>3, <2>4, <2>5, <2>6, <2>7, <2>8, <2>9 DEF ExitInv
<1>7. ASSUME UNCHANGED remote, NEW to \in {"prune adi", "done"},
             backup' = [backup EXCEPT ![w].step = to, ![w].failed = TRUE]
      PROVE  ExitInv'
  <2>1. /\ backup'[w].failed = TRUE /\ backup'[w].version = backup[w].version
        /\ \A v \in Who \ {w} : backup'[v] = backup[v]
    BY <1>0, <1>7
  <2>2. backup["exit"].step # "idle" \/ w = "f8"
    BY <1>1 DEF Working, Who
  <2>3. CASE w = "exit"
    BY <1>1, <1>7, <2>1, <2>2, <2>3 DEF ExitInv, SnapshotTaken
  <2>4. CASE w = "f8"
    <3>1. backup'["exit"] = backup["exit"]
      BY <2>1, <2>4 DEF Who
    <3>2. Working("f8")' => Working("f8")
      BY <1>1, <2>4
    <3> QED
      BY <1>1, <1>7, <2>1, <2>4, <3>1, <3>2 DEF ExitInv, SnapshotTaken, Uploaded, PrunedTo, Since, OfKind
  <2> QED
    BY <2>3, <2>4 DEF Who
<1> QED
  BY <1>4, <1>5, <1>6, <1>7

\* When the program has exited and its last backup has succeeded, the drive
\* holds the whole log in both forms and no more files than it may, for any
\* retention and any number of backups and changes (main, runBackup,
\* pruneRemoteBackups).
THEOREM ExitBackupCompleteHolds ==
    BackupInit /\ [][BackupNext]_backupVars => []ExitBackupComplete
<1> DEFINE Inv == BackupInv /\ ExitInv
<1>1. BackupInit => Inv
  <2> SUFFICES ASSUME BackupInit PROVE Inv
    OBVIOUS
  <2>1. /\ remote = {} /\ program = "running" /\ backup["exit"].step = "idle"
    BY DEF BackupInit, NoBackup, Who
  <2>2. ExitInv
    BY <2>1, FS_EmptySet DEF ExitInv, SnapshotTaken
  <2> QED
    BY <2>2, BackupInitOK
<1>2. Inv /\ [BackupNext]_backupVars => Inv'
  <2> SUFFICES ASSUME Inv, [BackupNext]_backupVars PROVE Inv'
    OBVIOUS
  <2>1. CASE UNCHANGED backupVars
    <3>1. BackupInv'
      BY <2>1 DEF backupVars, BackupInv, BackupTypeOK, OneVersion, Working
    <3>2. ExitInv'
      BY <2>1 DEF backupVars, ExitInv, SnapshotTaken, Uploaded, PrunedTo, Since, OfKind, Working
    <3> QED
      BY <3>1, <3>2
  <2>2. CASE BackupNext
    <3>1. BackupInv'
      BY <2>2, ProgramOK, SnapshotOK, UploadOK, PruneOK DEF BackupNext
    <3>2. ExitInv'
      BY <2>2, ExitInvProgram, ExitInvSnapshot, ExitInvUpload, ExitInvPrune DEF BackupNext
    <3> QED
      BY <3>1, <3>2
  <2> QED
    BY <2>1, <2>2
<1>3. Inv => ExitBackupComplete
  <2> SUFFICES ASSUME Inv, program = "exited", ~backup["exit"].failed, NEW kind \in BackupKinds
               PROVE  /\ stamp = Since => Cardinality(OfKind(kind)) <= Keep
                      /\ \E f \in remote : f.kind = kind /\ f.version = committed
    BY DEF ExitBackupComplete, Since, OfKind
  <2>1. backup["exit"].step = "done"
    BY DEF ExitInv
  <2>2. SnapshotTaken /\ Uploaded(kind) /\ PrunedTo(kind)
    BY <2>1 DEF SnapshotTaken, Uploaded, PrunedTo
  <2>3. PICK f \in OfKind(kind) : f.stamp >= Since
    BY <2>2 DEF ExitInv
  <2>4. f.kind = kind /\ f.version = committed /\ f \in remote
    BY <2>2, <2>3 DEF ExitInv, OfKind
  <2> QED
    BY <2>2, <2>4 DEF ExitInv
<1> QED
  BY <1>1, <1>2, <1>3, PTL
-----------------------------------------------------------------------------
(* QSO parties. *)

\* A log of finitely many contacts is finitely many credits, and the next id
\* is free.
PartyInv ==
    /\ party \subseteq Contact /\ IsFiniteSet(party)
    /\ IsFiniteSet(Counting(party))
    /\ lastNo \in Nat /\ \A p \in party : p.id <= lastNo
    /\ rules \in Rules

\* A contact is finitely many credits.
LEMMA CreditsFinite ==
    ASSUME NEW q \in Contact
    PROVE  IsFiniteSet(Credits(q))
<1>1. ASSUME NEW places \in Location PROVE IsFiniteSet(places)
  <2>1. CASE places \in Line
    <3>1. places \subseteq County
      BY <2>1, PartyConstantsOK
    <3> QED
      BY <3>1, PartyConstantsOK, FS_Subset
  <2>2. CASE places = Rejected
    BY <2>2, FS_EmptySet DEF Rejected
  <2>3. ASSUME NEW p \in Outside, places = {p} PROVE IsFiniteSet(places)
    BY <2>3, FS_Singleton
  <2> QED
    BY <2>1, <2>2, <2>3 DEF Location
<1>2. q.sent \in Location /\ q.rcvd \in Location
  BY DEF Contact
<1> DEFINE Pairs == q.sent \X q.rcvd
           Credit(p) == [call |-> q.call, band |-> q.band, home |-> p[1], away |-> p[2]]
           all == {Credit(p) : p \in Pairs}
<1>3. IsFiniteSet(Pairs)
  BY <1>1, <1>2, FS_Product
<1>4. IsFiniteSet(all)
  <2> DEFINE f == [p \in Pairs |-> Credit(p)]
  <2>1. f \in Surjection(Pairs, all)
    BY DEF Surjection
  <2> HIDE DEF f, all, Pairs
  <2> QED
    BY <1>3, <2>1, FS_Surjection
<1>5. Credits(q) \subseteq all
  <2> SUFFICES ASSUME NEW c \in Credits(q) PROVE c \in all
    OBVIOUS
  <2>1. PICK h \in q.sent, a \in q.rcvd :
           c = [call |-> q.call, band |-> q.band, home |-> h, away |-> a]
    BY DEF Credits
  <2>2. <<h, a>> \in Pairs /\ c = Credit(<<h, a>>)
    BY <2>1
  <2> QED
    BY <2>2
<1> HIDE DEF all
<1> QED
  BY <1>4, <1>5, FS_Subset

\* A log of finitely many credits earns finitely many multipliers.
LEMMA KeysFinite ==
    ASSUME NEW log, IsFiniteSet(Counting(log)), rules \in Rules
    PROVE  IsFiniteSet(AllKeys(log))
<1> DEFINE Kinds == {"county", "state", "dx"}
           Pairs == Counting(log) \X Kinds
           Of(c, kind) == <<kind, IF kind = "state" /\ c.away \in County THEN State ELSE c.away,
                            IF rules.per = "band" THEN c.band ELSE "any">>
           all == {Of(p[1], p[2]) : p \in Pairs}
<1>1. IsFiniteSet(Kinds)
  <2>1. IsFiniteSet({"county"})
    BY FS_Singleton
  <2>2. IsFiniteSet({"county"} \union {"state"})
    BY <2>1, FS_AddElement
  <2>3. IsFiniteSet(({"county"} \union {"state"}) \union {"dx"})
    BY <2>2, FS_AddElement
  <2>4. Kinds = ({"county"} \union {"state"}) \union {"dx"}
    OBVIOUS
  <2> QED
    BY <2>3, <2>4
<1>2. IsFiniteSet(all)
  <2> DEFINE f == [p \in Pairs |-> Of(p[1], p[2])]
  <2>1. IsFiniteSet(Pairs)
    BY <1>1, FS_Product
  <2>2. f \in Surjection(Pairs, all)
    BY DEF Surjection
  <2> HIDE DEF f, all, Pairs
  <2> QED
    BY <2>1, <2>2, FS_Surjection
<1>3. AllKeys(log) \subseteq all
  <2> SUFFICES ASSUME NEW c \in Counting(log), NEW k \in Keys(c)
               PROVE  k \in all
    BY DEF AllKeys
  <2>1. PICK kind \in CountedKinds(c.home) : k = Of(c, kind)
    BY DEF Keys
  <2>2. kind \in Kinds
    BY PartyConstantsOK DEF CountedKinds
  <2>3. <<c, kind>> \in Pairs
    BY <2>2
  <2> HIDE DEF Of
  <2> QED
    BY <2>1, <2>3
<1> HIDE DEF all
<1> QED
  BY <1>2, <1>3, FS_Subset

\* What one more contact, or a change of its flag, adds to what counts.
LEMMA CountingGrows ==
    ASSUME NEW log, NEW q
    PROVE  Counting(log \union {q}) \subseteq Counting(log) \union Credits(q)
BY DEF Counting

LEMMA CountingMonotone ==
    ASSUME NEW log, NEW less \in SUBSET log
    PROVE  Counting(less) \subseteq Counting(log)
BY DEF Counting

\* Every step leaves a log of finitely many contacts and credits.
LEMMA PartyStep == PartyInv /\ [PartyNext]_partyVars => PartyInv'
<1> SUFFICES ASSUME PartyInv, [PartyNext]_partyVars PROVE PartyInv'
  OBVIOUS
<1>1. ASSUME NEW q \in Contact, party' \subseteq party \union {q}, rules' = rules,
             lastNo' \in {lastNo, lastNo + 1}, q.id <= lastNo'
      PROVE  PartyInv'
  <2>1. IsFiniteSet(party \union {q}) /\ IsFiniteSet(Counting(party) \union Credits(q))
    BY CreditsFinite, FS_AddElement, FS_Union DEF PartyInv
  <2>2. Counting(party') \subseteq Counting(party) \union Credits(q)
    BY <1>1, CountingGrows, CountingMonotone
  <2>3. IsFiniteSet(party') /\ IsFiniteSet(Counting(party'))
    BY <1>1, <2>1, <2>2, FS_Subset
  <2>4. lastNo' \in Nat /\ \A p \in party' : p.id <= lastNo'
    <3>1. lastNo \in Nat /\ \A p \in party : p.id \in Nat /\ p.id <= lastNo
      BY PartyConstantsOK DEF PartyInv, Contact
    <3> QED
      BY <1>1, <3>1
  <2> QED
    BY <1>1, <2>3, <2>4 DEF PartyInv, Counting
<1>2. ASSUME NEW q \in Contact, NEW early \in BOOLEAN, LogParty(q, early) PROVE PartyInv'
  BY <1>1, <1>2 DEF LogParty, Contact
<1>3. ASSUME NEW q \in party, FlipUnscored(q) PROVE PartyInv'
  <2> DEFINE flipped == [q EXCEPT !.unscored = ~@]
  <2>1. flipped \in Contact /\ flipped.id <= lastNo
    BY DEF PartyInv, Contact
  <2>2. party' \subseteq party \union {flipped} /\ rules' = rules /\ lastNo' = lastNo
    BY <1>3 DEF FlipUnscored
  <2> HIDE DEF flipped
  <2> QED
    BY <1>1, <2>1, <2>2
<1>4. ASSUME NEW q \in party, DropContact(q) PROVE PartyInv'
  BY <1>1, <1>4 DEF DropContact, PartyInv
<1>5. CASE UNCHANGED <<party, lastNo, rules>>
  BY <1>5 DEF PartyInv, Counting
<1>6. ASSUME NEW p \in party, NEW call \in Worked, NEW band \in PartyBand,
             NEW sent \in Location, NEW rcvd \in Location, EditParty(p, call, band, sent, rcvd)
      PROVE  PartyInv'
  <2> DEFINE q == [p EXCEPT !.call = call, !.band = band, !.sent = sent, !.rcvd = rcvd]
  <2>1. q \in Contact /\ q.id <= lastNo
    <3>1. p \in Contact /\ p.id <= lastNo
      BY DEF PartyInv
    <3> QED
      BY <3>1 DEF Contact
  <2>2. party' \subseteq party \union {q} /\ rules' = rules /\ lastNo' = lastNo
    BY <1>6 DEF EditParty
  <2> HIDE DEF q
  <2> QED
    BY <1>1, <2>1, <2>2
<1> QED
  BY <1>2, <1>3, <1>4, <1>5, <1>6 DEF PartyNext, partyVars, SetDupeInParty, ForgetDupeBaseline

\* More of something finite is a greater number.
LEMMA MoreIsGreater ==
    ASSUME NEW S, NEW T, IsFiniteSet(T), S \subseteq T
    PROVE  /\ Cardinality(S) \in Nat /\ Cardinality(T) \in Nat
           /\ Cardinality(T) > Cardinality(S) <=> T \ S # {}
<1>1. IsFiniteSet(S) /\ Cardinality(S) <= Cardinality(T) /\ (Cardinality(S) = Cardinality(T) => S = T)
  BY FS_Subset
<1>2. Cardinality(S) \in Nat /\ Cardinality(T) \in Nat
  BY <1>1, FS_CardinalityType
<1>3. T \ S = {} <=> S = T
  OBVIOUS
<1> QED
  BY <1>1, <1>2, <1>3

\* A contact in the place of another makes no log longer.
LEMMA ReplacedIsNoMore ==
    ASSUME NEW log, IsFiniteSet(log), NEW p \in log, NEW q
    PROVE  ~(Cardinality((log \ {p}) \union {q}) > Cardinality(log))
<1> DEFINE n == Cardinality(log)
           rest == log \ {p}
<1>1. n \in Nat
  BY FS_CardinalityType
<1>2. IsFiniteSet(rest) /\ Cardinality(rest) = n - 1
  BY FS_RemoveElement
<1> HIDE DEF n, rest
<1>3. Cardinality(rest \union {q})
         = IF q \in rest THEN Cardinality(rest) ELSE Cardinality(rest) + 1
  BY <1>2, FS_AddElement
<1>4. Cardinality(rest \union {q}) \in {n - 1, n}
  BY <1>1, <1>2, <1>3
<1> QED
  BY <1>1, <1>4 DEF n, rest

\* A step that adds a contact to a log is one that logs it: an edit or a
\* change of the flag replaces one.
LEMMA AddedIsLogged ==
    ASSUME PartyInv, PartyNext, NEW q \in party' \ party,
           Cardinality(party') > Cardinality(party)
    PROVE  \E early \in BOOLEAN : LogParty(q, early)
<1>1. ASSUME NEW p \in Contact, NEW early \in BOOLEAN, LogParty(p, early)
      PROVE  LogParty(q, early)
  BY <1>1 DEF LogParty
<1>2. ASSUME NEW p \in party, DropContact(p) PROVE FALSE
  BY <1>2 DEF DropContact
<1>3. ASSUME NEW p \in party, FlipUnscored(p) PROVE FALSE
  BY <1>3, ReplacedIsNoMore DEF FlipUnscored, PartyInv
<1>4. ASSUME NEW p \in party, NEW call \in Worked, NEW band \in PartyBand,
             NEW sent \in Location, NEW rcvd \in Location, EditParty(p, call, band, sent, rcvd)
      PROVE  FALSE
  BY <1>4, ReplacedIsNoMore DEF EditParty, PartyInv
<1>5. ~SetDupeInParty /\ ~ForgetDupeBaseline
  BY DEF SetDupeInParty, ForgetDupeBaseline
<1> QED
  BY <1>1, <1>2, <1>3, <1>4, <1>5 DEF PartyNext

\* What the panel, the dupe check and the score say of a contact agree, for
\* any counties, rules and number of contacts (isPartyDupe, partyScore,
\* partyNewMultiplier).
THEOREM FlagsAgreeHolds == PartyInit /\ [][PartyNext]_partyVars => FlagsAgree
<1> DEFINE Agree ==
      \A q \in party' \ party :
          q.inPeriod /\ ~q.unscored /\ Cardinality(party') > Cardinality(party)
             /\ Credits(q) # {} =>
          /\ \/ Score(party').credits > Score(party).credits
             \/ Credits(q) \intersect Counting({p \in party : p.id \in before}) # {}
          /\ rules.mobile = 0 /\ rules.cap = 0 /\ ~rules.special =>
                (Score(party').multipliers > Score(party).multipliers
                    <=> NewMultiplier(party, q))
<1>1. PartyInit => PartyInv
  <2> SUFFICES ASSUME PartyInit PROVE PartyInv
    OBVIOUS
  <2>1. party = {} /\ Counting(party) = {} /\ lastNo = 0 /\ rules \in Rules
    BY DEF PartyInit, Counting
  <2> QED
    BY <2>1, FS_EmptySet DEF PartyInv
<1>2. PartyInv /\ [PartyNext]_partyVars => Agree
  <2> SUFFICES ASSUME PartyInv, [PartyNext]_partyVars,
                      NEW q \in party' \ party, q.inPeriod, ~q.unscored,
                      Cardinality(party') > Cardinality(party), Credits(q) # {}
               PROVE  /\ \/ Score(party').credits > Score(party).credits
                         \/ Credits(q) \intersect Counting({p \in party : p.id \in before}) # {}
                      /\ rules.mobile = 0 /\ rules.cap = 0 /\ ~rules.special =>
                            (Score(party').multipliers > Score(party).multipliers
                                <=> NewMultiplier(party, q))
    BY Zenon
  <2>0. PartyNext
    BY DEF partyVars
  <2>1. PICK early \in BOOLEAN : LogParty(q, early)
    BY <2>0, AddedIsLogged
  <2>2. party' = party \union {q} /\ rules' = rules /\ PartyInv'
    BY <2>1, PartyStep DEF LogParty
  <2>3. Counting(party') = Counting(party) \union Credits(q)
    BY <2>2 DEF Counting
  <2>4. AllKeys(party') = AllKeys(party) \union (UNION {Keys(c) : c \in Credits(q)})
    BY <2>3 DEF AllKeys
  <2> DEFINE old == Counting(party)
             new == Counting(party')
             renewed == Counting({p \in party : p.id \in before})
  <2>5. PICK c \in Credits(q) : c \in old => c \in renewed
    <3>1. PICK c \in Credits(q) :
             c \notin UNION {Credits(p) : p \in {p \in party :
                                p.inPeriod /\ p.id \notin before \union {q.id}}}
      BY <2>1 DEF LogParty, PartyDupe
    <3>2. \A p \in party : p.id # q.id
      <4>1. lastNo \in Nat /\ \A p \in party : p.id \in Nat /\ p.id <= lastNo
        BY PartyConstantsOK DEF PartyInv, Contact
      <4> QED
        BY <2>1, <4>1 DEF LogParty
    <3>3. ASSUME c \in old PROVE c \in renewed
      <4>1. PICK p \in party : p.inPeriod /\ ~p.unscored /\ c \in Credits(p)
        BY <3>3 DEF Counting
      <4>2. p.id \in before
        BY <3>1, <3>2, <4>1
      <4> QED
        BY <4>1, <4>2 DEF Counting
    <3> QED
      BY <3>1, <3>3
  <2>6. ASSUME c \notin old
        PROVE  /\ Cardinality(old) \in Nat /\ Cardinality(new) \in Nat
               /\ Cardinality(new) > Cardinality(old)
    <3>1. IsFiniteSet(new) /\ old \subseteq new /\ c \in new \ old
      BY <2>2, <2>3, <2>5, <2>6 DEF PartyInv, Counting
    <3> HIDE DEF old, new
    <3> QED
      BY <3>1, MoreIsGreater
  <2>7. \/ Score(party').credits > Score(party).credits
        \/ Credits(q) \intersect renewed # {}
    BY <2>2, <2>5, <2>6 DEF Score
  <2>8. ASSUME rules.mobile = 0, rules.cap = 0, ~rules.special
        PROVE  Score(party').multipliers > Score(party).multipliers
                  <=> NewMultiplier(party, q)
    <3> DEFINE earlier == AllKeys(party)
               later == AllKeys(party')
    <3>1. Operated(party) = {} /\ Operated(party') = {}
      BY <2>2, <2>8 DEF Operated
    <3>2. Cardinality(Operated(party)) = 0 /\ Cardinality(Operated(party')) = 0
      BY <3>1, FS_EmptySet
    <3>3. /\ Cardinality(earlier) \in Nat /\ Cardinality(later) \in Nat
          /\ Cardinality(later) > Cardinality(earlier) <=> later \ earlier # {}
      <4>1. IsFiniteSet(Counting(party')) /\ rules \in Rules
        BY <2>2 DEF PartyInv, Counting
      <4>2. IsFiniteSet(later) /\ earlier \subseteq later
        BY <2>4, <4>1, KeysFinite
      <4> HIDE DEF earlier, later
      <4> QED
        BY <4>2, MoreIsGreater
    <3>4. /\ Score(party).multipliers = Cardinality(earlier)
          /\ Score(party').multipliers = Cardinality(later)
      BY <2>2, <2>8, <3>2, <3>3 DEF Score
    <3>5. later \ earlier # {} <=> \E d \in Credits(q) : Keys(d) \ earlier # {}
      BY <2>4
    <3>6. NewMultiplier(party, q) <=> \E d \in Credits(q) : Keys(d) \ earlier # {}
      BY <2>8 DEF NewMultiplier
    <3> QED
      BY <3>3, <3>4, <3>5, <3>6
  <2> QED
    BY <2>7, <2>8
<1>3. PartyInv /\ [PartyNext]_partyVars => PartyInv'
  BY PartyStep
<1> QED
  BY <1>1, <1>2, <1>3, PTL DEF FlagsAgree
=============================================================================
