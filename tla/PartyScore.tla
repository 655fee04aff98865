----------------------------- MODULE PartyScore -----------------------------
(***************************************************************************)
(* QSO parties (qso_party_rules.go): a contact on a county line is one     *)
(* credit for each pair of counties, credits count once, and the dupe      *)
(* check, the score and the NEW MULT flag each work them out anew from the *)
(* log.  The exchanges stored with a contact say where its stations were.  *)
(* Of its time only what is asked is kept: whether it is in a period, and  *)
(* whether it is before the SETDUPE baseline.                              *)
(***************************************************************************)
EXTENDS Integers, FiniteSetsExt

CONSTANTS
    Worked,     \* the calls worked
    PartyBand,
    County,     \* the counties of the party's state
    State,      \* its postal code
    Outside, DX, \* the places outside the state, DX among them
    Line,       \* bound: the county lines met, as sets of counties
    BonusCall,
    Rules,      \* the rules to look at
    MaxContacts \* bound: contacts ever logged

ASSUME PartyConstantsOK ==
    /\ IsFiniteSet(County) /\ MaxContacts \in Nat
    /\ Line \subseteq SUBSET County \ {{}}
    /\ State \notin County \union Outside /\ Outside \cap County = {}
    /\ Rules \subseteq [per : {"band", "contest"}, home : SUBSET {"county", "state", "dx"},
                        countyAsState : BOOLEAN, cap : Nat, points : Nat \ {0},
                        mobile : Nat, special : BOOLEAN]

VARIABLES
    party,      \* the log of the party
    lastNo,     \* the last id handed out
    since,      \* a SETDUPE is in force (dupeBaselineAfter)
    before,     \* the ids of the contacts with a time before it
    rules       \* qsoPartyRules and who operates under them

partyVars == <<party, lastNo, since, before, rules>>

\* A location sent or received: some counties, a place outside, or a text
\* that partyExchange rejects.
Rejected == {}
Location == Line \union {{p} : p \in Outside} \union {Rejected}
InState(places) == places # Rejected /\ places \subseteq County

Contact == [id : 1..MaxContacts, call : Worked, band : PartyBand, sent : Location,
            rcvd : Location, unscored : BOOLEAN, inPeriod : BOOLEAN]

\* partyCredits and partyCreditKey
Credits(q) ==
    IF Rejected \in {q.sent, q.rcvd} \/ ~(InState(q.sent) \/ InState(q.rcvd)) THEN {}
    ELSE {[call |-> q.call, band |-> q.band, home |-> h, away |-> a] :
             h \in q.sent, a \in q.rcvd}

\* partyMultiplierKeys: for who is outside the state its counties count, for
\* who is inside what the rules say.
CountedKinds(home) == IF home \in County THEN rules.home ELSE {"county"}

Earned(kind, away) ==
    CASE kind = "county" -> away \in County
      [] kind = "state" -> IF away \in County THEN rules.countyAsState ELSE away # DX
      [] kind = "dx" -> away = DX

Keys(c) ==
    {<<kind, IF kind = "state" /\ c.away \in County THEN State ELSE c.away,
       IF rules.per = "band" THEN c.band ELSE "any">> :
        kind \in {k \in CountedKinds(c.home) : Earned(k, c.away)}}

\* What counts of a log: in a period, and not flagged unscored.
Counting(log) == UNION {Credits(q) : q \in {p \in log : p.inPeriod /\ ~p.unscored}}
AllKeys(log) == UNION {Keys(c) : c \in Counting(log)}

\* The counties that a mobile operated from often enough to count them, where
\* nobody in them was worked.
Operated(log) ==
    {h \in County :
        /\ rules.mobile > 0
        /\ Cardinality({c \in Counting(log) : c.home = h}) >= rules.mobile
        /\ ~\E k \in AllKeys(log) : k[1] = "county" /\ k[2] = h}

\* partyScore
Score(log) ==
    LET mults == Cardinality(AllKeys(log)) + Cardinality(Operated(log))
        all == Cardinality(Counting(log)) IN
    IF rules.special /\ all > 0
    THEN [credits |-> all, points |-> all, multipliers |-> 1, bonus |-> 0]
    ELSE [credits |-> all, points |-> all * rules.points,
          multipliers |-> IF rules.cap > 0 THEN Min({rules.cap, mults}) ELSE mults,
          bonus |-> Cardinality({b \in PartyBand : \E c \in Counting(log) :
                                    c.call = BonusCall /\ c.band = b})]

\* Mutant: a county line is new when all of it is.
NewMultiplierOfAll(log, q) ==
    /\ Credits(q) # {} /\ \A c \in Credits(q) : Keys(c) \ AllKeys(log) # {}
    /\ ~(rules.cap > 0 /\ Cardinality(AllKeys(log)) >= rules.cap)

\* partyNewMultiplier
NewMultiplier(log, q) ==
    /\ \E c \in Credits(q) : Keys(c) \ AllKeys(log) # {}
    /\ ~(rules.cap > 0 /\ Cardinality(AllKeys(log)) >= rules.cap)

\* isPartyDupe looks at unscored contacts, too, but at none out of period or
\* before the SETDUPE, nor at the contact that is edited itself.
PartyDupe(log, q) ==
    LET prior == {p \in log : p.inPeriod /\ p.id \notin before \union {q.id}} IN
    /\ Credits(q) # {}
    /\ Credits(q) \subseteq UNION {Credits(p) : p \in prior}
-----------------------------------------------------------------------------
PartyInit ==
    /\ party = {} /\ lastNo = 0
    /\ since = FALSE /\ before = {}
    /\ rules \in Rules

\* logCurrentQSO refuses a blank sent exchange; the received one is as typed.
\* In POST mode the time may be one before the SETDUPE.
LogParty(q, early) ==
    /\ q.id = lastNo + 1
    /\ ~q.unscored
    /\ early => since
    /\ ~PartyDupe(party, q)
    /\ party' = party \union {q}
    /\ lastNo' = q.id
    /\ before' = IF early THEN before \union {q.id} ELSE before
    /\ UNCHANGED <<since, rules>>

\* logCurrentQSO on an edited contact: its time and flag stay.
EditParty(p, call, band, sent, rcvd) ==
    LET q == [p EXCEPT !.call = call, !.band = band, !.sent = sent, !.rcvd = rcvd] IN
    /\ ~PartyDupe(party, q)
    /\ party' = (party \ {p}) \union {q}
    /\ UNCHANGED <<lastNo, since, before, rules>>

\* /X
FlipUnscored(q) ==
    /\ party' = (party \ {q}) \union {[q EXCEPT !.unscored = ~@]}
    /\ UNCHANGED <<lastNo, since, before, rules>>

DropContact(q) ==
    /\ party' = party \ {q}
    /\ UNCHANGED <<lastNo, since, before, rules>>

\* SETDUPE: all contacts so far are of an earlier time.
SetDupeInParty ==
    /\ since' = TRUE
    /\ before' = {q.id : q \in party}
    /\ UNCHANGED <<party, lastNo, rules>>

\* The event is selected again, also by a restart.
ForgetDupeBaseline ==
    /\ since' = FALSE
    /\ before' = {}
    /\ UNCHANGED <<party, lastNo, rules>>

PartyNext ==
    \/ \E q \in Contact, early \in BOOLEAN : LogParty(q, early)
    \/ \E p \in party, call \in Worked, band \in PartyBand, sent, rcvd \in Location :
          EditParty(p, call, band, sent, rcvd)
    \/ \E q \in party : FlipUnscored(q) \/ DropContact(q)
    \/ SetDupeInParty \/ ForgetDupeBaseline
-----------------------------------------------------------------------------
(* Properties. *)

\* The three agree: a contact that the dupe check lets in adds a credit to the
\* score, when it is in a period and its exchanges say where it was, unless
\* a SETDUPE let it in that repeats a credit of a contact before; and it
\* adds a multiplier exactly when it was flagged NEW MULT, where neither the
\* cap, nor a county that the mobile had counted as operated, nor a station
\* that earns no multipliers stands against it (isPartyDupe, partyScore,
\* partyNewMultiplier).
FlagsAgree ==
    [][\A q \in party' \ party :
          q.inPeriod /\ ~q.unscored /\ Cardinality(party') > Cardinality(party)
             /\ Credits(q) # {} =>
          /\ \/ Score(party').credits > Score(party).credits
             \/ Credits(q) \intersect Counting({p \in party : p.id \in before}) # {}
          /\ rules.mobile = 0 /\ rules.cap = 0 /\ ~rules.special =>
                (Score(party').multipliers > Score(party).multipliers
                    <=> NewMultiplier(party, q))]_partyVars
=============================================================================
