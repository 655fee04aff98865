------------------------------ MODULE RigPoll ------------------------------
(***************************************************************************)
(* Rig control (rig.go, main.go): a chain of ticks, each asking rigctld    *)
(* for the frequency in a goroutine of its own, for an address that        *)
(* Station Setup may change or clear at any moment.  As in ClusterFeed,    *)
(* what the code stamps with rigGeneration is `current` or stale here.     *)
(***************************************************************************)
EXTENDS Naturals

CONSTANTS
    Addr, NoAddr,
    Poll,        \* bound: polls in flight; one takes up to four seconds and
                 \* the next starts after two
    Timer        \* bound: ticks scheduled

ASSUME RigConstantsOK == NoAddr \notin Addr

VARIABLES
    addr,       \* rigctldAddr
    poll,       \* the polls in flight
    timer,      \* the ticks scheduled
    shown,      \* rigFreqMHz and rigBand: the address they were read from
    field,      \* Band and Frequency: the address they were filled in from
    inQSO       \* ~rigAutofillEligible

rigVars == <<addr, poll, timer, shown, field, inQSO>>

Unused == [phase |-> "idle", from |-> NoAddr, current |-> FALSE]
Asked(a) == [phase |-> "asked", from |-> a, current |-> TRUE]

RigTypeOK ==
    LET Slot == [phase : {"idle", "asked", "answered", "failed"},
                 from : Addr \union {NoAddr}, current : BOOLEAN] IN
    /\ addr \in Addr \union {NoAddr}
    /\ poll \in [Poll -> Slot] /\ timer \in [Timer -> Slot]
    /\ {shown, field} \subseteq Addr \union {NoAddr}
    /\ inQSO \in BOOLEAN

\* rigGeneration++
StaleAll(slots) == [p \in DOMAIN slots |-> [slots[p] EXCEPT !.current = FALSE]]

\* Init starts a chain when an address is configured.
RigInit ==
    /\ addr \in Addr \union {NoAddr}
    /\ \E p \in Poll, t \in Timer :
          /\ poll = [q \in Poll |-> IF q = p /\ addr # NoAddr THEN Asked(addr) ELSE Unused]
          /\ timer = [u \in Timer |-> IF u = t /\ addr # NoAddr THEN Asked(addr) ELSE Unused]
    /\ shown = NoAddr /\ field = NoAddr
    /\ inQSO = FALSE

\* Mutant: the ticks of the old address go on beside the new ones.
StaleNone(slots) == slots

\* The slots as a changed address leaves them.
Retired(slots) == StaleAll(slots)

\* saveStationSetup with another address, or none
SaveAddr(a) ==
    /\ a # addr
    /\ addr' = a
    /\ shown' = NoAddr
    /\ IF a = NoAddr
       THEN poll' = Retired(poll) /\ timer' = Retired(timer)
       ELSE \E p \in Poll, t \in Timer :
               /\ poll[p].phase = "idle" /\ timer[t].phase = "idle"
               /\ poll' = [Retired(poll) EXCEPT ![p] = Asked(a)]
               /\ timer' = [Retired(timer) EXCEPT ![t] = Asked(a)]
    /\ UNCHANGED <<field, inQSO>>

\* rigTickMsg: a stale tick ends its chain.
Tick(t) ==
    /\ timer[t].phase # "idle"
    /\ IF timer[t].current /\ addr # NoAddr
       THEN /\ \E p \in Poll :
                  poll[p].phase = "idle" /\ poll' = [poll EXCEPT ![p] = Asked(addr)]
            /\ UNCHANGED timer
       ELSE /\ timer' = [timer EXCEPT ![t] = Unused]
            /\ UNCHANGED poll
    /\ UNCHANGED <<addr, shown, field, inQSO>>

\* rigctldFreqHz, of the address it was asked for
RigAnswers(p, how) ==
    /\ poll[p].phase = "asked"
    /\ poll' = [poll EXCEPT ![p].phase = how]
    /\ UNCHANGED <<addr, timer, shown, field, inQSO>>

\* rigStatusMsg.  A frequency outside every band is shown, not filled in.
RigStatus(p, inBand) ==
    /\ poll[p].phase \in {"answered", "failed"}
    /\ poll' = [poll EXCEPT ![p] = Unused]
    /\ IF poll[p].current /\ poll[p].phase = "answered"
       THEN /\ shown' = poll[p].from
            /\ field' = IF inBand /\ ~inQSO THEN poll[p].from ELSE field
       ELSE UNCHANGED <<shown, field>>
    /\ UNCHANGED <<addr, timer, inQSO>>

\* A call is typed, an edit begun, POST mode entered; and the form is idle again.
Operating ==
    /\ inQSO' = ~inQSO
    /\ UNCHANGED <<addr, poll, timer, shown, field>>

RigNext ==
    \/ \E a \in Addr \union {NoAddr} : SaveAddr(a)
    \/ \E t \in Timer : Tick(t)
    \/ \E p \in Poll : \/ \E how \in {"answered", "failed"} : RigAnswers(p, how)
                       \/ \E inBand \in BOOLEAN : RigStatus(p, inBand)
    \/ Operating
-----------------------------------------------------------------------------
(* Properties. *)

\* However often the address changes, one chain of ticks polls it and no
\* other goes on, and the frequency shown was read from it
\* (fetchRigStatusCmd, rigGeneration).
OneChain ==
    /\ (\E t \in Timer : timer[t].current) <=> addr # NoAddr
    /\ \A t, u \in Timer : timer[t].current /\ timer[u].current => t = u
    /\ \A p \in Poll : poll[p].current => poll[p].from = addr
    /\ shown \in {NoAddr, addr}
=============================================================================
