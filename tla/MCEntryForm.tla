---------------------------- MODULE MCEntryForm ----------------------------
(***************************************************************************)
(* Small instances of EntryForm.  One run looks at six of them, and a      *)
(* behaviour belongs to one: two of lookups without a contest, and four of *)
(* contest operation without lookups, in each of which something is        *)
(* bounded lower than by EntryForm's own constants, whose product is too   *)
(* large.                                                                  *)
(***************************************************************************)
EXTENDS EntryForm, TLC

CONSTANTS LookupCall, LookupQRZ, LookupPOTA, LookupMap, LookupAccount

VARIABLE machine

\* One contact over two days; two of one day; and two of one day whose names
\* are typed as well.
Named == INSTANCE EntryForm WITH Id <- {1}, MaxSerial <- 1
Serials == INSTANCE EntryForm WITH MaxDay <- 1, Undated <- {}
Sessions == INSTANCE EntryForm WITH MaxDay <- 1, MaxSerial <- 1

\* One contact without a contest: lookups of the form, or of a form and the map.
Lookups == INSTANCE EntryForm WITH
    Call <- LookupCall, Id <- {1}, QRZSlot <- LookupQRZ, POTASlot <- LookupPOTA,
    Account <- LookupAccount, MaxSerial <- 0, MaxDay <- 1, Undated <- {}
MapLookups == INSTANCE EntryForm WITH
    Call <- LookupCall, Id <- {1}, QRZSlot <- LookupQRZ, MapSlot <- LookupMap,
    Account <- LookupAccount, MaxSerial <- 0, MaxDay <- 1, Undated <- {}

SixInit ==
    \/ /\ machine \in {"days", "named", "serials", "sessions"}
       /\ Init
    \/ machine = "lookups" /\ Lookups!Init
    \/ machine = "map" /\ MapLookups!Init

\* "days": two contacts over two days, and nothing typed.
SixNext ==
    /\ \/ machine = "days" /\ Next /\ ~onContest'
       \/ machine = "named" /\ Named!Next
       \/ machine = "serials" /\ Serials!Next
       \/ machine = "sessions" /\ Sessions!Next
       \/ machine = "lookups" /\ Lookups!Next
       \/ machine = "map" /\ MapLookups!Next
    /\ UNCHANGED machine

SixSpec == SixInit /\ [][SixNext]_<<vars, machine>>

\* Calls and lookups in flight are interchangeable: no action tells one from
\* another.
LookupSymmetry == Permutations(LookupCall) \union Permutations(LookupQRZ)
=============================================================================
