----------------------------- MODULE MCStation ------------------------------
(***************************************************************************)
(* Small instances of the machines that share no state with one another:   *)
(* the cluster connection, the spot list, rig control, the table of recent *)
(* contacts, exports and the backup.  A behaviour runs one of them and     *)
(* leaves the others at rest, so that TLC visits the sum of their states,  *)
(* not the product.                                                        *)
(***************************************************************************)
EXTENDS ClusterFeed, SpotList, RigPoll, RecentList, Exports, Backup

VARIABLE machine    \* the one that runs

stationVars == <<machine, feedVars, spotVars, rigVars, recentVars, exportVars,
                 backupVars>>

\* At rest: no callsign and no rig are set.
AtRest ==
    /\ machine # "feed" => callsign = Blank
    /\ machine # "rig" => addr = NoAddr

Init ==
    /\ machine \in {"feed", "spots", "rig", "recent", "exports", "backup"}
    /\ FeedInit /\ SpotInit /\ RigInit /\ RecentInit /\ ExportInit /\ BackupInit
    /\ AtRest

Next ==
    \/ /\ machine = "feed" /\ FeedNext
       /\ UNCHANGED <<machine, spotVars, rigVars, recentVars, exportVars, backupVars>>
    \/ /\ machine = "spots" /\ SpotNext
       /\ UNCHANGED <<machine, feedVars, rigVars, recentVars, exportVars, backupVars>>
    \/ /\ machine = "rig" /\ RigNext
       /\ UNCHANGED <<machine, feedVars, spotVars, recentVars, exportVars, backupVars>>
    \/ /\ machine = "recent" /\ RecentNext
       /\ UNCHANGED <<machine, feedVars, spotVars, rigVars, exportVars, backupVars>>
    \/ /\ machine = "exports" /\ ExportNext
       /\ UNCHANGED <<machine, feedVars, spotVars, rigVars, recentVars, backupVars>>
    \/ /\ machine = "backup" /\ BackupNext
       /\ UNCHANGED <<machine, feedVars, spotVars, rigVars, recentVars, exportVars>>

Spec == Init /\ [][Next]_stationVars /\ FeedFairness
=============================================================================
