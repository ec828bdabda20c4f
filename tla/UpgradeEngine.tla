----------------------------- MODULE UpgradeEngine -----------------------------
(***************************************************************************)
(* The cutover of upgrade-to-2 (upgrade/phase-engine.ts): preflight,       *)
(* pause, drain, freeze, snapshot, destroy, done, resumed from the phase   *)
(* stamped in the snapshot file (upgrade/snapshot-v1.ts) when it was cut   *)
(* short, against a cluster whose sessions go on submitting, dispatching   *)
(* and being started.                                                      *)
(*                                                                         *)
(* A session is an ensemble and a role.  A scan is one step; it skips a    *)
(* row that does not answer and cuts off at its deadline, and its callers  *)
(* are not told (activities/resolve.ts).                                   *)
(***************************************************************************)
EXTENDS Naturals

CONSTANTS
  Ensembles,   \* names of ensembles
  Peers,       \* roles of an ensemble besides the conductor
  Sessions,    \* the sessions there can be: an ensemble and a role
  MaxEntries,  \* bound on the pending outbox entries of a session
  MaxFaults    \* bound on calls and scans that fail or fall short, and crashes

ASSUME UpgradePeersAssumption == "conductor" \notin Peers
ASSUME UpgradeSessionsAssumption == Sessions \subseteq Ensembles \X (Peers \cup {"conductor"})
ASSUME UpgradeBoundsAssumption == {MaxEntries, MaxFaults} \subseteq Nat

VARIABLES
  live,     \* running sessions
  frozen,   \* those paused: they submit, but do not dispatch
  outbox,   \* number of pending entries of each session
  sources,  \* scheduler and maestro of each ensemble: "up", "paused", "gone"
  disk,     \* the snapshot file, or NoSnapshot
  engine,   \* the run of the command
  faults,   \* things that went wrong so far
  hist      \* sessions destroyed and, of those at done, left over by an error

upgradeVars == <<live, frozen, outbox, sources, disk, engine, faults, hist>>
cluster == <<live, frozen, outbox, sources, hist>>

Conductor(e) == <<e, "conductor">>
Of(e) == {s \in Sessions : s[1] = e}

UpgradePhases == {"none", "snapshot", "destroy", "done"}
PhaseRank(d) == CASE d.phase = "none" -> 0
                  [] d.phase = "snapshot" -> 1
                  [] d.phase = "destroy" -> 2
                  [] d.phase = "done" -> 3
NoSnapshot == [phase |-> "none", names |-> {}, players |-> {}, stragglers |-> {}]
UpgradePoints ==
  {"off", "preflight", "confirm", "pause", "drain", "poll", "freeze", "capture", "write",
   "reassert", "stamp", "destroy", "peers", "conductor", "finish"}
Off == [at |-> "off", names |-> {}, left |-> {}, sessions |-> {}, pending |-> {},
        players |-> {}, forced |-> FALSE, ensemble |-> {}]

Faulty == faults < MaxFaults /\ faults' = faults + 1
Sound == UNCHANGED faults

Init ==
  /\ live \in {L \in SUBSET Sessions : L # {}}
  /\ frozen = {} /\ outbox = [s \in Sessions |-> 0]
  /\ sources = [e \in Ensembles |-> "up"]
  /\ disk = NoSnapshot /\ engine = Off /\ faults = 0
  /\ hist = [gone |-> {}, failed |-> {}]

-----------------------------------------------------------------------------
(* The sessions.  A command line may start one at any time.  One started   *)
(* under the name of a session that was destroyed is another session, of   *)
(* which nothing was captured, and is left out.                            *)

Recruit(s) ==
  /\ s \notin live /\ s \notin hist.gone
  /\ live' = live \cup {s}
  /\ UNCHANGED <<frozen, outbox, sources, disk, engine, faults, hist>>

Submit(s) ==
  /\ s \in live /\ outbox[s] < MaxEntries
  /\ outbox' = [outbox EXCEPT ![s] = @ + 1]
  /\ UNCHANGED <<live, frozen, sources, disk, engine, faults, hist>>

Dispatch(s) ==
  /\ s \in live \ frozen /\ outbox[s] > 0
  /\ outbox' = [outbox EXCEPT ![s] = @ - 1]
  /\ UNCHANGED <<live, frozen, sources, disk, engine, faults, hist>>

-----------------------------------------------------------------------------
(* scanEnsembleSessions: all running sessions, or fewer and a fault.       *)
ScanEnsembleSessions(e, found) ==
  /\ found \subseteq live \cap Of(e)
  /\ IF found = live \cap Of(e) THEN Sound ELSE Faulty

(* The loops over the ensembles of a phase, and what follows each.         *)
At(phase) == engine.at = phase
AfterLoop == {<<"pause", "drain">>, <<"drain", "poll">>, <<"freeze", "capture">>,
              <<"capture", "write">>, <<"reassert", "stamp">>, <<"destroy", "finish">>}
LeaveLoop ==
  /\ engine.left = {}
  /\ \E after \in UpgradePoints :
       /\ <<engine.at, after>> \in AfterLoop
       /\ engine' = [engine EXCEPT !.at = after,
                                   !.left = IF after = "poll" THEN engine.sessions
                                                              ELSE engine.names]
  /\ UNCHANGED <<cluster, disk, faults>>
InLoop(phase, e) == At(phase) /\ e \in engine.left

(* RESUME *)
ResumesLate == 2
ResumesFrom == 1
RunUpgradeToV2 ==
  /\ At("off") /\ disk.phase # "done"
  /\ engine' = IF PhaseRank(disk) >= ResumesFrom
                 THEN [Off EXCEPT !.at = "reassert", !.names = disk.names, !.left = disk.names]
                 ELSE [Off EXCEPT !.at = "preflight"]
  /\ UNCHANGED <<cluster, disk, faults>>

(* An error of the scan is swallowed, and what it found so far is used.    *)
EnumerateEnsembleNames(found) ==
  /\ At("preflight")
  /\ LET names == {s[1] : s \in live} IN
       found \subseteq names /\ IF found = names THEN Sound ELSE Faulty
  /\ engine' = [engine EXCEPT !.at = "confirm", !.names = found, !.left = found]
  /\ UNCHANGED <<cluster, disk>>

(* Refused for a version, a dry run, or declined. *)
PreflightStops ==
  /\ At("confirm")
  /\ engine' = Off
  /\ UNCHANGED <<cluster, disk, faults>>
Confirmed(forceDrain) ==
  /\ At("confirm")
  /\ engine' = [engine EXCEPT !.at = "pause", !.forced = forceDrain]
  /\ UNCHANGED <<cluster, disk, faults>>

Paused(e) == [sources EXCEPT ![e] = IF @ = "up" THEN "paused" ELSE @]
PauseMaestroAndScheduler(e) ==
  /\ InLoop("pause", e)
  /\ \/ sources' = Paused(e) /\ Sound
     \/ UNCHANGED sources /\ Faulty
  /\ engine' = [engine EXCEPT !.left = @ \ {e}]
  /\ UNCHANGED <<live, frozen, outbox, disk, hist>>

(* DRAIN: the sessions are scanned once, then their outboxes are asked in  *)
(* rounds.  One that does not answer counts as drained.                    *)
DrainScan(e, found) ==
  /\ InLoop("drain", e)
  /\ ScanEnsembleSessions(e, found)
  /\ engine' = [engine EXCEPT !.left = @ \ {e}, !.sessions = @ \cup found]
  /\ UNCHANGED <<cluster, disk>>

CollectPendingOutbox(s) ==
  /\ InLoop("poll", s)
  /\ \/ engine' = [engine EXCEPT !.left = @ \ {s},
                                 !.pending = IF outbox[s] > 0 THEN @ \cup {s} ELSE @] /\ Sound
     \/ engine' = [engine EXCEPT !.left = @ \ {s}] /\ Faulty
  /\ UNCHANGED <<cluster, disk>>

PollEnds == At("poll") /\ engine.left = {}
DrainAgain ==
  /\ PollEnds /\ engine.pending # {}
  /\ engine' = [engine EXCEPT !.left = engine.sessions, !.pending = {}]
  /\ UNCHANGED <<cluster, disk, faults>>
DrainStops ==
  /\ PollEnds /\ engine.pending # {} /\ ~engine.forced
  /\ engine' = Off
  /\ UNCHANGED <<cluster, disk, faults>>
Drained ==
  /\ PollEnds /\ (engine.pending = {} \/ engine.forced)
  /\ engine' = [engine EXCEPT !.at = "freeze", !.left = engine.names]
  /\ UNCHANGED <<cluster, disk, faults>>

SignalAllSessions(e, found) ==
  /\ ScanEnsembleSessions(e, found)
  /\ frozen' = frozen \cup found
  /\ engine' = [engine EXCEPT !.left = @ \ {e}]
  /\ UNCHANGED <<live, outbox, disk, hist>>

Freeze(e, found) ==
  InLoop("freeze", e) /\ SignalAllSessions(e, found) /\ UNCHANGED sources

ReassertPause(e, found) ==
  /\ InLoop("reassert", e)
  /\ SignalAllSessions(e, found)
  /\ sources' = Paused(e) \/ (UNCHANGED sources /\ faults' > faults)

(* SNAPSHOT *)
CaptureSnapshot(e, found) ==
  /\ InLoop("capture", e)
  /\ ScanEnsembleSessions(e, found)
  /\ engine' = [engine EXCEPT !.left = @ \ {e}, !.players = @ \cup found]
  /\ UNCHANGED <<cluster, disk>>

Captured == [phase |-> "snapshot", names |-> engine.names, players |-> engine.players,
             stragglers |-> engine.pending]
WriteUnstamped ==
  /\ At("write")
  /\ engine' = [engine EXCEPT !.at = "stamp"]
  /\ UNCHANGED <<cluster, disk, faults>>
WriteSnapshot ==
  /\ At("write")
  /\ disk' = Captured
  /\ engine' = [engine EXCEPT !.at = "stamp"]
  /\ UNCHANGED <<cluster, faults>>

(* destroyAndFinish: stamped before anything is torn down. *)
StampDestroy ==
  /\ At("stamp")
  /\ disk' = [disk EXCEPT !.phase = "destroy"]
  /\ engine' = [engine EXCEPT !.at = "destroy", !.left = engine.names]
  /\ UNCHANGED <<cluster, faults>>

(* destroyEnsemble scans again; what this scan misses stays.               *)
DestroyScan(e, found) ==
  /\ InLoop("destroy", e)
  /\ ScanEnsembleSessions(e, found)
  /\ engine' = [engine EXCEPT !.at = "peers", !.ensemble = {e}, !.sessions = found]
  /\ hist' = [hist EXCEPT !.failed = @ \cup ((live \cap Of(e)) \ found)]
  /\ UNCHANGED <<live, frozen, outbox, sources, disk>>

(* The update destroys the session, or fails and is passed over.           *)
DestroyUpdate(s) ==
  /\ engine' = [engine EXCEPT !.sessions = @ \ {s}]
  /\ \/ /\ live' = live \ {s} /\ frozen' = frozen \ {s}
        /\ outbox' = [outbox EXCEPT ![s] = 0]
        /\ hist' = [hist EXCEPT !.gone = @ \cup {s}]
        /\ Sound
     \/ /\ hist' = [hist EXCEPT !.failed = @ \cup {s}]
        /\ UNCHANGED <<live, frozen, outbox>>
        /\ Faulty
  /\ UNCHANGED <<sources, disk>>

DestroyAll == At("peers") /\ \E s \in engine.sessions : DestroyUpdate(s)
DestroyPeers ==
  At("peers") /\ \E s \in engine.sessions : s[2] \in Peers /\ DestroyUpdate(s)

TerminateSources(e) ==
  /\ At("peers") /\ e \in engine.ensemble /\ engine.sessions \subseteq {Conductor(e)}
  /\ \/ sources' = [sources EXCEPT ![e] = "gone"] /\ Sound
     \/ UNCHANGED sources /\ Faulty
  /\ engine' = [engine EXCEPT !.at = "conductor"]
  /\ UNCHANGED <<live, frozen, outbox, disk, hist>>

DestroyConductor ==
  At("conductor") /\ \E s \in engine.sessions : DestroyUpdate(s)

EnsembleAbandoned ==
  /\ At("conductor")
  /\ engine' = [engine EXCEPT !.at = "destroy", !.left = @ \ engine.ensemble, !.ensemble = {}]
  /\ UNCHANGED <<cluster, disk, faults>>
EnsembleDestroyed ==
  /\ At("conductor") /\ engine.sessions = {}
  /\ engine' = [engine EXCEPT !.at = "destroy", !.left = @ \ engine.ensemble, !.ensemble = {}]
  /\ UNCHANGED <<cluster, disk, faults>>

ReturnDone ==
  /\ At("finish")
  /\ engine' = Off
  /\ UNCHANGED <<cluster, disk, faults>>
StampDone ==
  /\ At("finish")
  /\ disk' = [disk EXCEPT !.phase = "done"]
  /\ engine' = Off
  /\ UNCHANGED <<cluster, faults>>

(* The command dies, or throws; it is run again. *)
Crash ==
  /\ ~At("off") /\ Faulty
  /\ engine' = Off
  /\ UNCHANGED <<cluster, disk>>

Cluster == \E s \in Sessions : Recruit(s) \/ Submit(s) \/ Dispatch(s)

Scans(e) == \E found \in SUBSET (live \cap Of(e)) :
              \/ DrainScan(e, found)
              \/ Freeze(e, found)
              \/ ReassertPause(e, found)
              \/ CaptureSnapshot(e, found)
              \/ DestroyScan(e, found)

Engine == \/ RunUpgradeToV2
          \/ \E found \in SUBSET {s[1] : s \in live} : EnumerateEnsembleNames(found)
          \/ \E forceDrain \in BOOLEAN : Confirmed(forceDrain)
          \/ LeaveLoop
          \/ \E e \in Ensembles : PauseMaestroAndScheduler(e) \/ Scans(e) \/ TerminateSources(e)
          \/ \E s \in engine.sessions : CollectPendingOutbox(s)
          \/ Drained
          \/ WriteSnapshot
          \/ StampDestroy
          \/ DestroyPeers
          \/ DestroyConductor
          \/ EnsembleDestroyed
          \/ StampDone

Next == Cluster \/ Engine \/ PreflightStops \/ DrainAgain \/ DrainStops \/ Crash

Spec == Init /\ [][Next]_upgradeVars

(* Who started a cutover that died runs it again. *)
FairSpec == Spec /\ WF_upgradeVars(Engine)

-----------------------------------------------------------------------------
(* Type invariant; a command that ended keeps nothing, and the snapshot    *)
(* holds players of the ensembles it names only.                           *)
TypeOK ==
  /\ live \subseteq Sessions /\ frozen \subseteq live
  /\ outbox \in [Sessions -> 0..MaxEntries]
  /\ sources \in [Ensembles -> {"up", "paused", "gone"}]
  /\ disk \in [phase : UpgradePhases, names : SUBSET Ensembles, players : SUBSET Sessions,
               stragglers : SUBSET Sessions]
  /\ engine \in [at : UpgradePoints, names : SUBSET Ensembles,
                 left : SUBSET (Ensembles \cup Sessions), sessions : SUBSET Sessions,
                 pending : SUBSET Sessions, players : SUBSET Sessions, forced : BOOLEAN,
                 ensemble : SUBSET Ensembles]
  /\ faults \in 0..MaxFaults
  /\ hist \in [gone : SUBSET Sessions, failed : SUBSET Sessions]
  /\ hist.gone \cap live = {}
  /\ engine.at = "off" => engine = Off
  /\ {s[1] : s \in disk.players} \subseteq disk.names

(* A session is torn down only when a snapshot that names its ensemble is  *)
(* on disk, stamped to resume into the teardown: whatever dies or throws,  *)
(* the command finds everything intact or a durable snapshot.              *)
CaptureBeforeDestroy ==
  hist.gone # {} => /\ disk.phase \in {"destroy", "done"}
                    /\ {s[1] : s \in hist.gone} \subseteq disk.names

(* Resuming never captures again: what the snapshot says of a cluster that *)
(* may be half torn down is kept, and its phase only advances.             *)
SnapshotIsKept ==
  [][disk.phase # "none" => /\ disk'.players = disk.players /\ disk'.names = disk.names
                            /\ PhaseRank(disk') >= PhaseRank(disk)]_upgradeVars

(* When the snapshot is stamped done, a captured player that still runs    *)
(* was missed by the scan for the teardown or failed its destroy.          *)
CapturedTornDown == disk.phase = "done" => disk.players \cap live \subseteq hist.failed

(* The conductor goes after its peers, so that it observes their teardown: *)
(* those left when it goes were missed, or failed, or came later.          *)
ConductorLast ==
  [][\A e \in Ensembles : Conductor(e) \in hist'.gone \ hist.gone
       => disk.players \cap live \cap Of(e) \subseteq hist.failed \cup {Conductor(e)}]_upgradeVars

(* A cutover that wrote its snapshot is finished, however often it dies.   *)
CutoverFinishes == disk.phase # "none" ~> disk.phase = "done"
=============================================================================
