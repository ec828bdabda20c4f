-------------------------- MODULE UpgradeEngineProofs --------------------------
(***************************************************************************)
(* The cutover, for any ensembles, sessions and number of faults: nothing  *)
(* is torn down before a durable snapshot, the snapshot is kept, what it   *)
(* holds is torn down or known to have failed, the conductor last.         *)
(***************************************************************************)
EXTENDS UpgradeEngine, TLAPS

(* Before the snapshot is written, between that and the teardown, and the  *)
(* teardown itself.                                                        *)
Early == {"preflight", "confirm", "pause", "drain", "poll", "freeze", "capture", "write"}
Resumed == {"reassert", "stamp"}
Teardown == {"destroy", "peers", "conductor", "finish"}

PhasesFit ==
  /\ engine.at \in Early => disk.phase = "none"
  /\ engine.at \in Resumed => disk.phase \in {"snapshot", "destroy"} /\ engine.names = disk.names
  /\ engine.at \in Teardown => disk.phase = "destroy" /\ engine.names = disk.names

(* What a run captures, and goes through, is of the ensembles it found.    *)
LoopsFit ==
  /\ engine.at \in {"confirm", "pause", "drain", "freeze", "capture", "reassert", "destroy", "peers", "conductor"}
       => engine.left \subseteq engine.names
  /\ engine.at = "preflight" => engine.players = {}
  /\ {s[1] : s \in engine.players} \subseteq engine.names
  /\ engine.at \in {"peers", "conductor"} =>
       \E e \in engine.names : engine.ensemble = {e} /\ engine.sessions \subseteq Of(e)

(* Captured sessions run until they are destroyed. *)
CapturedKnown == engine.players \cup disk.players \subseteq live \cup hist.gone

(* What is left to tear down of an ensemble the teardown is at, or has     *)
(* passed.                                                                 *)
Remaining(e) == disk.players \cap live \cap Of(e)
PassedTornDown ==
  engine.at \in {"destroy", "peers", "conductor"} =>
    \A e \in disk.names \ engine.left : Remaining(e) \subseteq hist.failed
FinishedTornDown ==
  engine.at = "finish" => \A e \in disk.names : Remaining(e) \subseteq hist.failed
ScannedOrFailed ==
  /\ engine.at \in {"peers", "conductor"} =>
       \A e \in engine.ensemble : Remaining(e) \subseteq hist.failed \cup engine.sessions
  /\ engine.at = "conductor" =>
       \A e \in engine.ensemble : engine.sessions \subseteq {Conductor(e)}

UpgradeInv == /\ PhasesFit /\ LoopsFit
              /\ CaptureBeforeDestroy
              /\ CapturedKnown
              /\ PassedTornDown /\ FinishedTornDown /\ ScannedOrFailed
              /\ CapturedTornDown

-----------------------------------------------------------------------------
(* Types *)

LEMMA UpgradeInitTypes == Init => TypeOK
  BY UpgradeBoundsAssumption
  DEF Init, TypeOK, NoSnapshot, Off, UpgradePoints, UpgradePhases

LEMMA ClusterTypes == ASSUME TypeOK, Cluster PROVE TypeOK'
<1>. USE UpgradeBoundsAssumption DEF TypeOK
<1>1. ASSUME NEW s \in Sessions, Recruit(s) PROVE TypeOK'
  BY <1>1 DEF Recruit
<1>2. ASSUME NEW s \in Sessions, Submit(s) PROVE TypeOK'
  BY <1>2 DEF Submit
<1>3. ASSUME NEW s \in Sessions, Dispatch(s) PROVE TypeOK'
  BY <1>3 DEF Dispatch
<1>. QED  BY <1>1, <1>2, <1>3 DEF Cluster

LEMMA FoundAreSessions ==
  ASSUME TypeOK, NEW e, NEW found, ScanEnsembleSessions(e, found)
  PROVE  /\ found \subseteq Sessions /\ found \subseteq live /\ found \subseteq Of(e)
         /\ faults' \in 0..MaxFaults
  BY UpgradeBoundsAssumption DEF TypeOK, ScanEnsembleSessions, Faulty, Sound, Of

LEMMA ScanTypes ==
  ASSUME TypeOK, NEW e \in Ensembles, Scans(e) PROVE TypeOK'
<1>. USE DEF TypeOK, UpgradePoints
<1>1. ASSUME NEW found, DrainScan(e, found) PROVE TypeOK'
  BY <1>1, FoundAreSessions DEF DrainScan, InLoop, At, cluster
<1>2. ASSUME NEW found, Freeze(e, found) PROVE TypeOK'
  BY <1>2, FoundAreSessions DEF Freeze, SignalAllSessions, InLoop, At
<1>3. ASSUME NEW found, ReassertPause(e, found) PROVE TypeOK'
  <2>1. sources' \in [Ensembles -> {"up", "paused", "gone"}]
    BY <1>3 DEF ReassertPause, Paused
  <2>. QED  BY <1>3, <2>1, FoundAreSessions DEF ReassertPause, SignalAllSessions, InLoop, At
<1>4. ASSUME NEW found, CaptureSnapshot(e, found) PROVE TypeOK'
  BY <1>4, FoundAreSessions DEF CaptureSnapshot, InLoop, At, cluster
<1>5. ASSUME NEW found, DestroyScan(e, found) PROVE TypeOK'
  <2>1. /\ engine' = [engine EXCEPT !.at = "peers", !.ensemble = {e}, !.sessions = found]
        /\ hist' = [hist EXCEPT !.failed = hist.failed \cup ((live \cap Of(e)) \ found)]
        /\ UNCHANGED <<live, frozen, outbox, sources, disk>>
    BY <1>5 DEF DestroyScan
  <2>2. found \subseteq Sessions /\ live \subseteq Sessions /\ faults' \in 0..MaxFaults
    BY <1>5, FoundAreSessions DEF DestroyScan
  <2>3. hist' \in [gone : SUBSET Sessions, failed : SUBSET Sessions] /\ hist'.gone = hist.gone
    BY <2>1, <2>2
  <2>4. /\ engine' \in [at : UpgradePoints, names : SUBSET Ensembles,
                        left : SUBSET (Ensembles \cup Sessions), sessions : SUBSET Sessions,
                        pending : SUBSET Sessions, players : SUBSET Sessions,
                        forced : BOOLEAN, ensemble : SUBSET Ensembles]
        /\ engine'.at = "peers"
    BY <2>1, <2>2
  <2>. QED  BY <2>1, <2>2, <2>3, <2>4
<1>. QED  BY <1>1, <1>2, <1>3, <1>4, <1>5 DEF Scans

LEMMA DestroyUpdateTypes ==
  ASSUME TypeOK, NEW s \in engine.sessions, DestroyUpdate(s), engine.at # "off" PROVE TypeOK'
  BY UpgradeBoundsAssumption DEF DestroyUpdate, TypeOK, Faulty, Sound, UpgradePoints

LEMMA CommandTypes ==
  ASSUME TypeOK, UpgradeInv, Engine \/ PreflightStops \/ DrainAgain \/ DrainStops \/ Crash
  PROVE TypeOK'
<1>. USE UpgradeBoundsAssumption DEF TypeOK, UpgradePoints, UpgradePhases, Faulty, Sound, At, InLoop
<1>1. CASE RunUpgradeToV2
  BY <1>1 DEF RunUpgradeToV2, cluster, Off
<1>2. ASSUME NEW found, EnumerateEnsembleNames(found) PROVE TypeOK'
  <2>1. found \in SUBSET Ensembles /\ found \in SUBSET (Ensembles \cup Sessions)
    BY <1>2, UpgradeSessionsAssumption DEF EnumerateEnsembleNames
  <2>2. engine' = [engine EXCEPT !.at = "confirm", !.names = found, !.left = found]
    BY <1>2 DEF EnumerateEnsembleNames
  <2>3. faults' \in 0..MaxFaults
    BY <1>2 DEF EnumerateEnsembleNames
  <2>4. engine'.at = "confirm"
    BY <2>2
  <2>5. engine' \in [at : UpgradePoints, names : SUBSET Ensembles,
                    left : SUBSET (Ensembles \cup Sessions), sessions : SUBSET Sessions,
                    pending : SUBSET Sessions, players : SUBSET Sessions, forced : BOOLEAN,
                    ensemble : SUBSET Ensembles]
    BY <2>1, <2>2
  <2>. QED  BY <1>2, <2>3, <2>4, <2>5 DEF EnumerateEnsembleNames, cluster
<1>3. ASSUME NEW forceDrain \in BOOLEAN, Confirmed(forceDrain) PROVE TypeOK'
  BY <1>3 DEF Confirmed, cluster
<1>4. CASE LeaveLoop
  <2>1. PICK after \in UpgradePoints, left \in SUBSET (Ensembles \cup Sessions) :
          after # "off" /\ engine' = [engine EXCEPT !.at = after, !.left = left]
    BY <1>4 DEF LeaveLoop, AfterLoop
  <2>. QED  BY <1>4, <2>1 DEF LeaveLoop, cluster
<1>5. ASSUME NEW e \in Ensembles, PauseMaestroAndScheduler(e) PROVE TypeOK'
  <2>1. sources' \in [Ensembles -> {"up", "paused", "gone"}]
    BY <1>5 DEF PauseMaestroAndScheduler, Paused
  <2>. QED  BY <1>5, <2>1 DEF PauseMaestroAndScheduler
<1>6. ASSUME NEW e \in Ensembles, Scans(e) PROVE TypeOK'
  BY <1>6, ScanTypes
<1>7. ASSUME NEW e \in Ensembles, TerminateSources(e) PROVE TypeOK'
  BY <1>7 DEF TerminateSources
<1>8. ASSUME NEW s \in engine.sessions, CollectPendingOutbox(s) PROVE TypeOK'
  <2>1. PICK left \in SUBSET (Ensembles \cup Sessions), pending \in SUBSET Sessions :
          engine' = [engine EXCEPT !.left = left, !.pending = pending]
    <3>1. engine.pending \in SUBSET Sessions /\ engine.pending \cup {s} \in SUBSET Sessions
      OBVIOUS
    <3>2. engine.left \ {s} \in SUBSET (Ensembles \cup Sessions)
      OBVIOUS
    <3>3. \/ engine' = [engine EXCEPT !.left = engine.left \ {s},
                                      !.pending = engine.pending \cup {s}]
          \/ engine' = [engine EXCEPT !.left = engine.left \ {s}, !.pending = engine.pending]
          \/ engine' = [engine EXCEPT !.left = engine.left \ {s}]
      BY <1>8 DEF CollectPendingOutbox
    <3>4. [engine EXCEPT !.left = engine.left \ {s}]
            = [engine EXCEPT !.left = engine.left \ {s}, !.pending = engine.pending]
      OBVIOUS
    <3>. QED  BY <3>1, <3>2, <3>3, <3>4
  <2>2. engine'.at = engine.at /\ engine.at = "poll" /\ faults' \in 0..MaxFaults
    BY <1>8, <2>1 DEF CollectPendingOutbox
  <2>3. engine' \in [at : UpgradePoints, names : SUBSET Ensembles,
                    left : SUBSET (Ensembles \cup Sessions), sessions : SUBSET Sessions,
                    pending : SUBSET Sessions, players : SUBSET Sessions, forced : BOOLEAN,
                    ensemble : SUBSET Ensembles]
    BY <2>1
  <2>. QED  BY <1>8, <2>2, <2>3 DEF CollectPendingOutbox, cluster
<1>9. CASE Drained \/ DrainAgain
  BY <1>9 DEF Drained, DrainAgain, PollEnds, cluster
<1>10. CASE WriteSnapshot
  <2>1. {s[1] : s \in engine.players} \subseteq engine.names
    BY DEF UpgradeInv, LoopsFit
  <2>. QED  BY <1>10, <2>1 DEF WriteSnapshot, Captured, cluster
<1>11. CASE StampDestroy
  BY <1>11 DEF StampDestroy, cluster
<1>12. CASE DestroyPeers \/ DestroyConductor
  BY <1>12, DestroyUpdateTypes DEF DestroyPeers, DestroyConductor
<1>13. CASE EnsembleDestroyed
  BY <1>13 DEF EnsembleDestroyed, cluster
<1>14. CASE StampDone
  BY <1>14 DEF StampDone, cluster, Off
<1>15. CASE PreflightStops \/ DrainStops \/ Crash
  <2>1. engine' = Off /\ UNCHANGED <<cluster, disk>> /\ faults' \in 0..MaxFaults
    BY <1>15 DEF PreflightStops, DrainStops, Crash
  <2>. QED  BY <2>1 DEF cluster, Off
<1>. QED
  BY <1>1, <1>2, <1>3, <1>4, <1>5, <1>6, <1>7, <1>8, <1>9, <1>10, <1>11, <1>12, <1>13, <1>14,
     <1>15 DEF Engine

LEMMA UpgradeNextTypes == TypeOK /\ UpgradeInv /\ [Next]_upgradeVars => TypeOK'
<1>1. TypeOK /\ UNCHANGED upgradeVars => TypeOK'
  BY DEF TypeOK, upgradeVars
<1>. QED  BY <1>1, ClusterTypes, CommandTypes DEF Next

-----------------------------------------------------------------------------
(* The invariant *)

LEMMA UpgradeInitInv == Init => UpgradeInv
  BY DEF Init, UpgradeInv, PhasesFit, LoopsFit, CaptureBeforeDestroy, CapturedKnown, PassedTornDown,
         FinishedTornDown, ScannedOrFailed, CapturedTornDown, Remaining, NoSnapshot, Off,
         Early, Resumed, Teardown

(* Outside the teardown nothing is claimed of it. *)
LEMMA NotTearingDown ==
  ASSUME engine'.at \notin Teardown
  PROVE  PassedTornDown' /\ FinishedTornDown' /\ ScannedOrFailed'
  BY DEF Teardown, PassedTornDown, FinishedTornDown, ScannedOrFailed

(* A session that starts is none that was captured. *)
LEMMA ClusterInv == ASSUME TypeOK, UpgradeInv, Cluster PROVE UpgradeInv'
<1>. USE DEF UpgradeInv
<1>1. UNCHANGED <<disk, engine, hist>> /\ live \subseteq live'
  BY DEF Cluster, Recruit, Submit, Dispatch
<1>2. disk.players \cap live' = disk.players \cap live
  <2>1. ASSUME NEW s \in Sessions, Recruit(s) PROVE disk.players \cap live' = disk.players \cap live
    BY <2>1 DEF Recruit, CapturedKnown
  <2>2. ASSUME NEW s \in Sessions, Submit(s) \/ Dispatch(s) PROVE live' = live
    BY <2>2 DEF Submit, Dispatch
  <2>. QED  BY <2>1, <2>2 DEF Cluster
<1>3. \A e : Remaining(e)' = Remaining(e)
  BY <1>1, <1>2 DEF Remaining, Of
<1>4. PhasesFit' /\ LoopsFit' /\ CaptureBeforeDestroy' /\ CapturedTornDown'
  BY <1>1, <1>2 DEF PhasesFit, LoopsFit, CaptureBeforeDestroy, CapturedTornDown, Of
<1>5. CapturedKnown'
  BY <1>1 DEF CapturedKnown
<1>6. PassedTornDown' /\ FinishedTornDown' /\ ScannedOrFailed'
  BY <1>1, <1>3 DEF PassedTornDown, FinishedTornDown, ScannedOrFailed, Conductor
<1>. QED  BY <1>4, <1>5, <1>6

(* A step of the command outside the teardown that touches no session and  *)
(* not the snapshot.                                                       *)
LEMMA QuietInv ==
  ASSUME UpgradeInv, UNCHANGED <<live, hist, disk>>, engine'.at \notin Teardown,
         PhasesFit', LoopsFit', engine'.players \subseteq live \cup hist.gone
  PROVE  UpgradeInv'
<1>1. CaptureBeforeDestroy' /\ CapturedTornDown'
  BY DEF UpgradeInv, CaptureBeforeDestroy, CapturedTornDown
<1>2. CapturedKnown'
  BY DEF UpgradeInv, CapturedKnown
<1>. QED  BY <1>1, <1>2, NotTearingDown DEF UpgradeInv

LEMMA StartsInv ==
  ASSUME TypeOK, UpgradeInv, RunUpgradeToV2 \/ PreflightStops \/ DrainStops \/ Crash PROVE UpgradeInv'
<1>1. UNCHANGED <<live, hist, disk>>
  BY DEF RunUpgradeToV2, PreflightStops, DrainStops, Crash, cluster
<1>2. CASE engine' = Off
  <2>1. engine'.at = "off" /\ engine'.players = {}
    BY <1>2 DEF Off
  <2>2. PhasesFit' /\ LoopsFit'
    BY <2>1 DEF PhasesFit, LoopsFit, Early, Resumed, Teardown
  <2>. QED  BY <1>1, <2>1, <2>2, QuietInv DEF Teardown
<1>3. CASE engine' = [Off EXCEPT !.at = "reassert", !.names = disk.names, !.left = disk.names]
           /\ disk.phase \in {"snapshot", "destroy"}
  <2>1. engine'.at = "reassert" /\ engine'.players = {} /\ engine'.names = disk.names
        /\ engine'.left = disk.names
    BY <1>3 DEF Off
  <2>2. PhasesFit' /\ LoopsFit'
    BY <1>1, <1>3, <2>1 DEF PhasesFit, LoopsFit, Early, Resumed, Teardown
  <2>. QED  BY <1>1, <2>1, <2>2, QuietInv DEF Teardown
<1>4. CASE engine' = [Off EXCEPT !.at = "preflight"] /\ disk.phase = "none"
  <2>1. engine'.at = "preflight" /\ engine'.players = {}
    BY <1>4 DEF Off
  <2>2. PhasesFit' /\ LoopsFit'
    BY <1>1, <1>4, <2>1 DEF PhasesFit, LoopsFit, Early, Resumed, Teardown
  <2>. QED  BY <1>1, <2>1, <2>2, QuietInv DEF Teardown
<1>5. RunUpgradeToV2 => \/ engine' = [Off EXCEPT !.at = "reassert", !.names = disk.names, !.left = disk.names]
                           /\ disk.phase \in {"snapshot", "destroy"}
                        \/ engine' = [Off EXCEPT !.at = "preflight"] /\ disk.phase = "none"
  BY DEF RunUpgradeToV2, PhaseRank, ResumesFrom, TypeOK, UpgradePhases
<1>. QED  BY <1>2, <1>3, <1>4, <1>5 DEF PreflightStops, DrainStops, Crash

(* Up to the snapshot: no session goes, and none is captured but one that  *)
(* was found running.                                                      *)
LEMMA EarlyInv ==
  ASSUME TypeOK, UpgradeInv, UNCHANGED <<live, hist, disk>>, engine.at \in Early, engine'.at \in Early,
         engine'.players \subseteq engine.players \cup live,
         {s[1] : s \in engine'.players} \subseteq engine'.names,
         engine'.at # "preflight",
         engine'.at # "poll" => engine'.left \subseteq engine'.names
  PROVE  UpgradeInv'
<1>1. PhasesFit'
  BY DEF UpgradeInv, PhasesFit, Early, Resumed, Teardown
<1>2. LoopsFit'
  BY DEF LoopsFit, Early
<1>3. engine'.players \subseteq live \cup hist.gone
  BY DEF UpgradeInv, CapturedKnown
<1>. QED  BY <1>1, <1>2, <1>3, QuietInv DEF Early, Teardown

LEMMA PreparationInv ==
  ASSUME TypeOK, UpgradeInv,
         \/ \E found \in SUBSET {s[1] : s \in live} : EnumerateEnsembleNames(found)
         \/ \E forceDrain \in BOOLEAN : Confirmed(forceDrain)
         \/ Drained \/ DrainAgain
         \/ \E s \in engine.sessions : CollectPendingOutbox(s)
         \/ \E e \in Ensembles : PauseMaestroAndScheduler(e)
         \/ \E e \in Ensembles : \E found : DrainScan(e, found) \/ Freeze(e, found) \/ CaptureSnapshot(e, found)
  PROVE  UpgradeInv'
<1>. USE DEF At, InLoop, Early, cluster
<1>0. LoopsFit
  BY DEF UpgradeInv
<1>1. ASSUME NEW found, EnumerateEnsembleNames(found) PROVE UpgradeInv'
  <2>1. /\ UNCHANGED <<live, hist, disk>> /\ engine.at = "preflight"
        /\ engine' = [engine EXCEPT !.at = "confirm", !.names = found, !.left = found]
    BY <1>1 DEF EnumerateEnsembleNames
  <2>2. engine'.at = "confirm" /\ engine'.left = found /\ engine'.names = found /\ engine'.players = {}
    BY <2>1, <1>0 DEF LoopsFit, TypeOK
  <2>. QED  BY <2>1, <2>2, EarlyInv
<1>2. ASSUME NEW forceDrain, Confirmed(forceDrain) PROVE UpgradeInv'
  <2>0. UpgradeInv => (engine.at = "confirm" => engine.left \subseteq engine.names)
    BY DEF UpgradeInv, LoopsFit
  <2>1. /\ UNCHANGED <<live, hist, disk>> /\ engine.at = "confirm"
        /\ engine' = [engine EXCEPT !.at = "pause", !.forced = forceDrain]
    BY <1>2 DEF Confirmed
  <2>2. /\ engine'.at = "pause" /\ engine'.left = engine.left /\ engine'.names = engine.names
        /\ engine'.players = engine.players
    BY <2>1 DEF TypeOK
  <2>. QED  BY <1>0, <2>0, <2>1, <2>2, EarlyInv DEF LoopsFit
<1>3. CASE Drained \/ DrainAgain
  <2>1. UNCHANGED <<live, hist, disk>> /\ engine.at = "poll"
    BY <1>3 DEF Drained, DrainAgain, PollEnds
  <2>2. CASE engine' = [engine EXCEPT !.at = "freeze", !.left = engine.names]
    <3>1. /\ engine'.names = engine.names /\ engine'.players = engine.players
          /\ engine'.at = "freeze" /\ engine'.left = engine.names
      BY <2>2 DEF TypeOK
    <3>. QED  BY <1>0, <2>1, <3>1, EarlyInv DEF LoopsFit
  <2>3. CASE engine' = [engine EXCEPT !.left = engine.sessions, !.pending = {}]
    <3>1. /\ engine'.names = engine.names /\ engine'.players = engine.players
          /\ engine'.at = engine.at
      BY <2>3 DEF TypeOK
    <3>. QED  BY <1>0, <2>1, <3>1, EarlyInv DEF LoopsFit
  <2>. QED  BY <1>3, <2>2, <2>3 DEF Drained, DrainAgain
<1>4. ASSUME NEW s \in engine.sessions, CollectPendingOutbox(s) PROVE UpgradeInv'
  <2>1. UNCHANGED <<live, hist, disk>> /\ engine.at = "poll"
    BY <1>4 DEF CollectPendingOutbox
  <2>2. /\ engine'.names = engine.names /\ engine'.players = engine.players
        /\ engine'.at = engine.at
    BY <1>4 DEF CollectPendingOutbox, TypeOK
  <2>. QED  BY <1>0, <2>1, <2>2, EarlyInv DEF LoopsFit
<1>5. ASSUME NEW e \in Ensembles, NEW found,
             \/ PauseMaestroAndScheduler(e)
             \/ DrainScan(e, found) \/ Freeze(e, found) \/ CaptureSnapshot(e, found)
      PROVE  UpgradeInv'
  <2>1. /\ UNCHANGED <<live, hist, disk>> /\ engine.at \in {"pause", "drain", "freeze", "capture"}
        /\ engine.at # "pause" => found \subseteq live /\ found \subseteq Of(e) /\ e \in engine.left
    <3>1. CASE PauseMaestroAndScheduler(e)
      BY <3>1 DEF PauseMaestroAndScheduler
    <3>2. CASE DrainScan(e, found)
      <4>1. found \subseteq live \cap Of(e)
        BY <3>2 DEF DrainScan, ScanEnsembleSessions
      <4>. QED  BY <3>2, <4>1 DEF DrainScan
    <3>3. CASE Freeze(e, found)
      <4>1. found \subseteq live \cap Of(e)
        BY <3>3 DEF Freeze, SignalAllSessions, ScanEnsembleSessions
      <4>. QED  BY <3>3, <4>1 DEF Freeze, SignalAllSessions
    <3>4. CASE CaptureSnapshot(e, found)
      <4>1. found \subseteq live \cap Of(e)
        BY <3>4 DEF CaptureSnapshot, ScanEnsembleSessions
      <4>. QED  BY <3>4, <4>1 DEF CaptureSnapshot
    <3>. QED  BY <1>5, <3>1, <3>2, <3>3, <3>4
  <2>2. /\ engine'.names = engine.names /\ engine'.at = engine.at /\ engine'.left = engine.left \ {e}
        /\ engine'.players \in {engine.players, engine.players \cup found}
        /\ engine.at = "pause" => engine'.players = engine.players
    <3>1. CASE engine' = [engine EXCEPT !.left = @ \ {e}]
      BY <3>1 DEF TypeOK
    <3>2. CASE engine' = [engine EXCEPT !.left = @ \ {e}, !.sessions = @ \cup found]
      BY <3>2 DEF TypeOK
    <3>3. CASE engine' = [engine EXCEPT !.left = @ \ {e}, !.players = @ \cup found] /\ engine.at # "pause"
      BY <3>3 DEF TypeOK
    <3>. QED
      BY <1>5, <3>1, <3>2, <3>3
      DEF PauseMaestroAndScheduler, DrainScan, Freeze, CaptureSnapshot, SignalAllSessions
  <2>3. engine'.left \subseteq engine'.names
    BY <1>0, <2>1, <2>2 DEF LoopsFit
  <2>4. {s[1] : s \in engine'.players} \subseteq engine'.names
    BY <1>0, <2>1, <2>2 DEF LoopsFit, Of
  <2>5. engine'.players \subseteq engine.players \cup live
    BY <2>1, <2>2
  <2>. QED  BY <2>1, <2>2, <2>3, <2>4, <2>5, EarlyInv
<1>. QED  BY <1>1, <1>2, <1>3, <1>4, <1>5

LEMMA ReassertInv ==
  ASSUME TypeOK, UpgradeInv, NEW e, NEW found, ReassertPause(e, found) PROVE UpgradeInv'
<1>1. /\ UNCHANGED <<live, hist, disk>> /\ engine.at = "reassert"
      /\ engine' = [engine EXCEPT !.left = @ \ {e}]
  BY DEF ReassertPause, SignalAllSessions, InLoop, At
<1>2. /\ engine'.at = "reassert" /\ engine'.left = engine.left \ {e} /\ engine'.names = engine.names
      /\ engine'.players = engine.players
  BY <1>1 DEF TypeOK
<1>3. PhasesFit' /\ LoopsFit'
  BY <1>1, <1>2 DEF UpgradeInv, PhasesFit, LoopsFit, Early, Resumed, Teardown
<1>. QED  BY <1>1, <1>2, <1>3, QuietInv DEF UpgradeInv, CapturedKnown, Teardown

-----------------------------------------------------------------------------
(* The snapshot, its stamps and the teardown *)

LEMMA WriteInv ==
  ASSUME TypeOK, UpgradeInv, WriteSnapshot PROVE UpgradeInv'
<1>1. /\ UNCHANGED <<live, hist>> /\ engine.at = "write" /\ disk' = Captured
      /\ engine' = [engine EXCEPT !.at = "stamp"]
  BY DEF WriteSnapshot, At, cluster
<1>2. disk'.phase = "snapshot" /\ disk'.names = engine.names /\ disk'.players = engine.players
  BY <1>1 DEF Captured
<1>3. engine'.at = "stamp" /\ engine'.names = engine.names /\ engine'.players = engine.players
  BY <1>1 DEF TypeOK
<1>4. hist.gone = {}
  BY <1>1 DEF UpgradeInv, PhasesFit, CaptureBeforeDestroy, Early
<1>5. PhasesFit' /\ LoopsFit'
  BY <1>2, <1>3 DEF UpgradeInv, PhasesFit, LoopsFit, Early, Resumed, Teardown
<1>6. CaptureBeforeDestroy' /\ CapturedKnown' /\ CapturedTornDown'
  BY <1>1, <1>2, <1>3, <1>4 DEF UpgradeInv, CaptureBeforeDestroy, CapturedKnown, CapturedTornDown
<1>. QED  BY <1>3, <1>5, <1>6, NotTearingDown DEF UpgradeInv, Teardown

LEMMA StampInv ==
  ASSUME TypeOK, UpgradeInv, StampDestroy PROVE UpgradeInv'
<1>1. /\ UNCHANGED <<live, hist>> /\ engine.at = "stamp"
      /\ disk' = [disk EXCEPT !.phase = "destroy"]
      /\ engine' = [engine EXCEPT !.at = "destroy", !.left = engine.names]
  BY DEF StampDestroy, At, cluster
<1>2. disk'.phase = "destroy" /\ disk'.names = disk.names /\ disk'.players = disk.players
  BY <1>1 DEF TypeOK
<1>3. /\ engine'.at = "destroy" /\ engine'.names = engine.names /\ engine'.players = engine.players
      /\ engine'.left = engine.names
  BY <1>1 DEF TypeOK
<1>4. engine.names = disk.names
  BY <1>1 DEF UpgradeInv, PhasesFit, Resumed
<1>5. PhasesFit' /\ LoopsFit'
  BY <1>2, <1>3, <1>4 DEF UpgradeInv, PhasesFit, LoopsFit, Early, Resumed, Teardown
<1>6. CaptureBeforeDestroy' /\ CapturedKnown' /\ CapturedTornDown'
  BY <1>1, <1>2, <1>3 DEF UpgradeInv, CaptureBeforeDestroy, CapturedKnown, CapturedTornDown
<1>7. PassedTornDown' /\ FinishedTornDown' /\ ScannedOrFailed'
  BY <1>2, <1>3, <1>4 DEF PassedTornDown, FinishedTornDown, ScannedOrFailed
<1>. QED  BY <1>5, <1>6, <1>7 DEF UpgradeInv

LEMMA DestroyScanInv ==
  ASSUME TypeOK, UpgradeInv, NEW e, NEW found, DestroyScan(e, found) PROVE UpgradeInv'
<1>1. /\ UNCHANGED <<live, disk>> /\ engine.at = "destroy" /\ e \in engine.left
      /\ engine' = [engine EXCEPT !.at = "peers", !.ensemble = {e}, !.sessions = found]
      /\ hist' = [hist EXCEPT !.failed = @ \cup ((live \cap Of(e)) \ found)]
      /\ found \subseteq Of(e)
  BY DEF DestroyScan, InLoop, At, ScanEnsembleSessions
<1>2. hist'.gone = hist.gone /\ hist'.failed = hist.failed \cup ((live \cap Of(e)) \ found)
  BY <1>1 DEF TypeOK
<1>3. /\ engine'.at = "peers" /\ engine'.names = engine.names /\ engine'.players = engine.players
      /\ engine'.left = engine.left /\ engine'.ensemble = {e} /\ engine'.sessions = found
  BY <1>1 DEF TypeOK
<1>4. PhasesFit'
  BY <1>1, <1>3 DEF UpgradeInv, PhasesFit, Early, Resumed, Teardown
<1>5. LoopsFit'
  <2>1. LoopsFit /\ e \in engine.names
    BY <1>1 DEF UpgradeInv, LoopsFit
  <2>2. Of(e)' = Of(e)
    BY DEF Of
  <2>. QED  BY <1>1, <1>3, <2>1, <2>2 DEF LoopsFit
<1>6. CaptureBeforeDestroy' /\ CapturedKnown' /\ CapturedTornDown'
  BY <1>1, <1>2, <1>3
  DEF UpgradeInv, PhasesFit, Teardown, CaptureBeforeDestroy, CapturedKnown, CapturedTornDown
<1>7. \A x : Remaining(x)' = Remaining(x)
  BY <1>1 DEF Remaining, Of
<1>8. PassedTornDown' /\ FinishedTornDown'
  BY <1>1, <1>2, <1>3, <1>7 DEF UpgradeInv, PassedTornDown, FinishedTornDown
<1>9. ScannedOrFailed'
  <2>1. Remaining(e) \subseteq hist'.failed \cup found
    BY <1>2 DEF Remaining
  <2>. QED  BY <1>3, <1>7, <2>1 DEF ScannedOrFailed
<1>. QED  BY <1>4, <1>5, <1>6, <1>8, <1>9 DEF UpgradeInv

LEMMA DestroyUpdateInv ==
  ASSUME TypeOK, UpgradeInv, engine.at \in {"peers", "conductor"},
         NEW s \in engine.sessions, DestroyUpdate(s)
  PROVE  UpgradeInv'
<1>1. disk' = disk /\ engine' = [engine EXCEPT !.sessions = @ \ {s}]
  BY DEF DestroyUpdate
<1>2. /\ engine'.at = engine.at /\ engine'.names = engine.names /\ engine'.players = engine.players
      /\ engine'.left = engine.left /\ engine'.ensemble = engine.ensemble
      /\ engine'.sessions = engine.sessions \ {s}
  BY <1>1 DEF TypeOK
<1>3. \/ live' = live \ {s} /\ hist'.gone = hist.gone \cup {s} /\ hist'.failed = hist.failed
      \/ live' = live /\ hist'.gone = hist.gone /\ hist'.failed = hist.failed \cup {s}
  <2>1. CASE live' = live \ {s} /\ hist' = [hist EXCEPT !.gone = @ \cup {s}]
    BY <2>1 DEF TypeOK
  <2>2. CASE live' = live /\ hist' = [hist EXCEPT !.failed = @ \cup {s}]
    BY <2>2 DEF TypeOK
  <2>. QED  BY <2>1, <2>2 DEF DestroyUpdate
<1>4. PICK e \in engine.names : engine.ensemble = {e} /\ engine.sessions \subseteq Of(e)
  BY DEF UpgradeInv, LoopsFit
<1>5. disk.phase = "destroy" /\ engine.names = disk.names
  BY DEF UpgradeInv, PhasesFit, Teardown
<1>6. s[1] = e
  BY <1>4 DEF Of
<1>7. PhasesFit'
  BY <1>1, <1>2 DEF UpgradeInv, PhasesFit, Early, Resumed, Teardown
<1>8. LoopsFit'
  <2>1. Of(e)' = Of(e)
    BY DEF Of
  <2>2. LoopsFit
    BY DEF UpgradeInv
  <2>. QED  BY <1>1, <1>2, <1>4, <2>1, <2>2 DEF LoopsFit
<1>9. CaptureBeforeDestroy'
  <2>1. {x[1] : x \in hist.gone} \subseteq disk.names
    BY DEF UpgradeInv, CaptureBeforeDestroy
  <2>. QED  BY <1>1, <1>3, <1>4, <1>5, <1>6, <2>1 DEF CaptureBeforeDestroy
<1>10. CapturedKnown' /\ CapturedTornDown'
  BY <1>1, <1>2, <1>3, <1>5 DEF UpgradeInv, CapturedKnown, CapturedTornDown
<1>11. \A x : Remaining(x)' \subseteq Remaining(x) /\ (s \in Remaining(x)' => s \in live')
  BY <1>1, <1>3 DEF Remaining, Of
<1>12. hist.failed \subseteq hist'.failed /\ (s \in live' => s \in hist'.failed)
  BY <1>3 DEF TypeOK
<1>13. PassedTornDown' /\ FinishedTornDown'
  BY <1>1, <1>2, <1>11, <1>12 DEF UpgradeInv, PassedTornDown, FinishedTornDown
<1>14. ScannedOrFailed'
  <2>1. ScannedOrFailed
    BY DEF UpgradeInv
  <2>. QED  BY <1>2, <1>11, <1>12, <2>1 DEF ScannedOrFailed, Conductor
<1>. QED  BY <1>7, <1>8, <1>9, <1>10, <1>13, <1>14 DEF UpgradeInv

LEMMA ConductorTurnInv ==
  ASSUME TypeOK, UpgradeInv, NEW e, TerminateSources(e) PROVE UpgradeInv'
<1>1. /\ UNCHANGED <<live, disk, hist>> /\ engine.at = "peers" /\ e \in engine.ensemble
      /\ engine.sessions \subseteq {Conductor(e)}
      /\ engine' = [engine EXCEPT !.at = "conductor"]
  BY DEF TerminateSources, At
<1>2. /\ engine'.at = "conductor" /\ engine'.names = engine.names /\ engine'.players = engine.players
      /\ engine'.left = engine.left /\ engine'.ensemble = engine.ensemble
      /\ engine'.sessions = engine.sessions
  BY <1>1 DEF TypeOK
<1>3. PhasesFit'
  BY <1>1, <1>2 DEF UpgradeInv, PhasesFit, Early, Resumed, Teardown
<1>4. LoopsFit'
  <2>1. LoopsFit /\ \A x : Of(x)' = Of(x)
    BY DEF UpgradeInv, Of
  <2>. QED  BY <1>1, <1>2, <2>1 DEF LoopsFit
<1>5. CaptureBeforeDestroy' /\ CapturedKnown' /\ CapturedTornDown'
  BY <1>1, <1>2 DEF UpgradeInv, CaptureBeforeDestroy, CapturedKnown, CapturedTornDown
<1>6. \A x : Remaining(x)' = Remaining(x)
  BY <1>1 DEF Remaining, Of
<1>7. PassedTornDown' /\ FinishedTornDown'
  BY <1>1, <1>2, <1>6 DEF UpgradeInv, PassedTornDown, FinishedTornDown
<1>8. ScannedOrFailed'
  <2>1. ScannedOrFailed /\ engine.ensemble = {e}
    BY <1>1 DEF UpgradeInv, LoopsFit
  <2>. QED  BY <1>1, <1>2, <1>6, <2>1 DEF ScannedOrFailed, Conductor
<1>. QED  BY <1>3, <1>4, <1>5, <1>7, <1>8 DEF UpgradeInv

LEMMA EnsembleInv ==
  ASSUME TypeOK, UpgradeInv, EnsembleDestroyed PROVE UpgradeInv'
<1>1. /\ UNCHANGED <<live, disk, hist>> /\ engine.at = "conductor" /\ engine.sessions = {}
      /\ engine' = [engine EXCEPT !.at = "destroy", !.left = @ \ engine.ensemble, !.ensemble = {}]
  BY DEF EnsembleDestroyed, At, cluster
<1>2. /\ engine'.at = "destroy" /\ engine'.names = engine.names /\ engine'.players = engine.players
      /\ engine'.left = engine.left \ engine.ensemble
  BY <1>1 DEF TypeOK
<1>3. PhasesFit' /\ LoopsFit'
  BY <1>1, <1>2 DEF UpgradeInv, PhasesFit, LoopsFit, Early, Resumed, Teardown
<1>4. CaptureBeforeDestroy' /\ CapturedKnown' /\ CapturedTornDown'
  BY <1>1, <1>2 DEF UpgradeInv, CaptureBeforeDestroy, CapturedKnown, CapturedTornDown
<1>5. \A x : Remaining(x)' = Remaining(x)
  BY <1>1 DEF Remaining, Of
<1>6. \A x \in engine.ensemble : Remaining(x) \subseteq hist.failed
  BY <1>1 DEF UpgradeInv, ScannedOrFailed
<1>7. \A x \in disk.names \ engine.left : Remaining(x) \subseteq hist.failed
  BY <1>1 DEF UpgradeInv, PassedTornDown
<1>8. PassedTornDown' /\ FinishedTornDown' /\ ScannedOrFailed'
  BY <1>1, <1>2, <1>5, <1>6, <1>7 DEF PassedTornDown, FinishedTornDown, ScannedOrFailed
<1>. QED  BY <1>3, <1>4, <1>8 DEF UpgradeInv

LEMMA LeaveLoopInv ==
  ASSUME TypeOK, UpgradeInv, LeaveLoop PROVE UpgradeInv'
<1>1. UNCHANGED <<live, disk, hist>> /\ engine.left = {}
  BY DEF LeaveLoop, cluster
<1>2. PICK after, left :
        /\ after \in UpgradePoints
        /\ <<engine.at, after>> \in AfterLoop
        /\ engine' = [engine EXCEPT !.at = after, !.left = left]
        /\ after # "poll" => left = engine.names
  BY DEF LeaveLoop
<1>3. /\ engine'.at = after /\ engine'.names = engine.names /\ engine'.players = engine.players
      /\ engine'.left = left
  BY <1>2 DEF TypeOK
<1>4. LoopsFit /\ engine.players \subseteq live \cup hist.gone
  BY DEF UpgradeInv, CapturedKnown
<1>5. CASE engine.at \in {"pause", "drain", "freeze", "capture"}
  <2>1. after \in {"drain", "poll", "capture", "write"}
    BY <1>2, <1>5 DEF AfterLoop
  <2>. QED  BY <1>1, <1>2, <1>3, <1>4, <1>5, <2>1, EarlyInv DEF Early, LoopsFit
<1>6. CASE engine.at = "reassert"
  <2>1. after = "stamp"
    BY <1>2, <1>6 DEF AfterLoop
  <2>2. PhasesFit' /\ LoopsFit'
    BY <1>1, <1>3, <1>4, <1>6, <2>1 DEF UpgradeInv, PhasesFit, LoopsFit, Early, Resumed, Teardown
  <2>. QED  BY <1>1, <1>3, <1>4, <2>1, <2>2, QuietInv DEF Teardown
<1>7. CASE engine.at = "destroy"
  <2>1. after = "finish"
    BY <1>2, <1>7 DEF AfterLoop
  <2>2. PhasesFit' /\ LoopsFit'
    BY <1>1, <1>3, <1>4, <1>7, <2>1 DEF UpgradeInv, PhasesFit, LoopsFit, Early, Resumed, Teardown
  <2>3. CaptureBeforeDestroy' /\ CapturedKnown' /\ CapturedTornDown'
    BY <1>1, <1>3 DEF UpgradeInv, CaptureBeforeDestroy, CapturedKnown, CapturedTornDown
  <2>4. \A x : Remaining(x)' = Remaining(x)
    BY <1>1 DEF Remaining, Of
  <2>5. PassedTornDown' /\ FinishedTornDown' /\ ScannedOrFailed'
    BY <1>1, <1>3, <1>7, <2>1, <2>4
    DEF UpgradeInv, PassedTornDown, FinishedTornDown, ScannedOrFailed
  <2>. QED  BY <2>2, <2>3, <2>5 DEF UpgradeInv
<1>. QED  BY <1>2, <1>5, <1>6, <1>7 DEF AfterLoop

LEMMA DoneInv ==
  ASSUME TypeOK, UpgradeInv, StampDone PROVE UpgradeInv'
<1>1. /\ UNCHANGED <<live, hist>> /\ engine.at = "finish"
      /\ disk' = [disk EXCEPT !.phase = "done"] /\ engine' = Off
  BY DEF StampDone, At, cluster
<1>2. disk'.phase = "done" /\ disk'.names = disk.names /\ disk'.players = disk.players
  BY <1>1 DEF TypeOK
<1>3. engine'.at = "off" /\ engine'.players = {}
  BY <1>1 DEF Off
<1>4. PhasesFit' /\ LoopsFit'
  BY <1>3 DEF PhasesFit, LoopsFit, Early, Resumed, Teardown
<1>5. CaptureBeforeDestroy' /\ CapturedKnown'
  BY <1>1, <1>2, <1>3 DEF UpgradeInv, CaptureBeforeDestroy, CapturedKnown
<1>6. ASSUME NEW s \in disk.players \cap live PROVE s \in hist.failed
  <2>1. s \in Sessions /\ s[1] \in disk.names
    BY DEF TypeOK
  <2>2. s \in Remaining(s[1])
    BY <2>1 DEF Remaining, Of
  <2>. QED  BY <1>1, <2>1, <2>2 DEF UpgradeInv, FinishedTornDown
<1>7. CapturedTornDown'
  BY <1>1, <1>2, <1>6 DEF CapturedTornDown
<1>. QED  BY <1>3, <1>4, <1>5, <1>7, NotTearingDown DEF UpgradeInv, Teardown

LEMMA UpgradeNextInv == TypeOK /\ UpgradeInv /\ [Next]_upgradeVars => UpgradeInv'
<1>. SUFFICES ASSUME TypeOK, UpgradeInv, [Next]_upgradeVars PROVE UpgradeInv'
  OBVIOUS
<1>1. CASE UNCHANGED upgradeVars
  BY <1>1
  DEF upgradeVars, UpgradeInv, PhasesFit, LoopsFit, CaptureBeforeDestroy, CapturedKnown, PassedTornDown,
      FinishedTornDown, ScannedOrFailed, CapturedTornDown, Remaining, Of
<1>2. CASE Cluster
  BY <1>2, ClusterInv
<1>3. ASSUME NEW e \in Ensembles, NEW found, DrainScan(e, found) \/ Freeze(e, found) \/ CaptureSnapshot(e, found)
      PROVE  UpgradeInv'
  BY <1>3, PreparationInv
<1>4. ASSUME NEW e \in Ensembles, Scans(e) PROVE UpgradeInv'
  BY <1>3, <1>4, ReassertInv, DestroyScanInv DEF Scans
<1>5. CASE DestroyPeers \/ DestroyConductor
  BY <1>5, DestroyUpdateInv DEF DestroyPeers, DestroyConductor, At
<1>6. CASE Engine
  BY <1>4, <1>5, <1>6, StartsInv, PreparationInv, LeaveLoopInv, ConductorTurnInv, WriteInv, StampInv,
     EnsembleInv, DoneInv DEF Engine
<1>7. CASE PreflightStops \/ DrainAgain \/ DrainStops \/ Crash
  BY <1>7, StartsInv, PreparationInv
<1>. QED  BY <1>1, <1>2, <1>6, <1>7 DEF Next

THEOREM UpgradeInvariant == Spec => [](TypeOK /\ UpgradeInv)
<1>1. Init => TypeOK /\ UpgradeInv
  BY UpgradeInitTypes, UpgradeInitInv
<1>2. TypeOK /\ UpgradeInv /\ [Next]_upgradeVars => (TypeOK /\ UpgradeInv)'
  BY UpgradeNextTypes, UpgradeNextInv
<1>. QED  BY <1>1, <1>2, PTL DEF Spec

-----------------------------------------------------------------------------
(* Theorems *)

(* The model is well typed: what a command left off keeps nothing.         *)
THEOREM UpgradeTypeCorrect == Spec => []TypeOK
  BY UpgradeInvariant, PTL

(* Nothing is torn down before a durable snapshot that names its ensemble. *)
THEOREM CapturesBeforeDestroying == Spec => []CaptureBeforeDestroy
  BY UpgradeInvariant, PTL DEF UpgradeInv

(* Done means torn down: what is left of the captured players was missed   *)
(* by the scan, or failed.                                                 *)
THEOREM CapturedAreTornDown == Spec => []CapturedTornDown
  BY UpgradeInvariant, PTL DEF UpgradeInv

LEMMA SnapshotStep ==
  ASSUME TypeOK, UpgradeInv, [Next]_upgradeVars, disk.phase # "none"
  PROVE  disk'.players = disk.players /\ disk'.names = disk.names /\ PhaseRank(disk') >= PhaseRank(disk)
<1>. USE DEF TypeOK, UpgradePhases, PhaseRank
<1>1. CASE disk' = disk
  BY <1>1
<1>2. CASE StampDestroy
  <2>1. disk.phase \in {"snapshot", "destroy"} /\ disk' = [disk EXCEPT !.phase = "destroy"]
    BY <1>2 DEF StampDestroy, At, UpgradeInv, PhasesFit, Resumed
  <2>. QED  BY <2>1
<1>3. CASE StampDone
  <2>1. disk.phase = "destroy" /\ disk' = [disk EXCEPT !.phase = "done"]
    BY <1>3 DEF StampDone, At, UpgradeInv, PhasesFit, Teardown
  <2>. QED  BY <2>1
<1>4. ~WriteSnapshot
  BY DEF WriteSnapshot, At, UpgradeInv, PhasesFit, Early
<1>5. ASSUME NEW e, Scans(e) PROVE disk' = disk
  BY <1>5
  DEF Scans, DrainScan, Freeze, ReassertPause, CaptureSnapshot, DestroyScan, SignalAllSessions
<1>6. CASE Engine
  BY <1>1, <1>2, <1>3, <1>4, <1>5, <1>6
  DEF Engine, RunUpgradeToV2, EnumerateEnsembleNames, Confirmed, LeaveLoop, PauseMaestroAndScheduler,
      TerminateSources, CollectPendingOutbox, Drained, DestroyPeers, DestroyConductor, DestroyUpdate,
      EnsembleDestroyed
<1>. QED
  BY <1>1, <1>6
  DEF Next, upgradeVars, Cluster, Recruit, Submit, Dispatch, PreflightStops, DrainAgain, DrainStops, Crash

(* A resumed cutover never captures again, and goes on, not back.          *)
THEOREM KeepsTheSnapshot == Spec => SnapshotIsKept
<1>1. (TypeOK /\ UpgradeInv) /\ [Next]_upgradeVars
        => [disk.phase # "none" => /\ disk'.players = disk.players /\ disk'.names = disk.names
                                   /\ PhaseRank(disk') >= PhaseRank(disk)]_upgradeVars
  BY SnapshotStep
<1>. QED  BY <1>1, UpgradeInvariant, PTL DEF Spec, SnapshotIsKept

LEMMA ConductorStep ==
  ASSUME TypeOK, UpgradeInv, [Next]_upgradeVars,
         NEW e \in Ensembles, Conductor(e) \in hist'.gone \ hist.gone
  PROVE  disk.players \cap live \cap Of(e) \subseteq hist.failed \cup {Conductor(e)}
<1>1. ASSUME NEW s, DestroyUpdate(s) PROVE s = Conductor(e)
  <2>1. hist'.gone \in {hist.gone, hist.gone \cup {s}}
    <3>1. CASE hist' = [hist EXCEPT !.gone = @ \cup {s}]
      BY <3>1 DEF TypeOK
    <3>2. CASE hist' = [hist EXCEPT !.failed = @ \cup {s}]
      BY <3>2 DEF TypeOK
    <3>. QED  BY <1>1, <3>1, <3>2 DEF DestroyUpdate
  <2>. QED  BY <2>1
<1>2. ~DestroyPeers
  <2>1. Conductor(e)[2] \notin Peers
    BY UpgradePeersAssumption DEF Conductor
  <2>. QED  BY <1>1, <2>1 DEF DestroyPeers
<1>3. CASE DestroyConductor
  <2>1. engine.at = "conductor" /\ Conductor(e) \in engine.sessions
    BY <1>1, <1>3 DEF DestroyConductor, At
  <2>2. PICK x \in engine.names : engine.ensemble = {x}
    BY <2>1 DEF UpgradeInv, LoopsFit
  <2>3. /\ Remaining(x) \subseteq hist.failed \cup engine.sessions
        /\ engine.sessions \subseteq {Conductor(x)}
    BY <2>1, <2>2 DEF UpgradeInv, ScannedOrFailed
  <2>4. x = e
    BY <2>1, <2>3 DEF Conductor
  <2>. QED  BY <2>3, <2>4 DEF Remaining
<1>4. ASSUME NEW x, Scans(x) PROVE hist'.gone = hist.gone
  <2>1. ASSUME NEW found, DestroyScan(x, found) PROVE hist'.gone = hist.gone
    BY <2>1 DEF DestroyScan, TypeOK
  <2>. QED
    BY <1>4, <2>1
    DEF Scans, DrainScan, Freeze, ReassertPause, CaptureSnapshot, SignalAllSessions, cluster
<1>5. CASE Engine
  BY <1>2, <1>3, <1>4, <1>5
  DEF Engine, RunUpgradeToV2, EnumerateEnsembleNames, Confirmed, LeaveLoop, PauseMaestroAndScheduler,
      TerminateSources, CollectPendingOutbox, Drained, WriteSnapshot, StampDestroy, EnsembleDestroyed,
      StampDone, cluster
<1>. QED
  BY <1>5
  DEF Next, upgradeVars, Cluster, Recruit, Submit, Dispatch, PreflightStops, DrainAgain, DrainStops,
      Crash, cluster

(* The conductor is torn down after the captured peers of its ensemble.    *)
THEOREM ConductorGoesLast == Spec => ConductorLast
<1>1. (TypeOK /\ UpgradeInv) /\ [Next]_upgradeVars
        => [\A e \in Ensembles : Conductor(e) \in hist'.gone \ hist.gone
              => disk.players \cap live \cap Of(e) \subseteq hist.failed \cup {Conductor(e)}]_upgradeVars
  BY ConductorStep
<1>. QED  BY <1>1, UpgradeInvariant, PTL DEF Spec, ConductorLast

=============================================================================
